----------------------------- MODULE CollabHost -----------------------------
(***************************************************************************)
(* The shared session of a daemon: CollabHostAdapter of session/           *)
(* collab-host.ts, the commands of session/index.ts that start and stop    *)
(* it, and the dialogs of session/ui-context.ts that a guest is asked      *)
(* before the browsers are, over the rooms of CollabRelay.                 *)
(*                                                                         *)
(* Every start makes an adapter and a room of the same number.  A dialog   *)
(* that waits for an answer is with the guests or with the browsers; one   *)
(* of several questions is several dialogs.  The transcript is the number  *)
(* of its entries.                                                         *)
(*                                                                         *)
(* The client half of a connection is CollabSocket, of a library: as its   *)
(* use here has it, it dials again after a connection that broke, and ends *)
(* for good after one that the relay refused in its room.  What is on its  *)
(* way when a connection breaks is lost, and so is what is sent before the *)
(* next one is up.                                                         *)
(*                                                                         *)
(* Left out: the roster, state and bus frames, but for what any of them    *)
(* finds out of a switched session; abort, agent and transcript requests,  *)
(* which are checked as prompts are; the bye; the daemon's shutdown; the   *)
(* error that is all a hello of another protocol version comes to, so that *)
(* who sends one is here a guest that sends none.                          *)
(*                                                                         *)
(* HelloKeepingOld and HelloWithoutDialogs are slips of the operator each  *)
(* stands before, for the mutants.                                         *)
(***************************************************************************)
EXTENDS CollabRelay

CONSTANTS
  Asks,        \* dialogs of the session that can wait at a time
  MaxReqs,     \* bound on the requests to guests
  MaxLog,      \* bound on the entries of the transcript
  MaxFaults    \* bound on broken connections, failed dials and switched sessions

ASSUME BoundsAreNatural == MaxReqs \in Nat /\ MaxLog \in Nat /\ MaxFaults \in Nat

VARIABLES
  ads,       \* the adapters
  slot,      \* entry.collab.adapter, 0 for null
  starting,  \* entry.collab.starting
  tap,       \* the adapter in sessionManager.onEntryAppended, 0 for undefined
  session,   \* getSessionId()
  log,       \* entries of the transcript
  asks,      \* the dialogs
  reqs,      \* #uiReqSeq
  astray,    \* a prompt ran of a welcomed guest without the token, which no code reads
  faults     \* what MaxFaults bounds

hostVars == <<ads, slot, starting, tap, session, log, asks, reqs, astray, faults>>
vars == <<relayVars, hostVars>>

(* sock: "open" and "dialing" are of the connection dial; "down" is between *)
(* two.  peers: #peers, who can write.  pending: #pendingUi.  turns: the    *)
(* stops that have yielded.                                                 *)
NoAdapter == [phase |-> "none", sock |-> "none", dial |-> 0, peers |-> <<>>,
              pending |-> {}, session |-> 0, turns |-> {}]

Settled == [at |-> "none", req |-> 0]

Init ==
  /\ RelayInit
  /\ ads = [k \in Rooms |-> NoAdapter] /\ slot = 0 /\ starting = FALSE /\ tap = 0
  /\ session = 0 /\ log = 0 /\ asks = [a \in Asks |-> Settled] /\ reqs = 0
  /\ astray = FALSE /\ faults = 0

\* isLive.
IsLive(k) == k # 0 /\ ads[k].phase = "live"
Connected(k) == IsLive(k) /\ ads[k].sock = "open"
CanWrite(k) == {p \in DOMAIN ads[k].peers : ads[k].peers[p]}

-----------------------------------------------------------------------------
(* Dialogs.                                                                *)

\* webUiRequest.
Web == [at |-> "browsers", req |-> 0]

\* #sendWritablePeers.
ToWritable(k, t, n) == {Frame(t, p, n) : p \in CanWrite(k)}

\* socket.send, of frames one after the other, to the guests gs.
Sent(gs, k, frames) == IF Connected(k) THEN Forwarded(gs, k, frames) ELSE gs

\* uiRequest: guests are asked if one of them can write.
AskGuests(a) ==
  /\ asks[a].at = "none" /\ reqs < MaxReqs
  /\ IsLive(slot) /\ CanWrite(slot) # {}
  /\ reqs' = reqs + 1
  /\ asks' = [asks EXCEPT ![a] = [Settled EXCEPT !.at = "guests", !.req = reqs + 1]]
  /\ ads' = [ads EXCEPT ![slot].pending = @ \cup {reqs + 1}]
  /\ guests' = Sent(guests, slot, ToWritable(slot, "ask", reqs + 1))
  /\ UNCHANGED <<rooms, dials, down, slot, starting, tap, session, log, astray, faults>>

AskBrowsers(a) ==
  /\ asks[a].at = "none"
  /\ ~(IsLive(slot) /\ CanWrite(slot) # {})
  /\ asks' = [asks EXCEPT ![a] = Web]
  /\ UNCHANGED <<relayVars, ads, slot, starting, tap, session, log, reqs, astray, faults>>

\* ui_response, or a rejection: webUiRequest when no stream is attached,
\* rejectStreamUiRequests when the last one it was shown to has closed.
BrowsersSettle(a) ==
  /\ asks[a].at = "browsers"
  /\ asks' = [asks EXCEPT ![a] = Settled]
  /\ UNCHANGED <<relayVars, ads, slot, starting, tap, session, log, reqs, astray, faults>>

-----------------------------------------------------------------------------
(* Start and stop.                                                         *)

\* The connection of adapter k, closed at the client.
HungUp(k) ==
  IF ads[k].sock \in {"dialing", "open"}
    THEN [dials EXCEPT ![ads[k].dial] =
           IF @.st = "asked" THEN FreeDial ELSE [@ EXCEPT !.alive = FALSE]]
    ELSE dials

\* The frames on their way over the connection of adapter k are lost.
Silenced(k) == down' = [down EXCEPT ![k] = <<>>]

Unheard(gs, k) ==
  [g \in Guests |-> IF gs[g].room = k THEN [gs[g] EXCEPT !.heard = FALSE] ELSE gs[g]]

\* #teardown settles what waits for guests, and uiRequest falls through.
FallenThrough(k) ==
  [a \in Asks |-> IF asks[a].at = "guests" /\ asks[a].req \in ads[k].pending
                    THEN Web ELSE asks[a]]

\* #restoreEntryAppendedSlot: the slot is cleared, whoever is in it.
TapCleared(k) == IF IsLive(k) THEN 0 ELSE tap

Stopped(k) == [NoAdapter EXCEPT !.phase = "stopped", !.turns = ads[k].turns]

\* collab_start, up to the await of firstOpen.
CollabStart(k, d) ==
  /\ ~starting /\ slot = 0
  /\ ads[k].phase = "none" /\ \A j \in Rooms : j < k => ads[j].phase # "none"
  /\ dials[d].st = "free"
  /\ starting' = TRUE
  /\ ads' = [ads EXCEPT ![k] =
       [NoAdapter EXCEPT !.phase = "dialing", !.sock = "dialing", !.dial = d, !.session = session]]
  /\ dials' = [dials EXCEPT ![d] = [st |-> "asked", room |-> k, alive |-> TRUE]]
  /\ UNCHANGED <<rooms, guests, down, slot, tap, session, log, asks, reqs, astray, faults>>

\* The connection fails before it is open: a start fails with it, a live
\* adapter dials again.
DialLost(k) ==
  IF ads[k].phase = "dialing"
    THEN /\ ads' = [ads EXCEPT ![k] = Stopped(k)] /\ starting' = FALSE
    ELSE /\ ads' = [ads EXCEPT ![k].sock = "down", ![k].dial = 0]
         /\ UNCHANGED starting

\* The server takes up the request, or answers 503.
DialUpgrades(k) ==
  /\ ads[k].sock = "dialing" /\ dials[ads[k].dial].st = "asked"
  /\ IF Upgrades(ads[k].dial)
       THEN /\ dials' = [dials EXCEPT ![ads[k].dial].st = "upgraded"]
            /\ UNCHANGED <<ads, starting>>
       ELSE /\ dials' = [dials EXCEPT ![ads[k].dial] = FreeDial]
            /\ DialLost(k)
  /\ UNCHANGED <<rooms, guests, down, slot, tap, session, log, asks, reqs, astray, faults>>

\* An error of the network, or CONNECT_TIMEOUT_MS.
DialFails(k) ==
  /\ faults < MaxFaults /\ faults' = faults + 1
  /\ ads[k].sock = "dialing"
  /\ dials' = HungUp(k) /\ DialLost(k)
  /\ UNCHANGED <<rooms, guests, down, slot, tap, session, log, asks, reqs, astray>>

\* The adapter on the connection d, or 0 if it has hung up.
Caller(d) == IF dials[d].alive THEN dials[d].room ELSE 0

\* The room lets the host in.  The first time, start() goes on to its end.
HostOpens(d) ==
  /\ dials[d].st = "upgraded" /\ Admits(d)
  /\ rooms' = Admit(d)
  /\ dials' = [dials EXCEPT ![d].st = "open"]
  /\ LET k == Caller(d)
     IN IF k = 0
          THEN UNCHANGED <<ads, slot, starting, tap>>
          ELSE /\ ads' = [ads EXCEPT ![k].sock = "open", ![k].phase = "live"]
               /\ IF ads[k].phase = "dialing"
                    THEN slot' = k /\ starting' = FALSE /\ tap' = k
                    ELSE UNCHANGED <<slot, starting, tap>>
  /\ UNCHANGED <<guests, down, session, log, asks, reqs, astray, faults>>

\* 4009 and 4028: the socket does not dial again, and a live adapter ends.
HostIsRefused(d) ==
  /\ dials[d].st = "upgraded" /\ ~Admits(d)
  /\ dials' = [dials EXCEPT ![d] = FreeDial]
  /\ LET k == Caller(d)
     IN IF k = 0
          THEN UNCHANGED <<ads, starting, tap, asks>>
          ELSE /\ ads' = [ads EXCEPT ![k] = Stopped(k)]
               /\ asks' = FallenThrough(k) /\ tap' = TapCleared(k)
               /\ starting' = IF ads[k].phase = "dialing" THEN FALSE ELSE starting
  /\ UNCHANGED <<rooms, guests, down, slot, session, log, reqs, astray, faults>>

\* onClose with willReconnect.
Breaks(k) ==
  /\ faults < MaxFaults /\ faults' = faults + 1
  /\ Connected(k)
  /\ ads' = [ads EXCEPT ![k].sock = "down", ![k].dial = 0]
  /\ dials' = HungUp(k) /\ Silenced(k) /\ guests' = Unheard(guests, k)
  /\ UNCHANGED <<rooms, slot, starting, tap, session, log, asks, reqs, astray>>

Redials(k, d) ==
  /\ IsLive(k) /\ ads[k].sock = "down" /\ dials[d].st = "free"
  /\ ads' = [ads EXCEPT ![k].sock = "dialing", ![k].dial = d]
  /\ dials' = [dials EXCEPT ![d] = [st |-> "asked", room |-> k, alive |-> TRUE]]
  /\ UNCHANGED <<rooms, guests, down, slot, starting, tap, session, log, asks, reqs, astray, faults>>

\* collab_stop, up to the turn that stop() yields.  An adapter that has
\* ended by itself is only let go of.
CollabStop ==
  /\ ~starting /\ slot # 0
  /\ slot' = 0
  /\ ads' = IF IsLive(slot) THEN [ads EXCEPT ![slot].turns = @ \cup {"command"}] ELSE ads
  /\ UNCHANGED <<relayVars, starting, tap, session, log, asks, reqs, astray, faults>>

\* The rest of stop(): #teardown, once, and for collab_stop closeRoom.
StopTurn(k, turn) ==
  /\ turn \in ads[k].turns
  /\ ads' = [ads EXCEPT ![k] = [Stopped(k) EXCEPT !.turns = @ \ {turn}]]
  /\ asks' = FallenThrough(k) /\ tap' = TapCleared(k)
  /\ dials' = HungUp(k) /\ Silenced(k)
  /\ IF turn = "command" /\ rooms[k].present
       THEN CloseRoom(k)
       ELSE /\ guests' = Unheard(guests, k) /\ UNCHANGED rooms
  /\ UNCHANGED <<slot, starting, session, log, reqs, astray, faults>>

-----------------------------------------------------------------------------
(* Frames and events.                                                      *)

Reads(k, t) == Connected(k) /\ down[k] # <<>> /\ Head(down[k]).t = t
Peer(k) == Head(down[k]).peer
Taken(k) == down' = [down EXCEPT ![k] = Tail(@)]

\* The guest that has the peer id in the room: whom the host speaks to.
Heard(k) ==
  [g \in Guests |-> IF guests[g].st = "in" /\ guests[g].room = k /\ guests[g].peer = Peer(k)
                      THEN [guests[g] EXCEPT !.heard = TRUE] ELSE guests[g]]

Pending(k) == {Frame("ask", Peer(k), n) : n \in ads[k].pending}

Greeting(k, writes) ==
  {Frame("welcome", Peer(k), log)} \cup (IF writes THEN Pending(k) ELSE {})

\* A peer that the host knows keeps what it was allowed.
HelloKeepingOld(k) ==
  /\ Reads(k, "hello") /\ Taken(k)
  /\ LET writes == Head(down[k]).n
     IN /\ ads' = [ads EXCEPT ![k].peers = IF Peer(k) \in DOMAIN @ THEN @ ELSE Put(@, Peer(k), writes)]
        /\ guests' = Sent(Heard(k), k, Greeting(k, writes))
  /\ UNCHANGED <<rooms, dials, slot, starting, tap, session, log, asks, reqs, astray, faults>>

\* A guest is shown only what is asked from now on.
HelloWithoutDialogs(k) ==
  /\ Reads(k, "hello") /\ Taken(k)
  /\ ads' = [ads EXCEPT ![k].peers = Put(@, Peer(k), Head(down[k]).n)]
  /\ guests' = Sent(Heard(k), k, {Frame("welcome", Peer(k), log)})
  /\ UNCHANGED <<rooms, dials, slot, starting, tap, session, log, asks, reqs, astray, faults>>

\* #handleHello: the snapshot, its chunks and the waiting requests at once.
Hello(k) ==
  /\ Reads(k, "hello") /\ Taken(k)
  /\ LET writes == Head(down[k]).n
     IN /\ ads' = [ads EXCEPT ![k].peers = Put(@, Peer(k), writes)]
        /\ guests' = Sent(Heard(k), k, Greeting(k, writes))
  /\ UNCHANGED <<rooms, dials, slot, starting, tap, session, log, asks, reqs, astray, faults>>

Allowed(k) == Peer(k) \in CanWrite(k)

\* #handleUiResponse and settle: the first answer counts.
Answer(k) ==
  /\ Reads(k, "answer") /\ Taken(k)
  /\ LET n == Head(down[k]).n
     IN IF Allowed(k) /\ n \in ads[k].pending
          THEN /\ ads' = [ads EXCEPT ![k].pending = @ \ {n}]
               /\ asks' = [a \in Asks |->
                    IF asks[a].at = "guests" /\ asks[a].req = n THEN Settled ELSE asks[a]]
               /\ guests' = Sent(guests, k, ToWritable(k, "end", n))
          ELSE UNCHANGED <<ads, asks, guests>>
  /\ UNCHANGED <<rooms, dials, slot, starting, tap, session, log, reqs, astray, faults>>

\* #handlePrompt.
Prompt(k) ==
  /\ Reads(k, "prompt") /\ Taken(k)
  /\ astray' = (astray \/ (Allowed(k) /\ ~Head(down[k]).n))
  /\ UNCHANGED <<rooms, dials, guests, ads, slot, starting, tap, session, log, asks, reqs, faults>>

\* #handlePeerLeft.  What waits for guests goes on waiting.
PeerLeft(k) ==
  /\ Reads(k, "left") /\ Taken(k)
  /\ ads' = [ads EXCEPT ![k].peers = Restrict(@, DOMAIN @ \ {Peer(k)})]
  /\ UNCHANGED <<rooms, dials, guests, slot, starting, tap, session, log, asks, reqs, astray, faults>>

\* Does adapter k still belong to the session?
Current(k) == ads[k].session = session

\* #broadcast of an adapter whose session was switched stops it.
Broken(k) ==
  IF IsLive(k) /\ ~Current(k) THEN [ads[k] EXCEPT !.turns = @ \cup {"switch"}] ELSE ads[k]

\* An entry is appended, and the adapter that taps the session passes it on.
Appends ==
  /\ log < MaxLog /\ log' = log + 1
  /\ IF tap = 0
       THEN UNCHANGED <<guests, ads>>
       ELSE /\ guests' = IF Current(tap) THEN Sent(guests, tap, {Frame("entry", 0, log + 1)})
                                         ELSE guests
            /\ ads' = [ads EXCEPT ![tap] = Broken(tap)]
  /\ UNCHANGED <<rooms, dials, down, slot, starting, tap, session, asks, reqs, astray, faults>>

\* Any other frame that is broadcast: of the state, of an event, of the roster.
FindsSwitch(k) ==
  /\ Broken(k) # ads[k]
  /\ ads' = [ads EXCEPT ![k] = Broken(k)]
  /\ UNCHANGED <<relayVars, slot, starting, tap, session, log, asks, reqs, astray, faults>>

\* A lifecycle boundary rejects the dialogs that are with the browsers.
Switches ==
  /\ faults < MaxFaults /\ faults' = faults + 1
  /\ session' = session + 1
  /\ asks' = [a \in Asks |-> IF asks[a].at = "browsers" THEN Settled ELSE asks[a]]
  /\ UNCHANGED <<relayVars, ads, slot, starting, tap, log, reqs, astray>>

-----------------------------------------------------------------------------
\* What a guest sends before it is welcomed is judged by whatever the host knows
\* of its peer id.
MayBeRun(g) == guests[g].writes \/ guests[g].log < 0

\* A guest sends what it likes when it likes: its hello late, twice or never.  A
\* prompt says, for astray, whether the host may run it; the host does not see it.
GuestActs(g) ==
  \/ \E r \in Rooms, writes \in BOOLEAN : GuestJoins(g, r, writes)
  \/ GuestLeaves(g)
  \/ GuestSends(g, "hello", guests[g].writes)
  \/ GuestSends(g, "prompt", MayBeRun(g))
  \/ \E n \in guests[g].dialogs : GuestSends(g, "answer", n)

SessionActs ==
  \/ \E a \in Asks : AskGuests(a) \/ AskBrowsers(a) \/ BrowsersSettle(a)
  \/ \E k \in Rooms, d \in Dials : CollabStart(k, d)
  \/ CollabStop \/ Appends \/ Switches

HostReads(k) == Hello(k) \/ Answer(k) \/ Prompt(k) \/ PeerLeft(k)

Next ==
  \/ SessionActs
  \/ \E g \in Guests :
       \/ GuestActs(g) /\ UNCHANGED hostVars
       \/ GuestCloses(g) /\ UNCHANGED hostVars
  \/ \E d \in Dials : HostOpens(d) \/ HostIsRefused(d) \/ (HostCloses(d) /\ UNCHANGED hostVars)
  \/ \E r \in Rooms : Expires(r) /\ UNCHANGED hostVars
  \/ \E k \in Rooms :
       \/ DialUpgrades(k) \/ DialFails(k) \/ Breaks(k) \/ FindsSwitch(k) \/ HostReads(k)
       \/ \E d \in Dials : Redials(k, d)
       \/ \E turn \in ads[k].turns : StopTurn(k, turn)

Spec == Init /\ [][Next]_vars

\* The server, the relay's timer, the sockets and the adapters go on by
\* themselves; what people do, faults and switches are under no obligation.
FairSpec ==
  /\ Spec
  /\ \A g \in Guests : WF_vars(GuestCloses(g) /\ UNCHANGED hostVars)
  /\ \A d \in Dials :
       /\ WF_vars(HostOpens(d) \/ HostIsRefused(d))
       /\ WF_vars(HostCloses(d) /\ UNCHANGED hostVars)
  /\ \A k \in Rooms :
       /\ WF_vars(Expires(k) /\ UNCHANGED hostVars)
       /\ WF_vars(DialUpgrades(k)) /\ WF_vars(HostReads(k)) /\ WF_vars(FindsSwitch(k))
       /\ WF_vars(\E d \in Dials : Redials(k, d))
       /\ WF_vars(\E turn \in ads[k].turns : StopTurn(k, turn))

-----------------------------------------------------------------------------
(* Properties.                                                             *)

TypeOK ==
  /\ RelayTypeOK
  /\ slot \in Rooms \cup {0} /\ starting \in BOOLEAN /\ tap \in Rooms \cup {0}
  /\ \A k \in Rooms :
       /\ ads[k].phase \in {"none", "dialing", "live", "stopped"}
       /\ ads[k].sock \in {"none", "dialing", "open", "down"}
       /\ ads[k].pending \subseteq 1..reqs /\ ads[k].turns \subseteq {"command", "switch"}
       /\ ads[k].sock = "open" => dials[ads[k].dial] = [st |-> "open", room |-> k, alive |-> TRUE]
  /\ \A a \in Asks : asks[a].at \in {"none", "guests", "browsers"}
  /\ log \in 0..MaxLog /\ reqs \in 0..MaxReqs /\ astray \in BOOLEAN /\ faults \in 0..MaxFaults

\* The guests that the host welcomed over the connection it still has, while
\* it shares the session it has.
Served == {g \in Guests : guests[g].heard /\ Current(guests[g].room)}

\* The snapshot of a guest and the frames that follow it make up the whole
\* transcript, in its order, and nothing is missing between them, as long as
\* the adapter is in the session's slot (TapStays has more on that).
NoGap == \A g \in Served : tap = guests[g].room => guests[g].log = log

\* A guest that can write is shown the dialogs that wait for guests and no
\* others, whenever it joined and whoever answered.
DialogsMatch ==
  \A g \in Served : guests[g].writes => guests[g].dialogs = ads[guests[g].room].pending

\* No prompt of a guest without the write token is run once the host has welcomed
\* it, though peer ids begin anew with a room that was destroyed under its host
\* and the host keeps what it knew of the guests before.  Of a guest it has not
\* welcomed one may be (ReadersAreReadOnly).
WelcomedReadersDoNotPrompt == ~astray

\* A room without a host is in its grace period, and one with a host is not;
\* the host is the connection of an adapter that has not ended, or one that
\* is about to close.  So no host that came back loses its room, and no room
\* stays for ever.
RoomsAreHeld ==
  \A r \in Rooms : rooms[r].present =>
    /\ rooms[r].host = 0 <=> rooms[r].timer
    /\ rooms[r].host # 0 =>
         LET dial == dials[rooms[r].host]
         IN dial.st = "open" /\ dial.room = r /\ (dial.alive => IsLive(r))

\* A dialog that waits for guests is known to an adapter that has not ended,
\* so the end of the adapter hands it to the browsers.
AsksAreOwned ==
  \A a \in Asks : asks[a].at = "guests" =>
    \E k \in Rooms : IsLive(k) /\ asks[a].req \in ads[k].pending

-----------------------------------------------------------------------------
(* What comments of the source say and the code does not do; see README.   *)

\* ui-context.ts: "when no writable guest is attached the request falls
\* through to the /events streams."
AskFallsThrough ==
  \A a \in Asks :
    (asks[a].at = "guests" /\ \A k \in Rooms : CanWrite(k) = {})
      ~> (asks[a].at # "guests" \/ \E k \in Rooms : CanWrite(k) # {})

\* collab-host.ts: "every real wiring (index.ts, tests) leaves the slot empty,
\* so clearing it equals restoring it".
TapStays == IsLive(slot) => tap = slot

\* session-entry.ts: "the live adapter (null when not live)".
SlotIsLive == slot # 0 => IsLive(slot)

\* collab-host.ts, #sendWritablePeers: only guests that can write are shown
\* a dialog.
ReadersAreSpared == \A g \in Guests : ~guests[g].writes => guests[g].dialogs = {}

\* collab-host.ts, #verifyWriteToken: "peers without a valid token are read-only",
\* those included who have not said hello since the room was made.
ReadersAreReadOnly ==
  \A g \in Guests : guests[g].st = "in" /\ ~guests[g].writes /\ IsLive(guests[g].room) =>
    guests[g].peer \notin CanWrite(guests[g].room)

\* collab-host.ts, writableGuestCount: "Number of connected guests that hold
\* a valid write token."
CountsConnected ==
  \A k \in Rooms :
    <>[](Connected(k) /\ down[k] = <<>>)
      => <>[](\A p \in CanWrite(k) : p \in DOMAIN rooms[k].guests)
=============================================================================
