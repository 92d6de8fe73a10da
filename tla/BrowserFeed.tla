----------------------------- MODULE BrowserFeed -----------------------------
(***************************************************************************)
(* A browser tab's event stream through the fleet's edge: the direct pipe  *)
(* and the browser streams of fleet/edge.ts, connect() of web/state.ts,    *)
(* and the daemon of SessionStream at the far end.                         *)
(*                                                                         *)
(* There are two connections in a row, each with a buffer, a resume id and *)
(* a reconnect of its own.  The edge reads the daemon's frames off the     *)
(* pipe and sends them on under ids of its own, which it counts per client *)
(* and keeps in a ring per client.  The tab asks for the daemon's frames   *)
(* by an attach, which ends with every stream and which it repeats on its  *)
(* own when a stream opens.                                                *)
(*                                                                         *)
(* One tab, one daemon, one attach under way.  The daemon's side of a      *)
(* connection ends with the edge's.  Of the edge's own frames there are    *)
(* the answer to the attach and the registered projects, a number that     *)
(* grows; the roster and the activity differ from them in being ringed.    *)
(*                                                                         *)
(* ReleaseWhoever is a slip of the operator it stands before, for a mutant.*)
(***************************************************************************)
EXTENDS SessionStream, Integers, FiniteSets

CONSTANTS
  UpCap,     \* the edge's backpressure bytes, in frames
  MaxFaults  \* bound on broken connections, failures, restarts and long absences

ASSUME UpCapIsPositive == UpCap \in Nat \ {0}
ASSUME FaultsAreNatural == MaxFaults \in Nat

VARIABLES
  pipe,    \* the stream's pipe to the daemon
  attach,  \* the attach command: none, posted, or waking the daemon
  client,  \* what the edge keeps of the client: nextSeq and the ring
  bound,   \* client.stream is the stream
  stream,  \* the edge's stream: none, wired (in #browsers), or closing
  stale,   \* the cancel of a replaced stream is still to come
  up,      \* the stream's buffered frames
  tab,     \* the browser
  rev,     \* the projects: durable
  faults   \* what MaxFaults bounds

edgeVars == <<pipe, attach, client, bound, stream, stale, up>>
vars == <<daemonVars, edgeVars, tab, rev, faults>>

EdgePriming == 1
EdgeStart == 2

NoClient == [kept |-> FALSE, next |-> EdgeStart, ring |-> <<>>]

(* lost: there is none after a failure.  of: the process whose id last is;  *)
(* astray: the stream under way was asked for with the id of another        *)
(* process.  The code tells none of these.                                  *)
NoPipe == [st |-> "none", last |-> 0, of |-> 0, astray |-> FALSE]
LostPipe == [NoPipe EXCEPT !.st = "lost"]

(* open: the EventSource is connected.  last: its last event id.  seen:     *)
(* seenFrameSeqs.  session: currentSessionId is set.  view: the events of   *)
(* the transcript shown.  projects: the ones shown.                         *)
NewTab == [open |-> FALSE, last |-> 0, seen |-> {}, session |-> FALSE, view |-> <<>>, projects |-> 0]

TypeOK ==
  /\ made \in 0..MaxNews /\ other \in 0..MaxNews /\ rev \in 0..other /\ faults \in 0..MaxFaults
  /\ daemon.run \in 1..MaxFaults + 1 /\ daemon.next \in Nat /\ Len(daemon.ring) <= RingCap
  /\ cons \in Consumers /\ Len(down) <= DownCap + 1
  /\ \A i \in 1..Len(down) : down[i].type \in FrameTypes
  /\ pipe.st \in {"none", "dialing", "open", "lost"} /\ pipe.last \in Nat /\ pipe.of \in 0..daemon.run
  /\ attach \in {"none", "posted", "waking"}
  /\ client.next \in Nat /\ Len(client.ring) <= RingCap
  /\ bound \in BOOLEAN /\ stream \in {"none", "wired", "closing"} /\ stale \in BOOLEAN
  /\ Len(up) <= UpCap /\ \A i \in 1..Len(up) : up[i].type \in FrameTypes
  /\ tab.open \in BOOLEAN /\ tab.seen \subseteq Nat /\ tab.projects \in 0..rev
  /\ tab.view \in Seq(1..made)

Init ==
  /\ StreamInit
  /\ pipe = NoPipe /\ attach = "none"
  /\ client = NoClient /\ bound = FALSE /\ stream = "none" /\ stale = FALSE /\ up = <<>>
  /\ tab = NewTab /\ rev = 0 /\ faults = 0

OneMoreFault == faults < MaxFaults /\ faults' = faults + 1

EdgeFrame(type, n) == [type |-> type, seq |-> 0, n |-> n, settled |-> TRUE]

-----------------------------------------------------------------------------
(* Steps of the edge that operations share.                                *)

\* #closePipe: the daemon sees its reader go.
ClosePipe == pipe' = NoPipe /\ Detach

\* #openPipe drops an attach whose stream has left #browsers.
VoidAttach == attach' = IF attach = "waking" THEN "none" ELSE attach

\* Every frame takes an id of the client's, and the ring keeps the deltas.
Stamp(frame) ==
  client' = [client EXCEPT !.next = @ + 1,
                           !.ring = IF frame.type = "event"
                                    THEN Push(@, [seq |-> client.next, n |-> frame.n])
                                    ELSE @]

\* #sendDelta, #sendAnswer and #broadcastTo of a frame that fits.
Pass(frame) ==
  /\ Len(up) < UpCap
  /\ Stamp(frame)
  /\ up' = Append(up, [frame EXCEPT !.seq = client.next])
  /\ UNCHANGED <<stream, bound>>

(* The same of one that does not: #dropBrowser closes the stream behind     *)
(* what is buffered.  The client's ring and ids live on.                    *)
Overflow(frame) ==
  /\ Len(up) >= UpCap
  /\ Stamp(frame)
  /\ stream' = "closing" /\ bound' = FALSE
  /\ ClosePipe /\ VoidAttach
  /\ UNCHANGED up

-----------------------------------------------------------------------------
(* The attach, and the pipe.                                               *)

\* A click; the tab's own attach is part of BrowserOpens.
UserAttaches ==
  /\ tab.open /\ attach = "none"
  /\ IF pipe.st \in {"none", "lost"} THEN UNCHANGED faults ELSE OneMoreFault
  /\ attach' = "posted"
  /\ UNCHANGED <<daemonVars, pipe, client, bound, stream, stale, up, tab, rev>>

\* POST /command and #handleAttach up to its first await.
AttachArrives ==
  /\ attach = "posted"
  /\ \/ bound /\ attach' = "waking" /\ ClosePipe
     \/ ~bound /\ attach' = "none" /\ UNCHANGED <<pipe, streamVars>>
  /\ UNCHANGED <<sessionVars, client, bound, stream, stale, up, tab, rev, faults>>

\* The daemon is awake and ready: #openPipe.
PipeOpens ==
  /\ attach = "waking"
  /\ \/ /\ Pass(EdgeFrame("answer", 0))
        /\ attach' = "none"
        /\ pipe' = [NoPipe EXCEPT !.st = "dialing"]
        /\ UNCHANGED streamVars
     \/ Overflow(EdgeFrame("answer", 0))
  /\ UNCHANGED <<sessionVars, stale, tab, rev, faults>>

\* The wake or the wait failed; the tab does not try again.
AttachFails ==
  /\ attach = "waking"
  /\ OneMoreFault
  /\ \/ Pass(EdgeFrame("answer", 0)) /\ attach' = "none" /\ pipe' = LostPipe /\ UNCHANGED streamVars
     \/ Overflow(EdgeFrame("answer", 0))
  /\ UNCHANGED <<sessionVars, stale, tab, rev>>

\* #dialPipe, with the id of the last frame read if it is a delta's.
PipeDials ==
  /\ pipe.st = "dialing"
  /\ PrimeStart(pipe.last)
  /\ pipe' = [pipe EXCEPT !.st = "open",
                          !.astray = pipe.last >= DeltaStart /\ pipe.of # daemon.run]
  /\ UNCHANGED <<attach, client, bound, stream, stale, up, tab, rev, faults>>

\* #consumePipe and #onPipeFrame: a frame goes on as soon as it is there.
PipeReads ==
  /\ pipe.st = "open" /\ down # <<>>
  /\ LET frame == Head(down)
     IN \/ /\ Pass(frame)
           /\ down' = Tail(down)
           /\ pipe' = IF frame.seq > pipe.last
                      THEN [pipe EXCEPT !.last = frame.seq, !.of = daemon.run]
                      ELSE pipe
           /\ UNCHANGED <<cons, attach>>
        \/ Overflow(frame)
  /\ UNCHANGED <<sessionVars, stale, tab, rev, faults>>

\* The pipe dials again, and keeps the id.
Redial == pipe' = [pipe EXCEPT !.st = "dialing"] /\ Detach

\* #pipeEnded at the end of the stream.
PipeEnds ==
  /\ pipe.st = "open" /\ cons.st = "ended" /\ down = <<>>
  /\ Redial
  /\ UNCHANGED <<sessionVars, attach, client, bound, stream, stale, up, tab, rev, faults>>

\* #pipeEnded at an error or after too long a silence.
PipeBreaks ==
  /\ pipe.st = "open"
  /\ OneMoreFault
  /\ Redial
  /\ UNCHANGED <<sessionVars, attach, client, bound, stream, stale, up, tab, rev>>

\* #pipeLost: the redials are used up, or the daemon refused.
GiveUp ==
  /\ pipe.st = "dialing"
  /\ OneMoreFault
  /\ \/ Pass(EdgeFrame("answer", 0)) /\ pipe' = LostPipe /\ UNCHANGED <<streamVars, attach>>
     \/ Overflow(EdgeFrame("answer", 0))
  /\ UNCHANGED <<sessionVars, stale, tab, rev>>

-----------------------------------------------------------------------------
(* The browser, and the edge's end of its stream.                          *)

\* What #openEventsResponse replays: only to an EventSource that has got that far.
Missed == IF tab.last >= EdgeStart THEN After(client.ring, tab.last) ELSE <<>>

(* The tab's EventSource connects to #openEventsResponse, and onopen posts  *)
(* an attach if the tab had a session.  A stream the client still has is    *)
(* closed, and its cancel may come later.                                   *)
BrowserOpens ==
  /\ ~tab.open
  /\ LET primed == <<[EdgeFrame("projects", rev) EXCEPT !.seq = EdgePriming]>>
                   \o [i \in 1..Len(Missed) |->
                         [type |-> "event", seq |-> Missed[i].seq, n |-> Missed[i].n,
                          settled |-> FALSE]]
     IN \/ /\ Len(primed) <= UpCap
           /\ up' = primed /\ stream' = "wired" /\ bound' = TRUE
        \/ /\ Len(primed) > UpCap
           /\ up' = SubSeq(primed, 1, UpCap) /\ stream' = "closing" /\ bound' = FALSE
  /\ client' = [client EXCEPT !.kept = TRUE]
  /\ stale' = (stale \/ stream # "none")
  /\ ClosePipe
  /\ IF tab.session THEN attach' = "posted" ELSE VoidAttach
  /\ tab' = [tab EXCEPT !.open = TRUE]
  /\ UNCHANGED <<sessionVars, rev, faults>>

(* The stream's listener.  An attached frame opens a new prime.  Frames of  *)
(* a session are for a tab that has one, and a frame whose id has been seen *)
(* is a second copy.                                                        *)
BrowserReads ==
  /\ tab.open /\ up # <<>>
  /\ up' = Tail(up)
  /\ LET frame   == Head(up)
         reached == [tab EXCEPT !.last = frame.seq]
         noted   == [reached EXCEPT !.seen = @ \cup {frame.seq}]
         dropped == \/ frame.type \in {"history", "event"} /\ ~tab.session
                    \/ frame.seq \in tab.seen
     IN tab' = CASE frame.type = "attached" -> [reached EXCEPT !.session = TRUE, !.seen = {}]
                 [] frame.type # "attached" /\ dropped -> reached
                 [] frame.type = "history" /\ ~dropped ->
                      [reached EXCEPT !.view = [i \in 1..frame.n |-> i], !.seen = {frame.seq}]
                 [] frame.type = "event" /\ ~dropped -> [noted EXCEPT !.view = Append(@, frame.n)]
                 [] frame.type = "projects" /\ ~dropped -> [noted EXCEPT !.projects = frame.n]
                 [] frame.type \in {"answer", "stream_reset"} /\ ~dropped -> noted
  /\ UNCHANGED <<daemonVars, pipe, attach, client, bound, stream, stale, rev, faults>>

\* An EventSource reconnects with its last event id; a new one (onerror) has none.
Disconnected(resumes) == [tab EXCEPT !.open = FALSE, !.last = IF resumes THEN @ ELSE 0]

\* The browser's connection breaks; the edge has not noticed.
BrowserBreaks ==
  /\ tab.open
  /\ OneMoreFault
  /\ \E resumes \in BOOLEAN : tab' = Disconnected(resumes)
  /\ UNCHANGED <<daemonVars, edgeVars, rev>>

\* Everything of a closed stream is read.
BrowserEnds ==
  /\ tab.open /\ stream = "closing" /\ up = <<>>
  /\ tab' = Disconnected(TRUE)
  /\ stream' = "none"
  /\ UNCHANGED <<daemonVars, pipe, attach, client, bound, stale, up, rev, faults>>

\* The cancel of the stream: #releaseBrowser.
EdgeNotices ==
  /\ ~tab.open /\ stream # "none"
  /\ stream' = "none" /\ up' = <<>> /\ bound' = FALSE
  /\ ClosePipe /\ VoidAttach
  /\ UNCHANGED <<sessionVars, client, stale, tab, rev, faults>>

\* The cancel takes the client's stream, whichever that is.
ReleaseWhoever ==
  /\ stale
  /\ stale' = FALSE /\ bound' = FALSE
  /\ UNCHANGED <<daemonVars, pipe, attach, client, stream, up, tab, rev, faults>>

\* The cancel of a stream that was replaced: #releaseBrowser knows it by identity.
StaleCancel ==
  /\ stale
  /\ stale' = FALSE
  /\ UNCHANGED <<daemonVars, pipe, attach, client, bound, stream, up, tab, rev, faults>>

\* #armClientReclaim: a client without a stream is forgotten.
Reclaim ==
  /\ client.kept /\ ~bound
  /\ OneMoreFault
  /\ client' = NoClient
  /\ UNCHANGED <<daemonVars, pipe, attach, bound, stream, stale, up, tab, rev>>

-----------------------------------------------------------------------------
(* The rest of the fleet.                                                  *)

\* #broadcastRegisteredProjects: not ringed.
ProjectsChange ==
  /\ MoreNews
  /\ rev' = rev + 1 /\ other' = other + 1
  /\ LET frame == EdgeFrame("projects", rev')
     IN \/ bound /\ Pass(frame) /\ UNCHANGED <<pipe, attach, streamVars>>
        \/ bound /\ Overflow(frame)
        \/ ~bound /\ client.kept /\ Stamp(frame) /\ UNCHANGED <<pipe, attach, streamVars, bound, stream, up>>
        \/ ~bound /\ ~client.kept /\ UNCHANGED <<pipe, attach, streamVars, client, bound, stream, up>>
  /\ UNCHANGED <<made, daemon, stale, tab, faults>>

\* The daemon's process is replaced, and its pipe breaks.
DaemonRespawns ==
  /\ OneMoreFault
  /\ Respawn
  /\ IF pipe.st = "open" THEN Redial ELSE UNCHANGED <<pipe, streamVars>>
  /\ UNCHANGED <<attach, client, bound, stream, stale, up, tab, rev>>

\* The edge's process is replaced, and every connection breaks.
EdgeRestarts ==
  /\ OneMoreFault
  /\ ClosePipe
  /\ attach' = "none"
  /\ client' = NoClient /\ bound' = FALSE /\ stream' = "none" /\ stale' = FALSE /\ up' = <<>>
  /\ \E resumes \in BOOLEAN : tab' = Disconnected(resumes)
  /\ UNCHANGED <<sessionVars, rev>>

SessionActs == (Event \/ Answer) /\ UNCHANGED <<edgeVars, tab, rev, faults>>

Primes == (PrimeHistory \/ PrimeEnd) /\ UNCHANGED <<edgeVars, tab, rev, faults>>

Next ==
  \/ SessionActs \/ Primes
  \/ UserAttaches \/ AttachArrives \/ PipeOpens \/ AttachFails
  \/ PipeDials \/ PipeReads \/ PipeEnds \/ PipeBreaks \/ GiveUp
  \/ BrowserOpens \/ BrowserReads \/ BrowserBreaks \/ BrowserEnds \/ EdgeNotices \/ StaleCancel \/ Reclaim
  \/ ProjectsChange \/ DaemonRespawns \/ EdgeRestarts

Spec == Init /\ [][Next]_vars

(* What is posted arrives, what is dialed answers, what is buffered is      *)
(* read, and a browser whose stream ended opens another.  None of the       *)
(* faults has to happen, nor any attach of the user's.                      *)
Fairness ==
  /\ WF_vars(Primes)
  /\ WF_vars(AttachArrives) /\ WF_vars(PipeOpens)
  /\ WF_vars(PipeDials) /\ WF_vars(PipeReads) /\ WF_vars(PipeEnds)
  /\ WF_vars(BrowserOpens)
  /\ WF_vars(BrowserReads) /\ WF_vars(BrowserEnds)

FairSpec == Spec /\ Fairness

-----------------------------------------------------------------------------
(* Properties.                                                             *)

Settled(frames) == \A i \in 1..Len(frames) : frames[i].settled

(* The tab's feed is up: both connections are, the prime has been read, and *)
(* the daemon that resumed the stream knew the id it was asked to resume.   *)
Steady ==
  /\ tab.open /\ stream = "wired"
  /\ pipe.st = "open" /\ cons.st = "live" /\ ~pipe.astray
  /\ Settled(up) /\ Settled(down)

Shown == {tab.view[i] : i \in 1..Len(tab.view)}

(* The transcript without what a later copy repeats: the last showing of     *)
(* each event.                                                              *)
LastShowings ==
  SelectSeq([i \in 1..Len(tab.view) |->
               IF \E j \in i + 1..Len(tab.view) : tab.view[j] = tab.view[i] THEN 0 ELSE tab.view[i]],
            LAMBDA event : event # 0)

InOrder(events) == \A i \in 1..Len(events) : events[i] = i

Feed == INSTANCE EventFeed WITH
  Down <- -1,
  feed <- IF ~Steady THEN -1
          ELSE IF InOrder(LastShowings) THEN Len(LastShowings) ELSE made + 1

(* While its feed is up a tab shows the first so many events of the         *)
(* session, and shows each for the last time after it has shown all those   *)
(* before it for the last time.  What came live in the midst of the prime   *)
(* may stand above that a second time, in no order (EachInTurn).  The       *)
(* prime's history, the frames that overtook it and the replay of all that  *)
(* came since fit together at every interleaving of events, answers,        *)
(* breaks and overflows (primeConsumer of session/index.ts, #consumePipe of *)
(* edge.ts).                                                                *)
NoEventMissing == Feed!Spec

(* A tab that has a session ends up showing all of it, through every stream *)
(* that is dropped, replaced or released late: unless its attach failed or  *)
(* its pipe was given up, or the process it resumed at is not the one that  *)
(* counted (#openEventsResponse, #releaseBrowser and #pipeEnded of edge.ts, *)
(* onopen of web/state.ts).                                                 *)
Unattached == ~tab.session /\ attach = "none" /\ pipe.st = "none"

CatchesUp ==
  <>[](Unattached \/ pipe.st = "lost" \/ pipe.astray \/ (Steady /\ Shown = 1..made))

-----------------------------------------------------------------------------
(* What comments of the source say and the code does not do; see README.    *)

(* "the second copy must be dropped" (web/state.ts:544, seenFrameSeqs): a    *)
(* tab whose feed is up shows no event twice.                                *)
OnceOnly == Steady => Cardinality(Shown) = Len(tab.view)

(* "deltas that arrived during the paced prime still replay exactly once"    *)
(* (session/index.ts:361, primeConsumer): a tab whose feed is up shows the   *)
(* events in their order, up to copies of what it has shown.                 *)
EachInTurn ==
  Steady => \A i \in 1..Len(tab.view) :
              \A event \in 1..tab.view[i] - 1 : \E j \in 1..i - 1 : tab.view[j] = event

(* "the frame is re-derivable from the next open's priming" (edge.ts:2730,   *)
(* #broadcastRegisteredProjects): a tab that has read its stream shows the   *)
(* projects there are.                                                       *)
ShowsProjects == tab.open /\ stream = "wired" /\ up = <<>> => tab.projects = rev

(* "deltas that arrived during the paced prime still replay exactly once"    *)
(* (session/index.ts:361, primeConsumer), whichever process sent the id the  *)
(* stream was resumed with: a tab that has read everything shows everything. *)
NothingSkipped ==
  /\ tab.open /\ stream = "wired" /\ pipe.st = "open" /\ cons.st = "live"
  /\ up = <<>> /\ down = <<>>
  => Shown = 1..made
=============================================================================
