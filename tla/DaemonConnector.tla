-------------------------- MODULE DaemonConnector --------------------------
(***************************************************************************)
(* The connector of apps/fleet/connector.ts driving one dial-in daemon     *)
(* (mode "remote" or "attached"): the fleet holds an endpoint and a token, *)
(* dials /events, walks the readiness ladder off the stream's frames,      *)
(* redials a broken stream and drops an unused one.  Around it, the        *)
(* callers: browsers attaching (edge.ts), prompts (fanout.ts), the         *)
(* activity watch of open browser streams, stop and remove, and a restart  *)
(* of the fleet on its persisted state.                                    *)
(*                                                                         *)
(* The daemon at the other end answers as it likes: any status code, any   *)
(* order of frames, a clean or a broken end.  Timers fire at any time      *)
(* after they are armed.  For a dial-in entry the onDialFailed hook does   *)
(* nothing (supervisor.respawnAfterDialFailure).                           *)
(***************************************************************************)
EXTENDS DaemonLink, Sequences

VARIABLES
  link,    \* the daemon's registry entry, connector state and edge flags
  client,  \* what each caller is doing
  turns    \* promptQueues: the prompts of this daemon, the running one first

vars == <<link, client, turns>>

(* An attach: attaching (in waitReady), opening (its pipe dials), attached *)
(* (the pipe is live and retains the daemon).  A prompt: queued, waking    *)
(* (in waitReady), prompting (sent, awaiting the answer).                  *)
ClientStates == {"idle", "attaching", "opening", "attached", "queued", "waking", "prompting"}

Endpoint == 1  \* the one endpoint a dial-in entry is registered with

TypeOK ==
  /\ link \in Links
  /\ client \in [Clients -> ClientStates]
  /\ turns \in Seq(Clients)

Init ==
  /\ link \in {NewLink("asleep", Endpoint, Endpoint), NewLink("error", Endpoint, Endpoint),
               Connect(NewLink("connecting", Endpoint, Endpoint))}
  /\ client = [c \in Clients |-> "idle"]
  /\ turns = <<>>

Become(c, pc) == client' = [client EXCEPT ![c] = pc]

-----------------------------------------------------------------------------
(* The request and its stream.  own: the report comes from the request the *)
(* connector holds; otherwise from one it has let go of, which the         *)
(* handlers recognise by state.abort and ignore.                           *)

Reports(own, phases) == IF own THEN link.fetch \in phases ELSE link.stale

Heed(own, next) == IF own THEN next ELSE [link EXCEPT !.stale = FALSE]

\* 200 with a body: the stream is open.
DialOpens ==
  /\ link.fetch = "pending"
  /\ link' = [link EXCEPT !.fetch = "open"]
  /\ UNCHANGED <<client, turns>>

\* 401: terminal.
DialRefused(own) ==
  /\ Reports(own, {"pending"})
  /\ link' = Heed(own, StreamEnded(Transition(link, "error"), FALSE))
  /\ UNCHANGED <<client, turns>>

Ended(l, clean) ==
  IF Redials(l, clean) THEN ScheduleRedial(StreamEnded(l, clean)) ELSE StreamEnded(l, clean)

\* Another status code, no answer, a read error, an aborted stream.
StreamBreaks(own) ==
  /\ Reports(own, {"pending", "open", "aborted"})
  /\ link' = Heed(own, Ended(link, FALSE))
  /\ UNCHANGED <<client, turns>>

\* The stream (or an empty response) ends normally.
StreamCloses(own) ==
  /\ Reports(own, {"pending", "open"})
  /\ link' = Heed(own, Ended(link, TRUE))
  /\ UNCHANGED <<client, turns>>

\* Frames read in one chunk with a rejected hello_ok still arrive.
FrameArrives ==
  /\ link.fetch = "open" \/ (link.fetch = "aborted" /\ link.status = "error")
  /\ link' \in {OnHello(link, TRUE), OnHello(link, FALSE), OnState(link), OnReady(link),
                [link EXCEPT !.reset = TRUE]}
  /\ UNCHANGED <<client, turns>>

\* silenceDeadlineMs without a unit: the stream is aborted.
SilenceTimeout ==
  /\ link.fetch = "open" /\ ~link.closed
  /\ link' = [link EXCEPT !.fetch = "aborted"]
  /\ UNCHANGED <<client, turns>>

RedialTimer ==
  /\ link.redial
  /\ LET m == [link EXCEPT !.redial = FALSE]
     IN  link' = IF m.closed \/ ~m.present THEN m ELSE Dial(m)
  /\ UNCHANGED <<client, turns>>

IdleTimer ==
  /\ link.idle
  /\ link' = Disconnect([link EXCEPT !.idle = FALSE])
  /\ UNCHANGED <<client, turns>>

-----------------------------------------------------------------------------
(* Attach.                                                                 *)

\* edge.ts #wake for a dial-in entry.
Wake(l) ==
  IF (l.status # "asleep" /\ Connected(l)) \/ l.waking THEN l
  ELSE Connect([l EXCEPT !.waking = TRUE])

Attach(c) ==
  /\ client[c] = "idle" /\ link.present
  /\ link' = WaitReady(Wake(link), c)
  /\ Become(c, "attaching")
  /\ UNCHANGED turns

AttachReady(c) ==
  /\ client[c] = "attaching" /\ c \in link.resolved
  /\ link' = Forget(link, c)
  /\ Become(c, IF link.present THEN "opening" ELSE "idle")
  /\ UNCHANGED turns

AttachFails(c) ==
  /\ client[c] = "attaching" /\ c \in link.rejected
  /\ link' = Forget(link, c)
  /\ Become(c, "idle")
  /\ UNCHANGED turns

\* The pipe's own /events request is answered, or is not.
PipeOpens(c) ==
  /\ client[c] = "opening"
  /\ link' = Retain(link)
  /\ Become(c, "attached")
  /\ UNCHANGED turns

PipeFails(c) ==
  /\ client[c] = "opening"
  /\ Become(c, "idle")
  /\ UNCHANGED <<link, turns>>

\* The pipe is closed by its browser or lost for good.
Detach(c) ==
  /\ client[c] = "attached"
  /\ link' = Release(link)
  /\ Become(c, "idle")
  /\ UNCHANGED turns

WaitTimeout(c) ==
  /\ c \in link.waiting
  /\ link' = [link EXCEPT !.waiting = @ \ {c}, !.rejected = @ \cup {c}]
  /\ UNCHANGED <<client, turns>>

-----------------------------------------------------------------------------
(* Prompt: one turn of a daemon at a time, in the order they were asked.   *)

Prompt(c) ==
  /\ client[c] = "idle" /\ link.present
  /\ Become(c, "queued")
  /\ turns' = Append(turns, c)
  /\ UNCHANGED link

Turn(c) == turns # <<>> /\ Head(turns) = c

PromptStartsOutOfTurn(c) ==
  /\ client[c] = "queued"
  /\ LET m == Retain(link)
     IN  IF Connected(m)
         THEN link' = m /\ Become(c, "prompting")
         ELSE link' = WaitReady(Connect(m), c) /\ Become(c, "waking")
  /\ UNCHANGED turns

\* The entry may be gone by the time its turn comes: connect() is then a
\* no-op and waitReady() waits.
PromptStarts(c) ==
  /\ client[c] = "queued" /\ Turn(c)
  /\ LET m == Retain(link)
     IN  IF Connected(m)
         THEN link' = m /\ Become(c, "prompting")
         ELSE link' = WaitReady(Connect(m), c) /\ Become(c, "waking")
  /\ UNCHANGED turns

EndTurnHolding(c, l) ==
  /\ link' = l
  /\ Become(c, "idle")
  /\ turns' = Tail(turns)

EndTurnInPlace(c, l) ==
  /\ link' = Release(l)
  /\ Become(c, "idle")
  /\ UNCHANGED turns

EndTurn(c, l) ==
  /\ link' = Release(l)
  /\ Become(c, "idle")
  /\ turns' = Tail(turns)

PromptSends(c) ==
  /\ client[c] = "waking" /\ c \in link.resolved
  /\ LET m == Ensure(Forget(link, c))
     IN  IF m.present /\ Connected(m)
         THEN link' = m /\ Become(c, "prompting") /\ UNCHANGED turns
         ELSE EndTurn(c, m)

PromptFails(c) ==
  /\ client[c] = "waking" /\ c \in link.rejected
  /\ EndTurn(c, Forget(link, c))

\* The answer frames arrive, or waitMs passes without them.
PromptSettles(c) ==
  /\ client[c] = "prompting"
  /\ EndTurn(c, link)

-----------------------------------------------------------------------------
(* The activity watch, stop, remove, restart.                              *)

\* The first browser stream opens, or the last one closes.
BrowserOpens ==
  /\ ~link.watching
  /\ link' = LET m == [link EXCEPT !.watching = TRUE]
             IN  IF m.present /\ m.status = "ready" THEN Connect(Watch(m)) ELSE m
  /\ UNCHANGED <<client, turns>>

BrowserCloses ==
  /\ link.watching
  /\ link' = Unwatch([link EXCEPT !.watching = FALSE])
  /\ UNCHANGED <<client, turns>>

\* A registry mutation of another daemon, or of a field not modelled here.
OtherMutation ==
  /\ link' = RegistryChanged(link)
  /\ UNCHANGED <<client, turns>>

Attached == {c \in Clients : client[c] = "attached"}

\* The edge's stop and remove close the daemon's pipes first; /ctl's and the
\* worktree eviction do not.
ClosePipes(closing) ==
  client' = IF closing
            THEN [c \in Clients |-> IF client[c] \in {"opening", "attached"} THEN "idle" ELSE client[c]]
            ELSE client

PipesClosed(closing) == IF closing THEN ReleaseTimes(link, Cardinality(Attached)) ELSE link

Stop(closing) ==
  /\ link.present
  /\ link' = SetStatus(Disconnect(PipesClosed(closing)), "asleep")
  /\ ClosePipes(closing)
  /\ UNCHANGED turns

RemoveDaemon(closing) ==
  /\ link.present
  /\ link' = Remove(Drop(PipesClosed(closing)))
  /\ ClosePipes(closing)
  /\ UNCHANGED turns

FleetRestart ==
  /\ link' = Boot(link, FALSE)
  /\ client' = [c \in Clients |-> "idle"]
  /\ turns' = <<>>

-----------------------------------------------------------------------------

StreamNext ==
  \/ DialOpens \/ FrameArrives \/ SilenceTimeout \/ RedialTimer \/ IdleTimer
  \/ \E own \in BOOLEAN : DialRefused(own) \/ StreamBreaks(own) \/ StreamCloses(own)

AttachNext(c) ==
  \/ Attach(c) \/ AttachReady(c) \/ AttachFails(c)
  \/ PipeOpens(c) \/ PipeFails(c) \/ Detach(c) \/ WaitTimeout(c)

PromptNext(c) ==
  Prompt(c) \/ PromptStarts(c) \/ PromptSends(c) \/ PromptFails(c) \/ PromptSettles(c)

FleetNext ==
  \/ BrowserOpens \/ BrowserCloses \/ OtherMutation \/ FleetRestart
  \/ \E closing \in BOOLEAN : Stop(closing) \/ RemoveDaemon(closing)

Next ==
  \/ StreamNext
  \/ \E c \in Clients : AttachNext(c) \/ PromptNext(c)
  \/ FleetNext

Spec == Init /\ [][Next]_vars

(* The waitReady() timer fires, a settled attach continues, and a turn     *)
(* makes its next step: a sent prompt is answered or times out (waitMs).   *)
Fairness ==
  \A c \in Clients :
    /\ WF_vars(WaitTimeout(c))
    /\ WF_vars(AttachReady(c) \/ AttachFails(c))
    /\ WF_vars(PromptStarts(c) \/ PromptSends(c) \/ PromptFails(c) \/ PromptSettles(c))

FairSpec == Spec /\ Fairness

-----------------------------------------------------------------------------
(* Properties.                                                             *)

(* A daemon is dialled once at a time: the redial timer is armed only      *)
(* while it is reconnecting and no request is held (#scheduleRedial,       *)
(* connect).  Two live /events requests for one daemon would each drive    *)
(* the status.                                                             *)
OneDial == link.redial => link.fetch = "none" /\ link.status = "reconnecting"

(* An intentional drop stays dropped: until the next connect() a closed    *)
(* connection holds no request and no redial timer, whatever late reports  *)
(* of the let-go request arrive (disconnect, #onStreamEnded).              *)
ClosedIsQuiet == link.closed => link.fetch = "none" /\ ~link.redial

(* A daemon counts as drivable on a live stream only after that stream's   *)
(* own hello_ok passed the proto and cwd checks, whichever order hello,    *)
(* state and ready arrive in and however often it was redialled (R8): the  *)
(* hello of an earlier stream is forgotten when the next one is dialled.   *)
DrivableAfterHello ==
  /\ link.fetch = "pending" => ~link.hello
  /\ link.fetch = "open" /\ link.status \in Drivable => link.hello

(* Those three and IdleSparesHeld in one, with what makes them inductive:  *)
(* a request only for a registered, tracked daemon, and the status it was  *)
(* sent in (connect, disconnect, drop, #dial).                             *)
LinkSound == Sound(link)

(* retain() and release() balance: the count of a registered daemon is the *)
(* number of live pipes, of running prompts and of the activity watch, so  *)
(* the count reaches zero exactly when the last of them lets go.           *)
Holders == Cardinality({c \in Clients : client[c] \in {"attached", "waking", "prompting"}})

RetainBalanced ==
  link.present => link.retain = Holders + (IF link.watched THEN 1 ELSE 0)

(* The idle-drop timer never runs over a held daemon, so it cannot cut a   *)
(* browser's or a prompt's stream.                                         *)
IdleSparesHeld == link.idle => link.retain = 0

(* Prompts of one daemon never overlap: whoever is waking it or awaiting   *)
(* an answer is the head of its queue (promptQueues, audit #21), so two    *)
(* fan-outs cannot interleave turns on the control stream.                 *)
OneTurnAtATime == \A c \in Clients : client[c] \in {"waking", "prompting"} => Turn(c)

(* Nobody is left waiting for a daemon that is ready on a live stream or   *)
(* in error: both settle every waiter (#transition), and waitReady() does  *)
(* not join the waiters of one that is already settled.                    *)
NoWaiterLeftBehind ==
  link.present /\ (link.status = "error" \/ (link.status = "ready" /\ Connected(link)))
    => link.waiting = {}

(* waitReady() resolves only into a live stream: a "ready" status behind   *)
(* which the stream was idle-dropped or lost does not count.               *)
ReadyMeansLive ==
  [][\A c \in Clients : c \in link'.resolved /\ c \notin link.resolved
       => link'.status = "ready" /\ Connected(link')]_vars

(* error is terminal: no frame, stream end or timer leaves it, only a      *)
(* fresh connect() or a stop.                                              *)
ErrorIsTerminal ==
  [][link.status = "error" => link'.status \in {"error", "connecting", "asleep"}]_vars

(* Every prompt that was queued ends: neither a predecessor that fails nor *)
(* a daemon removed while it waits in the queue stalls the queue           *)
(* (promptQueues: a rejected predecessor must not block it).               *)
PromptsDrain == \A c \in Clients : client[c] = "queued" ~> client[c] = "idle"

(* Every attach is answered: resolved, rejected or timed out, also when    *)
(* the daemon is stopped, removed or fails under it.  A waiter that is     *)
(* dropped without being settled has no timer left to answer it.           *)
AttachAnswered == \A c \in Clients : client[c] = "attaching" ~> client[c] # "attaching"

=============================================================================
