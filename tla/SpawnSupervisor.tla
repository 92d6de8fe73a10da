--------------------------- MODULE SpawnSupervisor ---------------------------
(***************************************************************************)
(* One spawned daemon: the supervisor of apps/fleet/supervisor.ts, the     *)
(* child processes it launches, and the connector (DaemonLink) that dials  *)
(* them; driven by attaches (edge.ts), prompts (fanout.ts), stop, remove   *)
(* and restarts of the fleet.                                              *)
(*                                                                         *)
(* A launch is numbered, and a process, its endpoint and its token share   *)
(* that number.  respawn() and stop() wait for a child to exit: their      *)
(* second halves run in the microtasks of that exit, so they are part of   *)
(* the Reaped action, in either order.  What a process writes to stdout    *)
(* may be read after it has exited.                                        *)
(*                                                                         *)
(* The connector's own interleavings (early frames, resets, the watch, the *)
(* pipes) are those of DaemonConnector; here hello_ok precedes ready.      *)
(*                                                                         *)
(* RespawnLeavingOld, AdoptKeepingHandled, ReplacedOrRemoved and           *)
(* RestartUnbounded are slips of the operator each stands before, for the  *)
(* mutants.                                                                *)
(***************************************************************************)
EXTENDS DaemonLink

CONSTANTS
  RestartMax,  \* the restart budget
  MaxLaunches  \* bound: a launch beyond it fails, as a failing Bun.spawn does

ASSUME BoundsAreNats == RestartMax \in Nat /\ MaxLaunches \in Nat

VARIABLES
  fleet,   \* the daemon's link, its ChildState, its processes, calls in flight
  client   \* what each caller is doing

vars == <<fleet, client>>

Procs == 1..MaxLaunches

Phases == {"unborn", "booting", "up", "gone", "reaped"}

Exits == {"clean", "locked", "crash"}  \* code 0, code 77, any other or a signal

(* line: its OMP_SESSION| listening line waits to be read.  timer: its     *)
(* endpoint timeout is pending.  attended: this fleet process reads its    *)
(* stdout and sees its exit.                                               *)
Processes ==
  [phase: Phases, killed: BOOLEAN, exit: Exits, line: BOOLEAN, timer: BOOLEAN,
   attended: BOOLEAN]

Unborn ==
  [phase |-> "unborn", killed |-> FALSE, exit |-> "clean", line |-> FALSE,
   timer |-> FALSE, attended |-> FALSE]

(* ChildState.  timer is the process whose timeout endpointTimer holds.    *)
ChildStates ==
  [child: Procs \cup {0}, resolved: BOOLEAN, timer: Procs \cup {0}, restarts: 0..RestartMax,
   restartTimer: BOOLEAN, stopping: BOOLEAN, manualRespawn: BOOLEAN, exitHandled: BOOLEAN]

NoChild ==
  [child |-> 0, resolved |-> FALSE, timer |-> 0, restarts |-> 0, restartTimer |-> FALSE,
   stopping |-> FALSE, manualRespawn |-> FALSE, exitHandled |-> FALSE]

(* respawn, halt: the child that the respawn or the stop in flight waits   *)
(* for, 0 if there is none; removing: that stop is a prune before a remove *)
(* of the entry.  reporting: #reportSessionLocked is waiting for stderr.   *)
(* overlap, a history: whether a stop and a respawn were ever in flight    *)
(* together.                                                               *)
Fleets ==
  [link: Links, sup: ChildStates, proc: [Procs -> Processes],
   respawn: Procs \cup {0}, halt: Procs \cup {0}, removing: BOOLEAN, reporting: BOOLEAN,
   overlap: BOOLEAN]

ClientStates == {"idle", "respawning", "attaching", "attached",
                 "queued", "reviving", "waking", "prompting"}

TypeOK ==
  /\ fleet \in Fleets
  /\ client \in [Clients -> ClientStates]

Become(c, pc) == client' = [client EXCEPT ![c] = pc]

Unlaunched(f) == {p \in Procs : f.proc[p].phase = "unborn"}

Alive(f, p) == f.proc[p].phase \in {"booting", "up"}

-----------------------------------------------------------------------------
(* The supervisor's methods, on the fleet's state.                         *)

Kill(f, p) == IF Alive(f, p) THEN [f EXCEPT !.proc[p].killed = TRUE] ELSE f

ClearEndpointTimer(f) ==
  IF f.sup.timer = 0 THEN f
  ELSE [f EXCEPT !.proc[f.sup.timer].timer = FALSE, !.sup.timer = 0]

\* registry.setStatus, not the connector's transition: no waiter is settled.
Mark(f, s) == IF f.link.present THEN [f EXCEPT !.link = SetStatus(@, s)] ELSE f

AdoptKeepingHandled(s, n) ==
  [s EXCEPT !.child = n, !.resolved = FALSE, !.manualRespawn = FALSE]

\* The ChildState of a new child.
Adopt(s, n) ==
  [s EXCEPT !.child = n, !.resolved = FALSE, !.manualRespawn = FALSE, !.exitHandled = FALSE]

(* #launch.  For a removed entry registry.update throws: the process runs, *)
(* with neither timer nor readers.                                         *)
Launch(f) ==
  LET n == CHOOSE p \in Unlaunched(f) : \A q \in Unlaunched(f) : p <= q
      m == [f EXCEPT !.sup = Adopt(@, n), !.proc[n].phase = "booting"]
  IN  IF Unlaunched(f) = {} THEN [Mark(f, "error") EXCEPT !.sup = NoChild]
      ELSE IF ~f.link.present THEN m
      ELSE [m EXCEPT !.proc[n].timer = TRUE, !.proc[n].attended = TRUE, !.sup.timer = n,
                     !.link = RegistryChanged([@ EXCEPT !.token = n])]

(* A daemon registered asleep, as a discovered worktree or a restart       *)
(* leaves it, whose first wake is its first launch; or spawn().            *)
Registered(status) ==
  [link |-> NewLink(status, 0, 0), sup |-> NoChild, proc |-> [p \in Procs |-> Unborn],
   respawn |-> 0, halt |-> 0, removing |-> FALSE, reporting |-> FALSE,
   overlap |-> FALSE]

Init ==
  /\ fleet \in {Registered("asleep"), Launch(Registered("spawning"))}
  /\ client = [c \in Clients |-> "idle"]

RespawnLeavingOld(f) ==
  IF f.respawn # 0 THEN f
  ELSE Launch([f EXCEPT !.sup.restartTimer = FALSE, !.sup.stopping = FALSE,
                        !.sup.manualRespawn = TRUE, !.link = Disconnect(@)])

\* respawn(): coalesced, or up to the wait for the old child.
Respawn(f) ==
  IF f.respawn # 0 THEN f
  ELSE LET m == [f EXCEPT !.sup.restartTimer = FALSE, !.sup.stopping = FALSE,
                          !.sup.manualRespawn = TRUE, !.link = Disconnect(@)]
       IN  IF m.sup.child = 0 THEN Launch(m)
           ELSE [Kill(m, m.sup.child) EXCEPT !.respawn = m.sup.child, !.overlap = @ \/ m.halt # 0]

RespawnEnds(f) == Launch([f EXCEPT !.sup.child = 0, !.respawn = 0])

\* stop(), and prune() with the registry.remove that follows it.
StopEnds(f, removing) ==
  LET m == Mark([f EXCEPT !.sup.child = 0, !.halt = 0, !.removing = FALSE], "asleep")
  IN  IF removing THEN [m EXCEPT !.sup = NoChild, !.link = Remove(@)] ELSE m

Stop(f, removing) ==
  LET m == ClearEndpointTimer([f EXCEPT !.sup.stopping = TRUE, !.sup.restartTimer = FALSE,
                                        !.link = Disconnect(@)])
  IN  IF m.sup.child = 0 THEN StopEnds(m, removing)
      ELSE [Kill(m, m.sup.child) EXCEPT !.halt = m.sup.child, !.removing = removing,
                                        !.overlap = @ \/ m.respawn # 0]

(* #onChildExit: the first conditions that apply decide.                   *)
ReplacedOrRemoved(f) == ~f.link.present \/ f.sup.manualRespawn

Expected(f) == ~f.link.present \/ f.sup.stopping \/ f.sup.manualRespawn

SlippedAway(f) == f.link.status = "ready" /\ ~Connected(f.link)

RestartUnbounded(f) == [f EXCEPT !.sup.restarts = @ + 1, !.sup.restartTimer = TRUE]

Restart(f) ==
  IF f.sup.restarts >= RestartMax THEN Mark(f, "error")
  ELSE [f EXCEPT !.sup.restarts = @ + 1, !.sup.restartTimer = TRUE]

ChildExit(f, exit) ==
  LET m == [f EXCEPT !.sup.exitHandled = TRUE]
  IN  IF f.sup.exitHandled THEN f
      ELSE IF Expected(f) THEN m
      ELSE IF exit = "locked"
      THEN [Mark(m, "asleep") EXCEPT !.link = Disconnect(@), !.reporting = TRUE]
      ELSE IF exit = "clean" /\ SlippedAway(f) THEN Mark(m, "asleep")
      ELSE Restart(m)

\* The exited callback; a replaced child's exit is not ours.
ExitSeen(f, p) ==
  LET was == f.proc[p]
      m == [f EXCEPT !.proc[p] = [was EXCEPT !.phase = "reaped", !.killed = FALSE, !.exit = "clean"]]
  IN  IF ~was.attended \/ f.sup.child # p THEN m
      ELSE ChildExit(ClearEndpointTimer([m EXCEPT !.sup.child = 0]), was.exit)

\* respawnAfterDialFailure, from the connector's onDialFailed.
DialFailed(f) ==
  IF f.link.status = "asleep" \/ f.respawn # 0 THEN f
  ELSE Respawn(f)

-----------------------------------------------------------------------------
(* The processes.                                                          *)

(* What an exited process wrote is read after its exit, but before another *)
(* process gets anywhere and before a timer of a second or more fires.     *)
Drained == \A p \in Procs : fleet.proc[p].phase = "reaped" => ~fleet.proc[p].line

Boots(p) ==
  /\ fleet.proc[p].phase = "booting" /\ Drained
  /\ fleet' = [fleet EXCEPT !.proc[p].phase = "up", !.proc[p].line = fleet.proc[p].attended]
  /\ UNCHANGED client

(* A process meets another's session lock before it prints its line, or    *)
(* when it switches sessions later.  A daemon idles out only with no       *)
(* stream open; a clean exit needs it up.                                  *)
Dies(p, exit) ==
  /\ Alive(fleet, p) /\ Drained
  /\ exit = "locked" => ~fleet.proc[p].line
  /\ exit = "clean" => /\ fleet.proc[p].phase = "up"
                       /\ fleet.proc[p].killed \/ ~(fleet.link.fetch = "open" /\ fleet.link.to = p)
  /\ fleet' = [fleet EXCEPT !.proc[p].phase = "gone", !.proc[p].exit = exit]
  /\ UNCHANGED client

\* Callers awaiting the respawn go on to waitReady(), or fail with it.
WaitAll(l, cs) ==
  IF l.present /\ l.status = "error" THEN [l EXCEPT !.rejected = @ \cup cs]
  ELSE [l EXCEPT !.waiting = @ \cup cs, !.tracked = @ \/ cs # {}]

Awaiting == {c \in Clients : client[c] \in {"respawning", "reviving"}}

Resumed(f) ==
  LET l == f.link
  IN  [f EXCEPT !.link = IF l.present THEN WaitAll(l, Awaiting)
                         ELSE [l EXCEPT !.rejected = @ \cup Awaiting, !.waking = FALSE]]

CallersResume ==
  client' = [c \in Clients |-> CASE client[c] = "respawning" -> "attaching"
                                 [] client[c] = "reviving" -> "waking"
                                 [] OTHER -> client[c]]

\* The exit event: its callback, then the calls that waited for it.
Reaped(p) ==
  /\ fleet.proc[p].phase = "gone"
  /\ LET m == ExitSeen(fleet, p)
         stopped == StopEnds(m, m.removing)
         respawned == Resumed(RespawnEnds(m))
     IN  IF m.respawn = p
         THEN /\ CallersResume
              /\ fleet' \in IF m.halt = p
                            THEN {StopEnds(respawned, m.removing), Resumed(RespawnEnds(stopped))}
                            ELSE {respawned}
         ELSE /\ UNCHANGED client
              /\ fleet' = IF m.halt = p THEN stopped ELSE m

-----------------------------------------------------------------------------
(* Timers and readers of the supervisor.                                   *)

\* A line of any attended process settles the endpoint of the latest launch.
LineRead(p, valid) ==
  /\ fleet.proc[p].line
  /\ LET m == [fleet EXCEPT !.proc[p].line = FALSE]
         n == ClearEndpointTimer([m EXCEPT !.sup.resolved = TRUE])
     IN  fleet' = IF m.sup.resolved THEN m
                  ELSE IF ~n.link.present THEN n
                  ELSE IF ~valid THEN Kill(Mark([n EXCEPT !.sup.exitHandled = TRUE], "error"), p)
                  ELSE [n EXCEPT !.link = Connect(RegistryChanged([@ EXCEPT !.endpoint = p]))]
  /\ UNCHANGED client

EndpointTimeout(p) ==
  /\ fleet.proc[p].timer /\ Drained
  /\ LET m == [fleet EXCEPT !.proc[p].timer = FALSE]
     IN  fleet' = IF m.sup.resolved THEN m
                  ELSE IF ~m.link.present THEN [m EXCEPT !.sup.exitHandled = TRUE]
                  ELSE Kill(Mark([m EXCEPT !.sup.exitHandled = TRUE], "error"), p)
  /\ UNCHANGED client

RestartTimer ==
  /\ fleet.sup.restartTimer /\ Drained
  /\ LET m == [fleet EXCEPT !.sup.restartTimer = FALSE]
     IN  fleet' = IF m.sup.stopping \/ ~m.link.present THEN m
                  ELSE Launch(m)
  /\ UNCHANGED client

\* stderr drained, or a second passed.
LockReported ==
  /\ fleet.reporting
  /\ fleet' = [fleet EXCEPT !.reporting = FALSE, !.link = IF @.present THEN Fail(@) ELSE @]
  /\ UNCHANGED client

-----------------------------------------------------------------------------
(* The connector's stream to the process it dialled.                       *)

Peer == fleet.proc[fleet.link.to]

DialOpens ==
  /\ fleet.link.fetch = "pending" /\ Peer.phase = "up" /\ fleet.link.tok = fleet.link.to
  /\ fleet' = [fleet EXCEPT !.link.fetch = "open"]
  /\ UNCHANGED client

\* 401: the process was launched with another token.
DialRefused ==
  /\ fleet.link.fetch = "pending" /\ Peer.phase = "up" /\ fleet.link.tok # fleet.link.to
  /\ LET m == DialFailed([fleet EXCEPT !.link = Transition(@, "error")])
     IN  fleet' = [m EXCEPT !.link = StreamEnded(@, FALSE)]
  /\ UNCHANGED client

\* Refused by a process that is not listening, lost with one that died, or silent.
StreamBreaks ==
  /\ \/ fleet.link.fetch = "pending" /\ (Peer.phase # "up" \/ Peer.killed)
     \/ fleet.link.fetch = "open"
  /\ LET l == fleet.link
         m == [fleet EXCEPT !.link = StreamEnded(@, FALSE)]
         n == IF l.hello THEN m ELSE DialFailed(m)
     IN  fleet' = IF Redials(l, FALSE) THEN [n EXCEPT !.link = ScheduleRedial(@)] ELSE m
  /\ UNCHANGED client

\* A daemon that shuts down ends its streams.
StreamCloses ==
  /\ fleet.link.fetch = "open" /\ (Peer.killed \/ ~Alive(fleet, fleet.link.to))
  /\ fleet' = [fleet EXCEPT !.link = StreamEnded(@, TRUE)]
  /\ UNCHANGED client

HelloArrives ==
  /\ fleet.link.fetch = "open" /\ ~fleet.link.hello
  /\ fleet' = [fleet EXCEPT !.link = OnHello(@, TRUE)]
  /\ UNCHANGED client

\* onConnectorStatus: reaching ready refills the budget.
ReadyArrives ==
  /\ fleet.link.fetch = "open" /\ fleet.link.hello /\ ~fleet.link.sawReady
  /\ fleet' = [fleet EXCEPT !.link = OnReady(@), !.sup.restarts = 0]
  /\ UNCHANGED client

RedialTimer ==
  /\ fleet.link.redial
  /\ LET m == [fleet.link EXCEPT !.redial = FALSE]
     IN  fleet' = [fleet EXCEPT !.link = IF m.closed \/ ~m.present THEN m ELSE Dial(m)]
  /\ UNCHANGED client

IdleTimer ==
  /\ fleet.link.idle /\ Drained
  /\ fleet' = [fleet EXCEPT !.link = Disconnect([@ EXCEPT !.idle = FALSE])]
  /\ UNCHANGED client

-----------------------------------------------------------------------------
(* Callers.                                                                *)

Waits(f, c) == [f EXCEPT !.link = WaitReady(@, c)]

\* edge.ts #wake and #handleAttach.
Attach(c) ==
  /\ client[c] = "idle" /\ fleet.link.present
  /\ LET l == fleet.link
         m == [fleet EXCEPT !.link.waking = TRUE]
         r == Respawn(m)
     IN  IF (l.status # "asleep" /\ Connected(l)) \/ l.waking
         THEN fleet' = Waits(fleet, c) /\ Become(c, "attaching")
         ELSE IF l.status # "asleep"
         THEN fleet' = Waits([m EXCEPT !.link = Connect(@)], c) /\ Become(c, "attaching")
         ELSE IF r.respawn # 0
         THEN fleet' = r /\ Become(c, "respawning")
         ELSE fleet' = Waits(r, c) /\ Become(c, "attaching")

AttachReady(c) ==
  /\ client[c] = "attaching" /\ c \in fleet.link.resolved
  /\ fleet' = [fleet EXCEPT !.link = Retain(Forget(@, c))]
  /\ Become(c, "attached")

AttachFails(c) ==
  /\ client[c] = "attaching" /\ c \in fleet.link.rejected
  /\ fleet' = [fleet EXCEPT !.link = Forget(@, c)]
  /\ Become(c, "idle")

Detach(c) ==
  /\ client[c] = "attached"
  /\ fleet' = [fleet EXCEPT !.link = Release(@)]
  /\ Become(c, "idle")

WaitTimeout(c) ==
  /\ c \in fleet.link.waiting
  /\ fleet' = [fleet EXCEPT !.link.waiting = @ \ {c}, !.link.rejected = @ \cup {c}]
  /\ UNCHANGED client

Prompt(c) ==
  /\ client[c] = "idle" /\ fleet.link.present
  /\ Become(c, "queued")
  /\ UNCHANGED fleet

\* asked: the status in the entry the prompt was asked with, used if the
\* daemon was removed since; the launch then fails after the fact.
PromptStarts(c, asked) ==
  /\ client[c] = "queued"
  /\ \A d \in Clients : client[d] \notin {"reviving", "waking", "prompting"}
  /\ LET m == [fleet EXCEPT !.link = Retain(@)]
         r == Respawn(m)
     IN  IF (IF m.link.present THEN m.link.status ELSE asked) # "ready"
         THEN IF r.respawn # 0 THEN fleet' = r /\ Become(c, "reviving")
              ELSE IF ~r.link.present
              THEN fleet' = [r EXCEPT !.link = Release(@)] /\ Become(c, "idle")
              ELSE fleet' = Waits(r, c) /\ Become(c, "waking")
         ELSE IF ~Connected(m.link)
         THEN fleet' = Waits([m EXCEPT !.link = Connect(@)], c) /\ Become(c, "waking")
         ELSE fleet' = m /\ Become(c, "prompting")

PromptSends(c) ==
  /\ client[c] = "waking" /\ c \in fleet.link.resolved
  /\ LET m == Ensure(Forget(fleet.link, c))
     IN  IF m.present /\ Connected(m)
         THEN fleet' = [fleet EXCEPT !.link = m] /\ Become(c, "prompting")
         ELSE fleet' = [fleet EXCEPT !.link = Release(m)] /\ Become(c, "idle")

PromptFails(c) ==
  /\ client[c] = "waking" /\ c \in fleet.link.rejected
  /\ fleet' = [fleet EXCEPT !.link = Release(Forget(@, c))]
  /\ Become(c, "idle")

PromptSettles(c) ==
  /\ client[c] = "prompting"
  /\ fleet' = [fleet EXCEPT !.link = Release(@)]
  /\ Become(c, "idle")

\* One stop or remove at a time.
StopDaemon(removing) ==
  /\ fleet.link.present /\ fleet.halt = 0
  /\ fleet' = Stop(fleet, removing)
  /\ UNCHANGED client

(* The fleet process dies and starts again on its persisted entry: the     *)
(* children live on, and nobody reads them or sees them exit.              *)
FleetRestart ==
  /\ fleet' = [fleet EXCEPT
       !.link = Boot(@, TRUE), !.sup = NoChild, !.respawn = 0, !.halt = 0, !.removing = FALSE,
       !.reporting = FALSE, !.overlap = FALSE,
       !.proc = [p \in Procs |-> [fleet.proc[p] EXCEPT !.line = FALSE, !.timer = FALSE, !.attended = FALSE]]]
  /\ client' = [c \in Clients |-> "idle"]

-----------------------------------------------------------------------------

ProcessNext ==
  \E p \in Procs :
    \/ Boots(p) \/ Reaped(p) \/ EndpointTimeout(p)
    \/ \E exit \in Exits : Dies(p, exit)
    \/ \E valid \in BOOLEAN : LineRead(p, valid)

StreamNext ==
  \/ DialOpens \/ DialRefused \/ StreamBreaks \/ StreamCloses
  \/ HelloArrives \/ ReadyArrives \/ RedialTimer \/ IdleTimer

ClientNext ==
  \E c \in Clients :
    \/ Attach(c) \/ AttachReady(c) \/ AttachFails(c) \/ Detach(c) \/ WaitTimeout(c)
    \/ Prompt(c) \/ PromptSends(c) \/ PromptFails(c) \/ PromptSettles(c)
    \/ \E asked \in {"ready", "asleep"} : PromptStarts(c, asked)

Next ==
  \/ ProcessNext \/ StreamNext \/ ClientNext
  \/ RestartTimer \/ LockReported \/ FleetRestart
  \/ \E removing \in BOOLEAN : StopDaemon(removing)

Spec == Init /\ [][Next]_vars

-----------------------------------------------------------------------------
(* Properties.                                                             *)

Running(p) == Alive(fleet, p) /\ fleet.proc[p].attended /\ ~fleet.proc[p].killed

\* No orphan: unless a stop and a respawn were in flight together, every
\* process this fleet launched and has not killed is the child it tracks.
NoOrphan == ~fleet.overlap => \A p \in Procs : Running(p) => p = fleet.sup.child

\* A stop that has ended wins over the exit it caused: no child, and no
\* restart on its way, until a caller or a dial failure launches again.
StopWins ==
  fleet.sup.stopping /\ fleet.halt = 0 /\ ~fleet.overlap
    => fleet.sup.child = 0 /\ ~fleet.sup.restartTimer

\* A spawned daemon whose child is gone is asleep or in error, or something
\* is under way that will launch it or find out, unless the connector was
\* told to let go of it.
NeverStranded ==
  fleet.link.present /\ ~fleet.link.closed /\ fleet.sup.child = 0
  /\ fleet.link.status \notin {"asleep", "error"}
    => \/ fleet.sup.restartTimer \/ fleet.respawn # 0 \/ fleet.halt # 0
       \/ fleet.link.fetch # "none" \/ fleet.link.redial

-----------------------------------------------------------------------------
(* What comments of the source say and the code does not do; see README.   *)

\* supervisor.ts, respawn(): "the child is never launched twice and an
\* orphan is never left behind", a stop in flight or not.
OrphanFree == \A p \in Procs : Running(p) => p = fleet.sup.child

\* supervisor.ts, respawnAfterDialFailure(): a stopped daemon is "dormant on
\* purpose (stopped, ...)", so once a stop has ended only a caller launches
\* the daemon again, never a late dial failure.
StoppedStaysDown ==
  [][fleet.sup.stopping /\ fleet.halt = 0 /\ ~fleet.overlap /\ client' = client
       => Unlaunched(fleet') = Unlaunched(fleet)]_vars
=============================================================================
