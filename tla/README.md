# A verification development for omp-web

omp-web drives coding agents from a browser. One **fleet** process keeps a
registry of agent daemons, launches or dials them, and serves browsers; each
**session daemon** (`omp-session`) runs one agent session in one directory and
can be launched by the fleet, dialled at an address, or run in a clone workspace
from which it dials the fleet. Everything between the three kinds of process is
HTTP: commands are posted, and answers, events and state come back on long-lived
server-sent-event streams.

This directory holds TLA+ models of the parts of that system that keep state
across interleavings, failures and restarts, TLC configurations that check them on
small instances, and TLAPS proofs for every size of the instance. The source is
the only reference: every definition that models code names its lines in
`PROJECT.json` (`map`). Paths below are under `src/`; `fleet/`, `session/` and
`web/` stand for `apps/fleet/`, `apps/session/` and `apps/web/`.

## Running it

    tlc -workers 2 -config connector.cfg MCDaemonConnector
    tlapm DaemonConnector_proofs.tla

Each run is listed in `PROJECT.json` with its module, configuration and
properties; a run that expects a violation checks one claim of a comment that the
code does not keep.

## Inventory

### Modelled, wholly or in part

**Daemon connector** (`fleet/connector.ts`). Per daemon a `ConnState`: the
`/events` request it holds, what its stream has said (hello_ok, state, ready), the
retain count, redial, silence and idle-drop timers, and the waiters of `waitReady`.
Operations: `connect`, `disconnect`, `fail`, `drop`, `retain`, `release`,
`waitReady`, and the handlers of the stream and of the timers. It writes the
registry's status; the registry, the supervisor and the edge call it and hear of
status changes by callback. Hard: a let-go request still reports, three timers
race with callers, frames come in any order, waiters must be settled on every
path. Correct when a daemon is dialled once at a time, an intentional drop stays
dropped, a daemon counts as ready only for a live stream that passed the checks,
and nobody is left waiting.

**Spawn supervisor** (`fleet/supervisor.ts`). Per spawned daemon a `ChildState`:
the child, the restart budget and timer, the endpoint timer and flags that tell an
exit's cause. Operations: `spawn`, `respawn`, `stop`, `prune`,
`respawnAfterDialFailure`, `onConnectorStatus`, `onExit`. It asks the connector to
dial what a child's listening line names. Hard: `stop` and `respawn` await the
same exit; a replaced child's stdout reader, exit callback and timer act on the
state its successor uses; dial failures, restarts and callers all launch. Correct
when no running child goes untracked, a stop wins over the exit it causes, a
crash loop ends, and a daemon without a child is not left in between.

**Registry and boot reconcile** (`fleet/registry.ts`, `fleet/server.ts`). The
persisted entries (status, endpoint, token, mode, a clone's workspace record),
listeners of mutations, and what a restarted fleet makes of each entry
(`#reconcileBootStatuses`, the re-enrollment of clones). Modelled as the entry's
fields in `DaemonLink` and `Boot`, and as `entry` in `WorkspaceLifecycle`; projects,
orphan lists and the write of the state file are not.

**Edge** (`fleet/edge.ts`). The browsers' side: per browser client a stream, a ring
of recent events and a pipe to the attached daemon; per fleet the wake guard,
forward records, daemon generations, the activity watch, resume picks in flight.
Modelled: attach, wake guard, stop, remove, a live pipe's retain, the watch,
command forwarding, the direct pipe with its redials and resume id, the client's
ring, rebinds and reclaim, and the callback pipe of a clone. Not: roster and
activity frames, several streams of one client, `spawn_resume`.

**Prompt fan-out** (`fleet/fanout.ts`). A queue of prompts per daemon; each wakes
the daemon, sends, awaits the answer. Correct when turns never overlap and no
failure stalls the queue.

**Command replay and answers** (`web/store/transport.ts`, `#forwardCommand`,
`#recordForwardOrigin` and `#routeAnswer` of the edge, `POST /command` of
`session/index.ts`). The browser re-posts an unanswered call under the same id; the
daemon remembers ids and answers, the edge the process it forwarded an id to, the
call itself the attachment it was made for. Correct when a call runs at most once
through re-posts, reordering and restarts.

**File lock** (`lib/platform/file-lock.ts`). A lock is a file with a pid, created
exclusively, broken when its pid is dead. Used for session files. Correct when one
process holds it, and every call returns.

**Session log mirroring** (`session/log-tailer.ts`, `fleet/log-store.ts`, their glue
in both `server.ts` and in `session/fleet-callback.ts`). A clone workspace's volume
goes away, so its daemon tails every session file and streams it to the fleet, which
appends it to a mirror. The tailer keeps per file an identity's generation, the
offsets sent and acknowledged, the unacknowledged chunks and a queue, and a sidecar;
the store keeps per file the stored bytes and an index of generation and offset.
Operations: a tick (`#drain`), `ack`, `resync`, `gap`, `quiesce`, `stop`,
`ingest`, `load`, the deletion gate. Hard: files are rewritten under the tail,
the fleet dies between its three writes, a ring overflows and is repaired from the
file, an answer meets a tail that has moved on. Correct when the mirror
is one file's bytes, what is acknowledged is stored, the gate opens on a whole file
only, and the mirror catches up.

**Session daemon** (`session/index.ts` and its neighbours). Modelled as a process
that boots, prints its listening line, serves event streams, accepts commands, idles
out, crashes or meets a session lock. Its methods drive the agent SDK.

**Event stream delivery** (`session/sse-delivery.ts`, `lib/wire/sse.ts`,
`primeConsumer` of `session/index.ts`, the streams of the edge, `connect()` of
`web/state.ts`). A session's events reach a tab over two connections, each with a
buffer, a ring, ids and reconnects of its own. Per process the daemon keeps a
counter and a ring of deltas, per consumer a buffer; the edge keeps the same per
client; the tab keeps the last id and the ids it has seen. Operations: open, prime (paced),
replay, broadcast, answer, overflow, cancel. Hard: live deltas overtake the prime, the
ring evicts during it, either connection breaks at any point, a stream is replaced
before its cancel comes, ids restart with a process. Correct when a tab whose feed is up shows all of the
session up to some event, in order but for copies, and every tab with a session catches up.

**Callback transport** (`session/fleet-callback.ts`, `fleet/daemon-transport.ts`,
`session/daemon-control.ts`, the callback pipe of the edge). A clone cannot be dialled; its
daemon keeps a pair of requests open, up and down. The daemon keeps the newest pair, its
queue and the numbers it stamps; the fleet keeps the live halves of every pair it has not
seen end. Over the pair the edge opens streams by control messages and the broker primes and
mirrors. Hard: halves end apart and are noticed late, several pairs are live at
the fleet, what is sent to an ending pair is lost. Correct when both ends come to agree on a pair and a
stream, and what arrives of one pair is whole and in order.

**Clone workspace lifecycle** (`fleet/workspace-lifecycle.ts`, `fleet/clone-control.ts`,
enrollments of `fleet/daemon-transport.ts`). Per workspace a durable record: desired
state, authorized generation, enrollment, deletion, progress. Operations:
create, start, stop, delete (a gate of many steps), reconcile at boot, the pair watcher. All
await the provider, and nothing but deletion is serialised. Hard: each goes on from what it
read before its await; the fleet dies between any two writes; answers are
lost while what was asked is done. Correct when two sandboxes never write one volume,
a revoked credential stays revoked, a deletion fences starts and settles unless its gate throws, and a ready clone can
call back.

**Providers** (`fleet/bwrap-provider.ts`, `lib/runtime/provider-exec.ts`). One process per
operation, on files: a spawn lock, a launch record, the callback hand-over; a detached
supervisor per sandbox. Hard: provider processes and supervisors outlive the fleet, the record is written
long after the spawn. The Kubernetes provider is not modelled.

**Web client store** (`web/state.ts`, `web/store/transport.ts`). Which frames of its stream a
tab counts, when it attaches, and its calls. What a frame does to the view is not modelled.

**Collaboration** (`session/collab-relay.ts`, `session/collab-host.ts`, `session/ui-context.ts`).
A daemon shares its session: the relay keeps rooms (a host, guests by peer id, a grace
period without a host), the adapter of the session is a client of it with a table of peers, their
permission, the dialogs that wait for them, and the session's tap. Operations: `collab_start`, `collab_stop`, a guest's
join, hello, prompt, answer and leaving, a dialog that goes to guests or to browsers.
Hard: both ends learn late of a connection's end, peer ids begin anew with a room, a stop
yields before it tears down, answers and leavings are lost with a connection. Correct when a guest sees
the transcript whole and the dialogs that wait, a welcomed guest without the token does not act, and a room keeps to its host,
its grace period and the cap.

### Not modelled

| Part | State and operations | What is hard | Correct when |
|---|---|---|---|
| Kubernetes provider (`fleet/kubernetes-provider.ts`) | pods, volumes, secrets at an API server | the same operations as bwrap's, with the identity of a pod for that of a process | operations are idempotent |
| Deletion verification (`fleet/verify-store.ts`, `fleet/download-policy.ts`) | none; compares trees | completeness of a comparison | equal only if every file is stored |
| Wake materialization (`fleet/wake-materialize.ts`, `session/session-materialize.ts`) | copies a lineage to a volume | partial copies | a partial copy is never resumed |
| Browser authentication (`fleet/browser-auth.ts`) | sessions, setup codes | expiry against use | an expired session or a used code is refused |

Left out for good: rendering (`web/App.tsx`), the command line and settings, worktree and
session discovery (calls to git and directory reads), statistics (reads transcripts into a
database), the daemon's adapters to the agent SDK. They translate data and
run no protocol of their own.

## Modules

| Module | Models | How it is built |
|---|---|---|
| `DaemonLink` | one daemon's registry entry, `ConnState` and edge flags | operators from link to link, one per method or handler, no variables; `Sound` says what they keep |
| `DaemonConnector` | a dial-in daemon with any number of callers | extends `DaemonLink`; `link`, `client`, `turns` |
| `SpawnSupervisor` | a spawned daemon: supervisor, processes, connector | extends `DaemonLink`; `fleet` (link, `ChildState`, processes, calls in flight), `client` |
| `CommandReplay` | a call, its re-posts and the three memories | stands alone; browser, edge, daemon, four message sets, a clock |
| `FileLock` | `acquireFileLock` system call by system call | stands alone |
| `LogStore` | the fleet's store of one mirrored file | operators from store to store (`Admitted`, `Ingest`, `Interrupted`, `Loaded`), no variables |
| `LogTailer` | the daemon's tail of that file | operators from a stream and its queue to the set of tails they may leave, of one element |
| `LogMirror` | both ends, the file, the callback pair between them, the gate | extends the two; `file`, `stream`, `tailer`, `sidecar`, the queues `up` and `down`, `store`, `pending` and histories |
| `BwrapProvider` | the provider's four operations on one workspace's files and sandboxes | operators and actions over `handover`, `box`, `pidfile`, `lock` |
| `WorkspaceLifecycle` | one clone: its operations, enrollments, pair watcher, boots | extends `BwrapProvider`; an operation is a slot that awaits, the provider answers it |
| `EventFeed` | what event streams promise a tab | abstract: `made`, `feed` |
| `SessionStream` | the daemon's end of a stream: ring, buffer, prime, replay | actions over its own variables |
| `BrowserFeed` | edge and tab, with the daemon behind them | extends `SessionStream`; implements `EventFeed` |
| `CallbackPair` | the pairs of requests between a clone's daemon and the fleet | `Pump`, `PairFails`, arrivals and ends of halves |
| `CloneFeed` | a browser's stream over those pairs: broker and callback pipe | extends `CallbackPair` |
| `CollabRelay` | the rooms and their connections | operators and actions over `rooms`, `dials`, `guests`, `down` |
| `CollabHost` | a session's host: starts, stops, dialogs, guests' frames | extends `CollabRelay`; an adapter per start |
| `*_proofs` | theorems about `DaemonLink`, `DaemonConnector`, `SpawnSupervisor`, `CommandReplay`, `FileLock`, `LogMirror`, `WorkspaceLifecycle`, `CollabHost` | each extends the module it is about |
| `MC*` | the instances TLC checks | |

`DaemonLink` is shared because the connector, the registry's callbacks and the
edge's reactions run synchronously within one handler: `SetStatus` is
`registry.setStatus` with everything its listeners do (end the wake guard, watch or
unwatch, connect), `Transition` adds the settling of waiters, `OnHello`,
`OnState`, `OnReady`, `StreamEnded` are the stream's handlers. `DaemonConnector` and
`SpawnSupervisor` place these operators in actions and add the callers.

### Correspondence and abstractions

*Connector.* `fetch` is the `/events` request: none, pending, open, or aborted
(a rejected hello_ok, whose buffered frames may still be read). `stale` says that a let-go
request may still report; its reports are recognised by their abort controller.
`to` and `tok` are the endpoint and token of the request. A daemon answers in any way, at any
time. Timers fire at any time once armed, which covers every delay. `resolved`
and `rejected` hold the waiters whose promise is settled and whose caller has not
run yet. Two browser streams differ only as callers; the watch needs only whether one is open.

*Supervisor.* A launch, its process, endpoint and token share a number, so ports
and pids are not reused. The code after `await child.exited` in `respawn` and `stop`
runs in the microtasks of one exit, so `Reaped` does all of it, in either
order. Lines of a dead process may be read later. One stop and one respawn are in
flight at a time; a graceful close of the fleet is its stops, then a restart. Here
hello_ok precedes ready, `DaemonConnector` has the other orders.

*Replay.* Messages are sets: they overtake each other and get lost
(`Lose`), and re-posts duplicate them. A call's scope is the process whose state frame
the browser saw last. What other commands do to the memories (sweeps, pushed-out
answers) is `OtherForwarded` and `OtherAnswered`, at any time. A clock counts
units; the re-post bound, the sweeps and the dedup all compare with one window, as
the code does with one constant. Left out: the caps, callback pipes, a browser
that switches to another daemon.

*Lock.* One action per system call or decision, death anywhere. Pid reuse and pid
namespaces are left out.

*Mirror.* One file, one stream. A byte of a file is the number of the
identity it belongs to, so identity stands for contents: logs are appended to or
replaced by rename, and equal bytes of two identities are told apart.
`LineEnds` says which positions end a line, for every file alike. `up` is the callback queue and
the chunks on the wire, its prefix, which a broken pair loses; the queue
survives the pair. `down` belongs to one pair. `Tick` is the tailer's
scan and drain, the same for timer and watch event. A fleet that dies inside
`ingest` leaves one of the disk states of `Interrupted`, and `load()` is part of the
crash since nobody sees the store in between. Acks carry a generation in the model only, to
recognise misread ones. `flaws` and `named` are histories: they record what the protocol
has no answer to, and the properties name the flaws they exclude. Left
out: several streams that share a ring and a queue, sizes in bytes of the
queue, purges and the read-only mark, inode reuse, truncation or rewriting in place
(the code does not mirror rewritten titles by design), a file that cannot be
opened, a crash inside `load()`.

*Clone lifecycle.* One workspace. An operation is a record in a slot: what it read of the
entry before it awaited, where it is, and the provider's answer. It runs to its next await in one step,
so `Enroll` has all that `#ensure` does between `inspect` and `ensure-running`, the throw of
`enrollWorkspace` included. An operation makes at most one credential and one sandbox, which carry
its number; equality of a digest is equality of the number. The launch record is written when a sandbox is
live. `patient` is fixed at the start: whether clients wait for one another. Nothing in the code
makes them, and the properties that need it say so. The transcripts are one bit, whether the
volume is ahead of the store, and the evidence the gate reads is that bit or a failure. A failure of the gate is one that it
reports and persists (`GateFails`), or an error of git, of a file or of the store that nothing in `#gate` catches (`GateThrows`): then
the `finally` of `#deleteGate` lets the next delete in and the entry stays "deleting". `gate` is "held", "dropped" by such an
error, or free.

*Feed.* One tab, one daemon. An event is its number in the transcript. A frame of
the daemon's has the process's id, a frame of the edge's the client's; buffers count frames. What the
code does between awaits is one step; the waits are those of the paced prime, the attach, the dial and the
reads. A fault ends a connection, a process or an attach. `settled` and `astray` are
histories: whether a frame was queued after its prime, whether a pipe was resumed with the id of another process. The view is a
sequence: history replaces it, a live frame or a replay appends to it. Left out: chunks
of a long history, bytes, several consumers, roster and activity frames, overlapping attaches.

*Clone feed.* A pair is a number, its halves `<<p, "up">>` and `<<p, "down">>`. `cut` is what the
network has broken and the daemon has not noticed. What was sent before an end can still be read
by the fleet, what a broken half carried is lost. `Emit` queues, pumps and rings in one step, as
`emit()` does. `era` is a history: the pair that was ready when an envelope was queued.

*Collaboration.* A room and the adapter that makes it share a number, since each start draws a new id. A host's connection is
a dial, reused when both ends have let go of it; a guest is one connection and does not come back. A guest sends what it likes from
the moment it has joined: its hello late, twice or never, prompts and answers before it. Neither the relay nor the host asks for a hello
first, and a hello of another protocol version changes nothing, so who sends one is a guest that sends none. `down` is what the relay has sent and the host
has not read; a frame of the host's is with the guests at once, as the relay forwards in order and only a guest's own reading
is later. A broken connection loses `down` (`Silenced`), and `heard` is cleared: what a guest is promised, it is
promised while the host has the connection on which it read the guest's hello. A prompt carries whether its sender may be
run for all that `WelcomedReadersDoNotPrompt` says, which the host does not see. `turns` are the stops that have
yielded, from the command and from a switched session. `tap` is the single slot `onEntryAppended`. `CollabSocket` is external; its use here
says that it dials again unless the relay refused it in its room. `astray` and `heard` are histories.

## Runs

Checked with TLC on all reachable states; `collab` with symmetry of its guests, the others without.

| Run | Instance | Shows |
|---|---|---|
| `connector` | two callers, one dial-in daemon | the connector's safety (below) and that prompts and attaches end |
| `supervisor_callers` | one caller, restart budget 1, two launches | no orphan, a stop wins, nothing is stranded |
| `lock` | three processes, three attempts | exclusion, and that calls end |
| `replay` | one call, window 1, clock 0..2, two processes, two posts under way | at most one execution |
| `mirror` | two identities of up to three bytes, lines of one and three bytes, chunk, ring and queue of two, one fault | one file's bytes, acks and the gate mean storage; without loss the mirror catches up and the gate opens |
| `lifecycle` | two clients, three operations or boots, two faults | one writer, revocation, the admission barrier, deletions settle unless the gate throws, a ready clone can call back |
| `feed` | buffers of three and five frames, rings of two, two events, answers or changes of projects, one fault | the tab's feed implements `EventFeed`; the tab catches up |
| `clone_feed` | half of two envelopes, ring of one, three changes, one attach, one fault | deltas of a pair are whole; both ends agree in the end |
| `collab` | two guests, two starts, two dials, cap of one room, one dialog, one entry, one fault | guests' view, permissions, rooms |
| `mirror_spliced`, `start_wedged`, `clone_blind` | the same, or as large as the defect needs | what the code does against its comments |

**Why the bounds suffice.** *connector*: the hazards are between a caller, another
caller, the stream and a stop; two callers can queue behind each other, share
a retain count and wait together, and everything else is unbounded (redials,
frames, restarts). *supervisor_callers*: each defect of successor and predecessor
needs two launches; a launch past the bound fails like a failing `Bun.spawn`, which
is code too; with a caller three launches are beyond seven
million states. *lock*: three processes are a holder,
a breaker and a late reader; three attempts is the code's constant. *replay*: with
window 1 a time can be inside, at the edge of and past the window; two processes
are the one that ran the call and its successor; two posts may be in
flight in any order. A second call would only do what `OtherForwarded` and
`OtherAnswered` do. *mirror*: a line that fits a chunk and one that does not give
both cuts of `Cut`; three unacknowledged bytes overflow a ring of two; a queue of two
fills within one drain; two identities make a rewrite; one fault is a broken pair, a
daemon restart or a fleet crash at any point of the rest. Its safety invariants were also checked without
the liveness properties for two faults with two identities, and with three identities (unlined logs of two bytes).
`mirror_spliced` needs three identities. *lifecycle*: `MaxOps` = 3 is a create, an operation
that overlaps it or follows it, and one more of either the clients or a boot; `MaxFaults` = 2 is any two of a restart, a
failure (a lost answer, a gate that fails or throws) and a death.
*feed*: a daemon's buffer of three frames holds a prime and overflows with one event more, the edge's of five
likewise; two events are what a replay needs to be out of order, and rings of two hold both. The eviction check also meets the gaps
that answers leave in the ids; that the ring really evicts takes a third event and is not reached. An edge's buffer smaller than a whole prime never
lets one through, as in the code. Nor is a replay of the edge's ring that overflows at the opening reached. *clone_feed*: one fault is one pair
replaced by another, noticed early or late at either end; ring of one and three changes make an eviction. Also checked: two
attaches with two changes, and the safety properties for two faults (8.7 million states).
*collab*: two guests are one that acts and one whose id or place the other takes; two starts of one host are two rooms, and a cap of one makes them compete;
two dials are a connection and its successor; one fault is a broken connection, a failed dial or a switch of sessions
at any point. A guest's frame, a hello included, is sent when nothing waits for the host; leavings wait beside it.

**`MaxDelay` = 0.** `RunsOnce` is checked for posts that take no
clock unit from browser to daemon. This is an assumption of the code: the browser
stops re-posting one window after its *first post*, the daemon forgets the id
one window after the *first receipt*, so a re-post sent at the end of the window that
travels longer than the first can find the id forgotten. With `MaxDelay` = 1 TLC
shows it in nine states; what is needed instead is proved (`AtMostOneRun`: posts may
travel for as long as the last re-post still arrives within a window of the first post). It takes a call without an answer for a
whole window (60 s, so one with a deadline above the default 30 s or none, as
logins have).

### What the properties say

*Connector.* `OneDial` relates requests and timers; `LinkSound`, which no run lists, is its inductive form, which also
says that a closed connection is quiet, that no daemon is drivable before its hello_ok and that no
idle timer runs over a held daemon (theorem `Safety`).
`RetainBalanced` counts holders. `OneTurnAtATime`
serialises prompts. `NoWaiterLeftBehind` and `ReadyMeansLive` are about the
waiters, `ErrorIsTerminal` is an action property of the
status; `PromptsDrain` and `AttachAnswered` are live.

*Supervisor.* `NoOrphan`, `StopWins` and `NeverStranded` are stated
next to their definitions; `overlap` is a history. `NoOrphan` and `StopWins`
hold unless a stop and a respawn were in flight together, see `OrphanFree` below.

*Replay.* `RunsOnce`: at most once per process, and only in the process of its
scope. Without a scope (a call made before the first state frame) a second process may run a call
again; `MindedRunsOnce` says the edge prevents that for a spawned daemon as long as
its record stands, and the record is given up by an answer, a refusal or an
edge restart. A dial-in daemon that is replaced before a pipe greets it differs
in no recorded axis, which is why the property is about spawned daemons.

*Lock.* `MutualExclusion` holds while nobody died and nobody
broke a file in which no pid could be read. `CallsEnd` is live.

*Mirror.* `StoresOneFile`: whatever is resent, repaired, lost or interrupted, the stored bytes are
one file's, unless one generation was given to two files. `AckedIsStored`: what the
tailer resumes after is stored, unless an ack of an earlier generation was taken for a
current one or recovery cut acknowledged bytes. `GateMeansStored`: when the acks
cover the boundary of a quiesce, the store has the whole file; an empty file's
boundary is covered by no ack at all. `CatchesUp` and `GateOpens` are live, for
behaviours in which nothing is lost and the ring is not rewound; both
restrictions are real, see `RewindRecovers` and the observations below.

*Clone lifecycle.* `OneWriter`: two sandboxes never write one volume, with overlapping clients too as long
as no deletion has begun. `RevokedStaysRevoked`: a boot that enrolls what is persisted, and a start that takes a
sandbox back, never accept what was revoked. `DeletionFences` is the admission barrier. These two, and
`OneWriter` beyond the start of a deletion, hold for clients that wait for one another and fail for
others: see the observations. `ReadyIsReachable`: the credential of a
running clone shown ready is the one enrolled, through starts, replacements and boots, unless an answer
was lost or a spawner survives its fleet. `DeletionSettles` is live for every client: a deletion that is under way, or that a
boot finds under way, is finished or left for a retry, unless its gate throws. That one stays "deleting" until the next delete or boot;
`CallbackSettles` is the promise of the pair watcher, a clone does not stay at the callback stage.

*Feed.* `NoEventMissing` is a refinement: with `feed` the number of events a tab shows while
its feed is up, and down otherwise, every step of the two connections is a step of `EventFeed` or none. The
events are counted in order: of the view the last showing of each event is taken, and these have to be 1 to some number in that order, else `feed` is
no number that `EventFeed` allows. So what a tab shows last is a prefix that grows by one, whatever came as history, live frame or replay. Above
it may stand earlier copies in no order, see `EachInTurn`.
`CatchesUp` is live: a tab with a session ends up steady and showing everything. It excludes an attach that failed
or a pipe that was given up (nobody tries again, by design), and a pipe resumed across processes, see `NothingSkipped`.

*Clone feed.* `WholeRuns`: a gap or repeat needs a change of pairs between. `StreamFound`:
once faults cease the daemon and the fleet agree on a pair, and the broker knows the stream of an attached
browser, whichever message was lost.

*Collaboration.* `NoGap` and `DialogsMatch` compare every guest that the host serves with the session: the snapshot,
the broadcasts, the dialogs asked before and after its hello and those others answered fit together.
`WelcomedReadersDoNotPrompt`: no prompt runs of a reader that the host has welcomed, whatever hellos and prompts it sends and though its peer id may have been
a writer's in a room destroyed while the host was away. Of a guest it has not welcomed one may, see `ReadersAreReadOnly`. `RoomsAreHeld`:
a room is in its grace period exactly when it has no host, and its host is a connection in use or about to close.
The room cap is in `TypeOK`. `AsksAreOwned` is proved and in no run: a waiting dialog is always known to an adapter
whose end settles it.

The types of `CommandReplay`, `BrowserFeed` and `CloneFeed` are stated and hold in the instances
of their runs; no run lists them.

### Fairness

`connector` assumes weak fairness of the timer of `waitReady` (it is armed with
every waiter), of the continuation of a settled attach, and of the steps of a
prompt's turn: a woken one is sent or fails, a sent one is answered or
reaches its own timeout (`waitMs`). Nothing is assumed of the daemon, the network
or other callers. `lock` assumes that a process goes on with its call. `mirror` assumes that the scan timer, the ack flush, the dial of a pair and the
two readers of a live pair go on; nothing of the writers, the sidecar timer, a quiesce or
a fault. `lifecycle` assumes that settled promises continue, that the provider does what it is asked or
answers (its operations have timeouts), that supervisors start their sandboxes, that the watcher ticks and that
daemons dial; not that anyone asks for anything. `feed` assumes that posted commands arrive, that what is dialled answers, that
buffers are read and that an `EventSource` reconnects; not that the edge ever notices a broken browser, nor that a late
cancel comes. `clone_feed` assumes that the backoff ends, that requests arrive, that both ends read, and that
the daemon notices a broken half by its silence, stall or ready timer; not that the fleet does.
Deadlock is checked in the connector, supervisor and replay runs. In the lock all
processes may be dead, in the mirror a quiesced daemon whose chunks
are all answered has nothing left to do, and in the others the bounded faults, operations and events run out.

### Where the code and its comments disagree

* **`mirror_spliced`** — a log rewritten, deleted and made again is given a
  generation a second time, because the rewrite's increment is not remembered when the
  stream is dropped; the store appends the new file to the old bytes
  (`session/log-tailer.ts:727` against `fleet/log-store.ts:6`).
* **`start_wedged`** — `#ensure` enrolls and persists the next generation's binding, and authorizes the generation when
  the provider has answered. A fleet that dies in between enrolls that binding again at boot; every later start
  computes the same generation with a fresh credential, is refused by `enrollWorkspace`, and does
  so outside the `try` that would revoke (`fleet/workspace-lifecycle.ts:857` against `:16`).
* **`clone_blind`** — `onPairChange` is called once, when `start()` resolves, not at each pair. What a session does
  while no pair is ready is mirrored to nobody, and the `stream_open` on the next pair finds the stream known and primes
  nothing: an attached browser stays behind until the next event (`session/index.ts:1457` against
  `session/daemon-control.ts:30`). With `PairReady` always `PrimeAll` TLC finds `ToldInTheEnd` to hold.

Refuted by TLC in the same way, the property kept next to the others in its module, with no run:

| Property | Constants | What happens |
|---|---|---|
| `SpawnSupervisor!OrphanFree` | no caller, budget 1, two launches | `stop()` and `respawn()` await the same exit; when the respawn's half runs first, the stop's half clears `state.child` over the new process, which runs on untracked (`fleet/supervisor.ts:392` against `:310`) |
| `SpawnSupervisor!StoppedStaysDown` | the same | a listening line read after the stop leads to a dial whose failure launches the daemon again (`fleet/supervisor.ts:687` against `:297`) |
| `FileLock!AloneUnlessOneDied` | those of `lock` | a lock file not yet written counts as stale, so two live processes can hold the lock (`lib/platform/file-lock.ts:95` against `:12`) |
| `CommandReplay!ReplayKeepsOutcome` | those of `replay` | a re-post that meets a reconnected stream without a pipe is answered "not attached" although the first post ran (`fleet/edge.ts:2429` against `web/store/transport.ts:95`) |
| `LogMirror!RewindRecovers` | those of `mirror`, four bytes, one identity, no fault | after the ring is rewound, acks that arrive before the resend exceed `sentOffset` and are ignored, the resent chunks are duplicates and never acknowledged, and the stream stands still (`session/log-tailer.ts:521` against `:56`) |
| `WorkspaceLifecycle!RemovedIsStored` | three operations, one fault | a fleet that dies in the middle of a first start leaves a live sandbox and no authorized generation; the boot skips it, the gate takes it for never started and stops nothing, and the volume goes while the sandbox writes (`fleet/workspace-lifecycle.ts:1015` against `:1004`) |
| `WorkspaceLifecycle!DeletionNeverStays` | three operations, one fault, under `FairSpec` | `verifyWorkspaceLogs`, `runGit`, a hash or the read-only mark throws, and nothing in `#gate` catches it; the `finally` lets go of the gate, and the entry stays "deleting" with nothing under way until somebody deletes again or the fleet restarts (`fleet/workspace-lifecycle.ts:976` against `:923`) |
| `BrowserFeed!EachInTurn` | those of `feed` | event 1 comes live before the history is read and is wiped with it, event 2 comes live after it, and the replay then shows both: 2, 1, 2 (`session/index.ts:368` against `:361`) |
| `BrowserFeed!OnceOnly` | those of `feed` | an event read again after a pipe's break has a new id of the edge's, which the tab has not seen (`fleet/edge.ts:2648` against `web/state.ts:544`) |
| `BrowserFeed!ShowsProjects` | the same | the edge's priming ids start at 1 again, and a tab that reconnects without a session has seen them (`fleet/edge.ts:2730`) |
| `BrowserFeed!NothingSkipped` | the same | a pipe resumed at a new process with the old one's higher id is not replayed what it missed during the prime (`session/index.ts:361`) |
| `CloneFeed!OrphansCollected` | those of `clone_feed` | a `stream_close` without a pair is lost, and nothing else closes a broker's stream (`fleet/edge.ts:2390`) |
| `CloneFeed!ReplaysWhatIsMissing` | the same | a stream's ring outlives the pair whose numbers it is kept under, and is replayed against those of the next |
| `CollabHost!AskFallsThrough` | one guest, one room, under `FairSpec` | the last guest that could answer leaves; `#handlePeerLeft` settles nothing, and the dialog waits until the adapter ends (`session/collab-host.ts:635` against `session/ui-context.ts:35`) |
| `CollabHost!TapStays` | those of `collab` | a stop has yielded, the next start takes the slot, and the stop clears it: the new guests get no entry. The start has to be through within the stop's timer of 0 ms; nothing but that orders them (`session/collab-host.ts:447` against `:440`) |
| `CollabHost!SlotIsLive` | the same | an adapter that ended by itself, after a switch or a refusal, stays in the slot, and `collab_start` is refused until a `collab_stop` (`session/index.ts:632` against `session/session-entry.ts:32`) |
| `CollabHost!ReadersAreSpared` | the same | a reader whose peer id was a writer's of the destroyed room is shown a dialog before its hello (`session/collab-host.ts:302`) |
| `CollabHost!ReadersAreReadOnly` | the same | the host's table keeps the peers of a room destroyed while it was away, and a reader who gets a writer's id in the new room counts as that writer until its hello is read; a prompt sent without a hello runs (`session/collab-host.ts:609` against `:485`) |
| `CollabHost!CountsConnected` | one guest, one room, under `FairSpec` | a leaving while the host was away is never reported to it, and the guest counts as able to answer until the adapter ends (`session/collab-host.ts:245`) |

Seen while modelling:

* An error that the supervisor sets through `registry.setStatus` settles no waiter,
  though `waitReady` says it rejects on error; respawns after failed dials are not
  counted against the restart budget.
* A prompt that waited in the queue while its daemon was removed wakes the stale
  entry and launches a child (`fleet/fanout.ts:105`).
* After a session-lock exit the wake guard stands with nothing under way, and later
  attaches wait for it in vain (`fleet/edge.ts:1945`).
* A replaced child's line clears its successor's endpoint timeout
  (`fleet/supervisor.ts:668`).
* A record of a delivered answer, and one that was refused, no longer guards a later
  re-post of a call without a scope.
* A chunk or an ack batch lost with its pair is not sent again while the log is idle
  (`fleet/server.ts:946`); a later chunk shows the gap.
* `load()` adopts bytes without an index entry at generation 1 whatever generation
  they had; a daemon that restarts without a sidecar numbers from 1 again, and may then
  extend them with another file's bytes (`fleet/log-store.ts:1199`). A `reused` flaw of the model.
* The sidecar leaves out a stream of which nothing is acknowledged, so a restarted
  daemon may number from 1 below the store's generation and be told nothing ("obsolete").
* An ack of an earlier generation is accepted when its offset is not beyond what was
  sent of the present one.
* `reconcileTail` may cut acknowledged bytes when a file without line ends, or with a line
  longer than a chunk, is longer on disk than in the index.
* A retried quiesce takes a rewound `sentOffset` for the flush boundary; a log
  deleted right before a quiesce has a boundary and no ack, so the gate times out; a
  failed quiesce leaves the tailer stopped; `stop()` before `start()` writes an empty sidecar.

* Overlapping operations of one clone: a start in flight enrolls after a deletion has begun (the barrier is looked
  at once, `fleet/workspace-lifecycle.ts:765`); a start that takes a sandbox back after a stop revoked its
  credential enrolls that credential again; the authorized generation can fall; a deletion of the provider's state takes the spawn lock of
  a spawner with it, so another start makes a second writer.
* A first start whose answer is lost leaves a sandbox with a credential nobody accepts, shown at stage "callback" after the
  next start has taken it back; a failed wake leaves stage "runtime".
* A waiter at the spawn lock takes any live record for its own, of whatever generation (`fleet/bwrap-provider.ts:731`).
* `reconcile` updates an entry that may have been removed while it awaited, and throws unhandled.
* After an answer the session's eviction check sees a gap in the ring that is none, and closes the stream cleanly, which the
  connector reads as asleep (`session/index.ts:374`).
* The edge paces nothing: a transcript longer than its cap, read by a slow browser, drops that browser at every attach.
* Of two attaches of one stream that overlap the slower one wins.
* An envelope written to the body of a pair whose dial then fails is lost, though `send()` says queued envelopes replay
  (`session/fleet-callback.ts:468`); the edge turns `stream_resync` into `stream_reset`, which the tab
  ignores; a prime over the callback pair has no history frames.
* With a cap of one room, an orphaned room makes the next start fail with 503 until its grace period is over, though
  `session/config.ts:219` keeps the cap at one or more so that the host can create its room; a redial that overtakes the server's notice of the
  broken connection is refused with 4009 and ends the session's sharing.

Every property of a passing run has a mutant, a slip of one mapped operator
written next to it (`RespawnLeavingOld`, `ReplacedByPid`, `SpawnBeside`...) under
which TLC finds the property violated.

## Proofs

All are theorems of `Spec`, without fairness.

| Theorem | Property | For every |
|---|---|---|
| `DaemonConnector_proofs!TypeCorrect`, `Safety`, `TurnsAreSerial` | `TypeOK`, `OneDial` and the rest of `LinkSound`, `OneTurnAtATime` | finite set of callers |
| `HoldersBalance`, `NobodyLeftWaiting` | `RetainBalanced`, `NoWaiterLeftBehind` | the same |
| `ReadyIsLive`, `ErrorStays` | the action properties `ReadyMeansLive`, `ErrorIsTerminal` | the same |
| `SpawnSupervisor_proofs!TypeCorrect`, `NoOrphans`, `StopStays`, `NobodyStranded` | `TypeOK`, `NoOrphan`, `StopWins`, `NeverStranded` | finite set of callers, restart budget, number of launches |
| `CommandReplay_proofs!AtMostOneRun`, `OneProcessWhileMinded` | `RunsOnce`, `MindedRunsOnce` | window, `MaxDelay <= Window`, calls, processes and other bounds, where re-posts come in time |
| `FileLock_proofs!TypeCorrect`, `Exclusive` | `TypeOK`, `MutualExclusion` | set of processes, number of attempts |
| `LogMirror_proofs!TypeCorrect`, `MirrorsOneFile`, `AcksAreStored`, `GateIsSafe` | `TypeOK`, `StoresOneFile`, `AckedIsStored`, `GateMeansStored` | line ends, limits of tailer and ring, files, lengths, faults |
| `WorkspaceLifecycle_proofs!TypeCorrect`, `OneSandboxWrites`, `RevokedForGood`, `ReadyCanCallBack` | `TypeOK`, `OneWriter`, `RevokedStaysRevoked`, `ReadyIsReachable` | set of clients, number of operations and faults |
| `NothingEnrollsDeleted` | the action property `DeletionFences` | the same |
| `CollabHost_proofs!TypeCorrect`, `EveryRoomIsHeld`, `NoWelcomedReaderPrompts`, `GuestsMissNothing`, `GuestsShowWhatWaits`, `DialogsHaveOwners` | `TypeOK`, `RoomsAreHeld`, `WelcomedReadersDoNotPrompt`, `NoGap`, `DialogsMatch`, `AsksAreOwned` | rooms, dials, guests, dialogs, entries, caps of the relay, faults |

Nothing is assumed beyond the named assumptions on the constants in the modules, which say that bounds are
numbers, caps positive and callers finitely many. The conditions in the theorems are those the properties state and
"What the properties say" explains: the flaws of the mirror, the patience of the clients of a workspace, the
moment of a re-post.

*Connector.* `OneDial` alone is not
inductive: that a redial timer never meets a request rests on the status the
timer was armed in, on the request being dropped before the timer is set, and on a
closed connection having neither; `Sound` collects these. `DaemonLink_proofs` shows for
each operator of `DaemonLink` that it keeps the type and that it keeps `Sound`,
most through a relation (`Keeps`) between a link and its successor that leaves the
fields of `Sound` alone or changes them harmlessly; `DaemonConnector_proofs` then has one
step per action. The count of holders and the waiters have lemmas of the same kind,
operator by operator: how many holders an operator adds or takes, and whose waiters it settles. The sum over
callers is a cardinality, hence the finite set.

*Supervisor.* `Sound` is not an invariant here: an idle child's exit marks the daemon asleep while a request
may be pending. What holds instead is `Driven`, that a daemon on the ladder has a request, a redial timer or was
let go of, with `Calm`; `Tracked` says that who runs is the child and that who waits for an exit waits for the child's,
unless a stop and a respawn have overlapped (`overlap`, the case in which `OrphanFree` is refuted); `Still` that a
stop cancels the restart timer; and `FirstLaunch` joins the two before the first dial, when a daemon
that is "spawning" has nothing but its child to find out by.

*Replay.* The argument is about the window that starts with a call's first post. No post or forward of the call is on its way
outside it (`PostsInWindow`), and inside it the daemon's process remembers every call it has run (`DaemonRemembers`) and the edge
which process a call it minds has gone to (`EdgeRemembers`), whatever else they sweep, because what they remember is dated at or
after the first post. `PostsInWindow` is what `RepostedInTime` buys: the last re-post leaves early enough to arrive in time.

*Lock.* `IInv == TypeOK /\ AttemptsLeft /\ PidsRead /\ Owned`. `AttemptsLeft` bounds
the attempt of a process that is still in a call, `PidsRead` says a
remembered pid was that of a process, and `Owned` that while nobody died and no unreadable
file was broken the file belongs to whoever is between creating and
releasing it, and nobody is about to unlink it.

*Mirror.* `named` is a history of which file each generation was given to, one each unless "reused" is among the flaws
(`OneFileEach`). Every chunk under way is of one file that `named` gives to its generation (`Carried`), and so is every byte stored
(`Kept`), at any moment within an ingestion, because a chunk of a newer generation empties the store before it is
appended. The tailer's read loop is a recursive function, of which the prover knows nothing until it is shown to exist: `TurnsExist`
and `SendAllKeeps` do so by least counterexample.
`AckedIsStored` needs a second invariant (`SInv`), for an ack, a watermark and the tailer's own offset may each be older than the
other and of a file that is gone. Each of them is of a file that `named` gives to its generation, and the index never falls behind
that generation (`Vouched`); while its file is the one followed, the index has that many bytes of it and nothing on its way to
the store is of a newer generation (`Honoured`), which is what keeps the store from being emptied under it. That needs to know
whose bytes are in the queue (`Traced`: from the first chunk of the followed file on, all are of the stream's generation), and that no
generation was given to a file before the tailer looked at it (`Unread`). The lemmas go with the code: each operator of
`LogTailer` and `LogStore` has one that says what it keeps of this, and each action one that puts them together (`Assembled` when the store
stays, `StoreMoves` when it does not). `GateMeansStored` adds `Closing`: a stream closed by a quiesce is the whole of a file that is
written no more, and the boundary is its length.

*Lifecycle.* The layers are kept one after the other. *Typed*: no generation, credential or sandbox number passes `MaxOps`,
because each operation makes one of each at most and the operations that are over bound the generation (`Counted`). *Fenced*: the
spawn lock and the launch record are held by what they say (`Guarded`), and nothing in flight is at the deletion gate while the
workspace is not being deleted; `OneWriter` follows for a workspace that is not. The patient layer, one operation at a time: one sandbox (`Single`), the entry is
what the operation read (`Current`), and the credential of the entry's binding is the one the fleet accepts (`Vouched`).
*Reached* says what the operation in flight has heard of the sandboxes, and gives `ReadyIsReachable`.

*Collaboration.* `Core` is the types, that adapters and dials name each other (`Dialled`), rooms and hosts (`Held`) and rooms and
guests (`Seated`). `Wired` says of the frames on their way to a host, and of what the host knows, that a hello says what its guest may do,
that the host knows the same of each guest it has welcomed, and that of the peer whose prompt it may not run it knows that or
nothing. Peer ids begin anew with a room destroyed under its host while the adapter's map of peers does not, so `Wired` promises nothing of what a
host knows of a guest it has not welcomed. `Shown` compares the guests it has welcomed with the session and says what the others may show, `Owned` the waiting dialogs with
the adapters.

Model-checked only:

* Liveness (`PromptsDrain`, `AttachAnswered`, `CallsEnd`, `CatchesUp`, `GateOpens`, `StreamFound`, `DeletionSettles`, `CallbackSettles`): fairness and `ENABLED` are out of the
  prover's reach.
* `BrowserFeed` implementing `EventFeed`, and `WholeRuns` of the clone feed.

## Plan

1. That `BrowserFeed` implements `EventFeed` for buffers and rings of every size (the inductive
   invariant relates what is buffered, ringed and shown), and `WholeRuns` for any number of pairs.
2. Abstract specifications: a durable prefix that `LogMirror` implements where it does, a lock that `FileLock` implements
   under its hypotheses, an at-most-once call that `CommandReplay` implements.
3. New modules: the wake materialization, the deletion verification, browser authentication; roster and activity frames of several tabs.

Runs are merged where they ask the same question of the same instance; findings whose cause is settled make
room for the runs of new modules.
