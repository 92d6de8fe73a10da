----------------------------- MODULE DaemonLink -----------------------------
(***************************************************************************)
(* The fleet's per-daemon state that the connector, the registry and the   *)
(* edge's activity watch share, and the connector's methods as operators   *)
(* on it.  Everything in apps/fleet/connector.ts is keyed by one daemon id *)
(* and runs to completion between two events, so a method is a function    *)
(* from one link record to the next.                                       *)
(*                                                                         *)
(* A link has the registry entry (present, status, endpoint, token), the   *)
(* connector's ConnState (tracked .. idle, retain), its waitReady() calls  *)
(* (waiting, and those already resolved or rejected) and the edge's watch  *)
(* (watching: a browser stream is open; watched: this daemon is retained   *)
(* by the watch) and its wake guard (waking).  An endpoint or a token is   *)
(* the number of the process it belongs to, 0 when there is none.  fetch   *)
(* is the /events request held in state.abort; stale says that a request   *)
(* the connector has let go of has still to report its end.  The edge's    *)
(* frame tap makes the connector track every registered daemon.            *)
(* Sequence numbers, backoff delays and the frame listeners are left out.  *)
(*                                                                         *)
(* An operator whose name says what it forgets (ResumeKeepingRedial,       *)
(* FlushReadyOnly, ...) stands before the operator it is a slip of: the mutants *)
(* of PROJECT.json put it in that operator's place to show that a property *)
(* notices.  Nothing else uses it.                                         *)
(***************************************************************************)
EXTENDS Naturals, FiniteSets

CONSTANT Clients  \* callers of attach and prompt

ASSUME ClientsFinite == IsFiniteSet(Clients)

Statuses == {"spawning", "connecting", "session", "resolving", "ready",
             "asleep", "reconnecting", "error"}

Ladder == [connecting |-> 0, session |-> 1, resolving |-> 2, ready |-> 3]

Fetches == {"none", "pending", "open", "aborted"}

Links ==
  [present: BOOLEAN, status: Statuses, endpoint: Nat, token: Nat,
   tracked: BOOLEAN, fetch: Fetches, to: Nat, tok: Nat, stale: BOOLEAN,
   closed: BOOLEAN, hello: BOOLEAN, sawState: BOOLEAN, sawReady: BOOLEAN,
   reset: BOOLEAN, redial: BOOLEAN, idle: BOOLEAN, retain: Nat,
   watching: BOOLEAN, watched: BOOLEAN, waking: BOOLEAN,
   waiting: SUBSET Clients, resolved: SUBSET Clients, rejected: SUBSET Clients]

NewLink(status, endpoint, token) ==
  [present |-> TRUE, status |-> status, endpoint |-> endpoint, token |-> token,
   tracked |-> TRUE, fetch |-> "none", to |-> 0, tok |-> 0, stale |-> FALSE,
   closed |-> FALSE, hello |-> FALSE, sawState |-> FALSE, sawReady |-> FALSE,
   reset |-> FALSE, redial |-> FALSE, idle |-> FALSE, retain |-> 0,
   watching |-> FALSE, watched |-> FALSE, waking |-> FALSE,
   waiting |-> {}, resolved |-> {}, rejected |-> {}]

Connected(l) == l.tracked /\ ~l.closed /\ l.fetch \in {"open", "aborted"}

Ensure(l) == [l EXCEPT !.tracked = TRUE]

-----------------------------------------------------------------------------
(* retain / release and the idle-drop timer.                               *)

Retain(l) == [l EXCEPT !.tracked = TRUE, !.retain = @ + 1, !.idle = FALSE]

ArmIdleDrop(l) == IF l.retain > 0 THEN l ELSE [l EXCEPT !.idle = TRUE]

ReleaseUncounted(l, n) ==
  IF ~l.tracked \/ n = 0 THEN l ELSE ArmIdleDrop([l EXCEPT !.retain = @ - n])

\* n calls of release() in a row.
ReleaseTimes(l, n) ==
  IF ~l.tracked \/ n = 0 THEN l
  ELSE ArmIdleDrop([l EXCEPT !.retain = IF @ > n THEN @ - n ELSE 0])

Release(l) == ReleaseTimes(l, 1)

(* The edge's onChange: a wake ends when the status leaves "asleep".       *)
EndWake(l) == [l EXCEPT !.waking = @ /\ l.present /\ l.status = "asleep"]

(* Its reconcile of an entry that is not ready: the entry leaves the       *)
(* watched set and is released once.                                       *)
Unwatch(l) == IF l.watched THEN Release([l EXCEPT !.watched = FALSE]) ELSE l

Watch(l) == IF l.watched THEN l ELSE Retain([l EXCEPT !.watched = TRUE])

-----------------------------------------------------------------------------
(* #transition: registry.setStatus, whose onChange runs the edge's         *)
(* reconcile, then the waiters the status settles.  Becoming ready only    *)
(* happens on an open stream, where the reconcile's connect() finds the    *)
(* request in flight and just clears closed and the two timers.            *)

ResumeKeepingRedial(l) == [l EXCEPT !.closed = FALSE, !.idle = FALSE]

Resume(l) == [l EXCEPT !.closed = FALSE, !.redial = FALSE, !.idle = FALSE]

SetReady(l) ==
  LET m == EndWake([l EXCEPT !.status = "ready"])
  IN  IF l.watching THEN Resume(Watch(m)) ELSE Unwatch(m)

SetStatus(l, s) == IF s = "ready" THEN SetReady(l) ELSE Unwatch(EndWake([l EXCEPT !.status = s]))

FlushReadyOnly(l, s) ==
  IF s = "ready" THEN [l EXCEPT !.resolved = @ \cup l.waiting, !.waiting = {}] ELSE l

FlushOnceResolving(l, s) ==
  CASE s \in {"resolving", "ready"} -> [l EXCEPT !.resolved = @ \cup l.waiting, !.waiting = {}]
    [] s = "error" -> [l EXCEPT !.rejected = @ \cup l.waiting, !.waiting = {}]
    [] OTHER -> l

Flush(l, s) ==
  CASE s = "ready" -> [l EXCEPT !.resolved = @ \cup l.waiting, !.waiting = {}]
    [] s = "error" -> [l EXCEPT !.rejected = @ \cup l.waiting, !.waiting = {}]
    [] OTHER -> l

Transition(l, s) == IF l.present THEN Flush(SetStatus(l, s), s) ELSE l

ClimbOutOfError(l, s) ==
  IF l.status \in DOMAIN Ladder /\ Ladder[l.status] > Ladder[s] THEN l ELSE Transition(l, s)

(* #transitionLadder: upgrades only, and never out of "error".             *)
ClimbTo(l, s) ==
  IF \/ l.status = "error"
     \/ l.status \in DOMAIN Ladder /\ Ladder[l.status] > Ladder[s]
  THEN l
  ELSE Transition(l, s)

-----------------------------------------------------------------------------
(* #dial, connect, disconnect, fail, drop.                                 *)

LetGo(l) == [l EXCEPT !.stale = @ \/ l.fetch # "none", !.fetch = "none", !.to = 0, !.tok = 0]

Unheard(l) == [l EXCEPT !.hello = FALSE, !.sawState = FALSE, !.sawReady = FALSE, !.reset = FALSE]

Dial(l) ==
  LET m == Unheard(l)
  IN  IF l.endpoint = 0
      THEN Transition(m, "error")
      ELSE [LetGo(m) EXCEPT !.fetch = "pending", !.to = l.endpoint, !.tok = l.token]

Connect(l) ==
  IF ~l.present THEN l
  ELSE LET m == Resume(Ensure(l))
       IN  IF m.fetch # "none" THEN m ELSE Dial(Transition(m, "connecting"))

Disconnect(l) ==
  IF ~l.tracked THEN l
  ELSE [LetGo(l) EXCEPT !.closed = TRUE, !.redial = FALSE, !.idle = FALSE]

ForgetAll(l) == [l EXCEPT !.waiting = {}]

RejectAll(l) == [l EXCEPT !.rejected = @ \cup l.waiting, !.waiting = {}]

Fail(l) == IF l.tracked THEN RejectAll(Disconnect(l)) ELSE l

\* The ConnState is deleted.
Drop(l) ==
  IF ~l.tracked THEN l
  ELSE [Unheard(RejectAll(Disconnect(l))) EXCEPT
          !.tracked = FALSE, !.closed = FALSE, !.retain = 0]

(* The edge's reconcile after any registry mutation that is not a status   *)
(* transition of the connector.  (The registry.update calls of the frame   *)
(* handlers below trigger it too, where it changes nothing: a stream that  *)
(* is open has neither a redial timer nor, when watched, an idle timer.)   *)
RegistryChanged(l) ==
  LET m == EndWake(l)
  IN  IF m.present /\ m.watching /\ m.status = "ready" THEN Connect(Watch(m)) ELSE Unwatch(m)

(* registry.remove: the entry is gone and the edge lets go of it.          *)
Remove(l) == RegistryChanged([l EXCEPT !.present = FALSE])

-----------------------------------------------------------------------------
(* Boot: what a restarted fleet makes of the persisted entry (bootStatusFor *)
(* and #reconcileBootStatuses); connector and edge start empty.            *)
BootStatus(status, spawned) ==
  IF status \in {"asleep", "error"} THEN status
  ELSE IF spawned \/ status = "spawning" THEN "asleep"
  ELSE "connecting"

Boot(l, spawned) ==
  LET m == NewLink(BootStatus(l.status, spawned), l.endpoint, l.token)
  IN  IF ~l.present THEN [m EXCEPT !.present = FALSE, !.tracked = FALSE]
      ELSE IF m.status = "connecting" THEN Connect(m) ELSE m

-----------------------------------------------------------------------------
(* The stream's frames and its end.                                        *)

OnHello(l, accepted) ==
  IF ~l.present THEN l
  ELSE IF ~accepted
  THEN [Transition(l, "error") EXCEPT !.fetch = "aborted"]
  ELSE ClimbTo([l EXCEPT !.hello = TRUE],
               IF l.sawReady THEN "ready" ELSE IF l.sawState THEN "resolving" ELSE "session")

OnState(l) ==
  IF l.sawState THEN l
  ELSE LET m == [l EXCEPT !.sawState = TRUE]
       IN  IF m.hello THEN ClimbTo(m, "resolving") ELSE m

OnReady(l) ==
  LET m == [l EXCEPT !.sawReady = TRUE]
  IN  ArmIdleDrop(IF m.hello THEN ClimbTo(m, "ready") ELSE m)

Redials(l, clean) ==
  /\ l.present /\ ~l.closed
  /\ l.status # "error"
  /\ clean => l.reset

(* #onStreamEnded up to its onDialFailed hook; ScheduleRedial is the rest. *)
StreamEnded(l, clean) ==
  LET m == [l EXCEPT !.fetch = "none", !.to = 0, !.tok = 0]
  IN  IF ~m.present \/ m.closed \/ m.status = "error" THEN m
      ELSE IF clean /\ ~m.reset THEN Transition(m, "asleep")
      ELSE Transition([m EXCEPT !.reset = @ /\ ~clean], "reconnecting")

ScheduleRedial(l) == IF l.closed THEN l ELSE [l EXCEPT !.redial = TRUE]

-----------------------------------------------------------------------------
(* waitReady(): settles at once, or joins the waiters.                     *)

WaitReady(l, c) ==
  IF l.present /\ l.status = "ready" /\ Connected(l)
  THEN [l EXCEPT !.resolved = @ \cup {c}]
  ELSE IF l.present /\ l.status = "error"
  THEN [l EXCEPT !.rejected = @ \cup {c}]
  ELSE [l EXCEPT !.tracked = TRUE, !.waiting = @ \cup {c}]

Forget(l, c) ==
  [l EXCEPT !.waiting = @ \ {c}, !.resolved = @ \ {c}, !.rejected = @ \ {c}]

-----------------------------------------------------------------------------
(* What the operators keep of a link, in the order the handlers call them: *)
(* a redial timer only while reconnecting and with no request, a closed    *)
(* connection quiet, a request only for a registered and tracked daemon,   *)
(* sent while connecting or reconnecting and with hello_ok forgotten, its  *)
(* stream drivable only after its hello_ok, and an idle timer only without *)
(* holders.                                                                *)
Drivable == {"session", "resolving", "ready"}

Sound(l) ==
  /\ l.redial => l.fetch = "none" /\ l.status = "reconnecting" /\ l.tracked
  /\ l.closed => l.fetch = "none" /\ ~l.redial
  /\ l.fetch # "none" => l.present /\ l.tracked
  /\ l.fetch = "pending" => l.status \in {"connecting", "reconnecting"} /\ ~l.hello
  /\ l.fetch = "open" /\ l.status \in Drivable => l.hello
  /\ l.idle => l.retain = 0
=============================================================================
