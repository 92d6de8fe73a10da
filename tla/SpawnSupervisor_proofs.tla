----------------------- MODULE SpawnSupervisor_proofs -----------------------
(***************************************************************************)
(* The supervisor's safety for any number of callers and of launches and   *)
(* any restart budget.  The inductive invariant has a part for the         *)
(* children (Tracked, Still), one for the link (Driven: on the ladder with *)
(* a request, a redial timer or let go of) and one that joins them until   *)
(* the first dial (FirstLaunch).  The first lemmas say which of the        *)
(* methods change what the parts are about.                                *)
(***************************************************************************)
EXTENDS SpawnSupervisor, DaemonLink_proofs, WellFoundedInduction

-----------------------------------------------------------------------------
(* The least launch not yet made.                                          *)

Below == {ss \in Nat \X Nat : ss[1] < ss[2]}

LEMMA Minimum ==
  ASSUME NEW S \in SUBSET Nat, S # {}
  PROVE  \E x \in S : \A y \in S : x <= y
<1>1. IsWellFoundedOn(Below, Nat)
  BY NatLessThanWellFounded DEF OpToRel, Below
<1>2. PICK x \in S : \A y \in S : <<y, x>> \notin Below
  BY <1>1, WFMin
<1>3. ASSUME NEW y \in S PROVE x <= y
  <2>1. x \in Nat /\ y \in Nat /\ <<y, x>> \in Nat \X Nat
    OBVIOUS
  <2>2. ~(y < x)
    BY <1>2, <2>1 DEF Below
  <2> QED BY <2>1, <2>2
<1> QED BY <1>3

-----------------------------------------------------------------------------
(* The parts of the inductive invariant.                                   *)

Runs(f, p) == Alive(f, p) /\ f.proc[p].attended /\ ~f.proc[p].killed

\* Who runs is the child, and who waits waits for the child.
Tracked(f) ==
  ~f.overlap =>
    /\ \A p \in Procs : Runs(f, p) => p = f.sup.child
    /\ f.sup.restartTimer => f.sup.child = 0
    /\ f.respawn # 0 => /\ f.sup.child = f.respawn /\ f.halt = 0
                        /\ f.sup.manualRespawn /\ ~f.sup.stopping
    /\ f.halt # 0 => f.sup.child = f.halt /\ f.sup.stopping
    /\ f.sup.stopping /\ f.halt = 0 => f.sup.child = 0

Still(f) == f.sup.stopping => ~f.sup.restartTimer

\* A daemon on the ladder is being dialled, or will be, or was let go of.
Driven(l) ==
  l.present /\ ~l.closed /\ l.status \notin {"asleep", "error", "spawning"}
    => l.fetch # "none" \/ l.redial

Undialled(l) == l.status = "spawning" => l.fetch = "none" /\ ~l.redial

\* Before a first dial nothing is asked; no reset is pending between events;
\* and the connector tracks every daemon that has an entry.
Calm(l) == Undialled(l) /\ ~l.reset /\ (l.present => l.tracked)

LinkOK(l) == Driven(l) /\ Calm(l)

Spawning(l) == l.present /\ ~l.closed /\ l.status = "spawning"

\* Before its first dial a daemon has a child to hear from, or a timer to
\* launch the next.
FirstLaunch(f) ==
  Spawning(f.link) =>
    /\ ~f.sup.stopping /\ ~f.sup.manualRespawn /\ f.respawn = 0 /\ f.halt = 0
    /\ IF f.sup.child = 0 THEN f.sup.restartTimer ELSE ~f.sup.exitHandled

Good(f) == f \in Fleets /\ Tracked(f) /\ Still(f) /\ LinkOK(f.link) /\ FirstLaunch(f)

-----------------------------------------------------------------------------
(* Links.                                                                  *)

\* A link that goes on from l: still driven, and not spawning again.
Goes(m, l) ==
  LinkOK(m) /\ (Spawning(m) => Spawning(l))

LEMMA GoesTransitive ==
  ASSUME NEW l, NEW m, NEW n, Goes(m, l), Goes(n, m)
  PROVE  Goes(n, l)
BY DEF Goes, Spawning

\* An operator that leaves the request, the timer and the status alone.
Rides(m, l) ==
  /\ m.present = l.present /\ m.fetch = l.fetch /\ m.closed = l.closed /\ m.redial = l.redial
  /\ m.reset = l.reset /\ m.status = l.status /\ (l.tracked => m.tracked)

LEMMA RidesGoes ==
  ASSUME NEW l, NEW m, LinkOK(l), Rides(m, l)
  PROVE  Goes(m, l)
BY DEF Rides, Goes, LinkOK, Driven, Calm, Undialled, Spawning

LEMMA RidesTransitive ==
  ASSUME NEW l, NEW m, NEW n, Rides(m, l), Rides(n, m)
  PROVE  Rides(n, l)
BY DEF Rides

LEMMA RetainRides == ASSUME NEW l \in Links PROVE Rides(Retain(l), l)
BY DEF Rides, Retain, Links

LEMMA ReleaseRides == ASSUME NEW l \in Links PROVE Rides(Release(l), l)
<1>1. ASSUME NEW n \in Nat, NEW b \in BOOLEAN
      PROVE  Rides([l EXCEPT !.retain = n], l) /\ Rides([l EXCEPT !.retain = n, !.idle = b], l)
  BY DEF Rides, Links
<1>2. ASSUME NEW n \in Nat
      PROVE  Rides(ArmIdleDrop([l EXCEPT !.retain = n]), l)
  <2>1. [[l EXCEPT !.retain = n] EXCEPT !.idle = TRUE] = [l EXCEPT !.retain = n, !.idle = TRUE]
    OBVIOUS
  <2> QED BY <1>1, <2>1 DEF ArmIdleDrop
<1>3. (IF l.retain > 1 THEN l.retain - 1 ELSE 0) \in Nat
  BY DEF Links
<1>4. Rides(l, l)
  BY DEF Rides
<1> QED BY <1>2, <1>3, <1>4 DEF Release, ReleaseTimes

LEMMA EndWakeRides == ASSUME NEW l \in Links PROVE Rides(EndWake(l), l)
BY DEF Rides, EndWake, Links

LEMMA UnwatchRides == ASSUME NEW l \in Links PROVE Rides(Unwatch(l), l)
<1> DEFINE m == [l EXCEPT !.watched = FALSE]
<1>1. m \in Links /\ Rides(m, l) /\ Rides(l, l)
  BY DEF Rides, Links
<1> HIDE DEF m
<1> QED BY <1>1, ReleaseRides, RidesTransitive DEF Unwatch, m

LEMMA ForgetRides == ASSUME NEW l \in Links, NEW c \in Clients PROVE Rides(Forget(l, c), l)
BY DEF Rides, Forget, Links

LEMMA WaitReadyRides == ASSUME NEW l \in Links, NEW c \in Clients PROVE Rides(WaitReady(l, c), l)
BY DEF Rides, WaitReady, Links

LEMMA SetStatusGoes ==
  ASSUME NEW l \in Links, NEW s \in {"asleep", "error"}, LinkOK(l)
  PROVE  SetStatus(l, s) \in Links /\ Goes(SetStatus(l, s), l) /\ SetStatus(l, s).status = s
         /\ SetStatus(l, s).present = l.present
<1> DEFINE m == [l EXCEPT !.status = s]
<1>1. m \in Links /\ m.status = s /\ ~m.reset /\ LinkOK(m) /\ m.present = l.present
  BY DEF Links, Statuses, LinkOK, Driven, Calm, Undialled
<1> HIDE DEF m
<1>2. SetStatus(l, s) = Unwatch(EndWake(m))
  BY DEF SetStatus, m
<1>3. EndWake(m) \in Links /\ Unwatch(EndWake(m)) \in Links /\ Rides(Unwatch(EndWake(m)), m)
  BY <1>1, EndWakeType, UnwatchType, EndWakeRides, UnwatchRides, RidesTransitive
<1>4. Goes(Unwatch(EndWake(m)), m)
  BY <1>1, <1>3, RidesGoes
<1> QED BY <1>1, <1>2, <1>3, <1>4 DEF Goes, Rides, Spawning

\* What a transition other than to ready leaves alone.
Moves(m, l, s) ==
  /\ m.present = l.present /\ m.fetch = l.fetch /\ m.closed = l.closed /\ m.redial = l.redial
  /\ m.reset = l.reset /\ m.status = (IF l.present THEN s ELSE l.status)
  /\ l.tracked => m.tracked

LEMMA TransitionMoves ==
  ASSUME NEW l \in Links, NEW s \in Statuses \ {"ready"}
  PROVE  Transition(l, s) \in Links /\ Moves(Transition(l, s), l, s)
<1> DEFINE m == [l EXCEPT !.status = s]
           u == Unwatch(EndWake(m))
<1>1. m \in Links /\ m.status = s
      /\ m.present = l.present /\ m.fetch = l.fetch /\ m.closed = l.closed /\ m.redial = l.redial
      /\ m.reset = l.reset /\ m.tracked = l.tracked
  BY DEF Links
<1>2. SetStatus(l, s) = u
  BY DEF SetStatus
<1> HIDE DEF m
<1>3. u \in Links /\ Rides(u, m)
  BY <1>1, EndWakeType, UnwatchType, EndWakeRides, UnwatchRides, RidesTransitive
<1> HIDE DEF u
<1>4. Flush(u, s) \in Links /\ Rides(Flush(u, s), u)
  <2>1. [u EXCEPT !.rejected = @ \cup u.waiting, !.waiting = {}] \in Links
        /\ Rides([u EXCEPT !.rejected = @ \cup u.waiting, !.waiting = {}], u)
    BY <1>3 DEF Links, Rides
  <2>2. Rides(u, u)
    BY DEF Rides
  <2> QED BY <1>3, <2>1, <2>2 DEF Flush
<1>5. Moves(Flush(u, s), l, s) \/ ~l.present
  BY <1>1, <1>3, <1>4 DEF Rides, Moves
<1>6. Transition(l, s) = IF l.present THEN Flush(u, s) ELSE l
  BY <1>2 DEF Transition
<1> QED BY <1>4, <1>5, <1>6 DEF Moves

LEMMA LetGoReset == ASSUME NEW l \in Links PROVE LetGo(l).reset = l.reset
<1>1. ASSUME NEW b \in BOOLEAN
      PROVE  [l EXCEPT !.stale = b, !.fetch = "none", !.to = 0, !.tok = 0].reset = l.reset
  BY DEF Links
<1>2. (l.stale \/ l.fetch # "none") \in BOOLEAN
  OBVIOUS
<1> QED BY <1>1, <1>2 DEF LetGo

\* A dial asks the daemon, or finds no endpoint.
LEMMA DialGoes ==
  ASSUME NEW l \in Links, l.present, l.tracked, l.status # "spawning"
  PROVE  /\ Dial(l) \in Links /\ LinkOK(Dial(l)) /\ ~Spawning(Dial(l))
         /\ Dial(l).status \in {l.status, "error"} /\ Dial(l).present
<1> DEFINE m == Unheard(l)
           d == [LetGo(m) EXCEPT !.fetch = "pending", !.to = l.endpoint, !.tok = l.token]
<1>1. m \in Links /\ m.present /\ m.tracked /\ m.status = l.status /\ ~m.reset
  BY DEF Unheard, Links
<1> HIDE DEF m
<1>2. d.fetch = "pending" /\ d.status = l.status /\ ~d.reset /\ d.present /\ d.tracked
  <2>1. LetGo(m).status = m.status /\ LetGo(m).present = m.present /\ LetGo(m).reset = m.reset
        /\ LetGo(m).tracked = m.tracked /\ LetGo(m) \in Links
    BY <1>1, LetGoType, LetGoFields, LetGoReset
  <2> QED BY <1>1, <2>1 DEF Links
<1>3. Transition(m, "error") \in Links /\ Moves(Transition(m, "error"), m, "error")
  BY <1>1, TransitionMoves DEF Statuses
<1>4. Dial(l) = IF l.endpoint = 0 THEN Transition(m, "error") ELSE d
  BY DEF Dial, m
<1>5. LinkOK(d) /\ ~Spawning(d)
  BY <1>2 DEF LinkOK, Driven, Calm, Undialled, Spawning
<1>6. LinkOK(Transition(m, "error")) /\ ~Spawning(Transition(m, "error"))
  BY <1>1, <1>3 DEF LinkOK, Driven, Calm, Undialled, Spawning, Moves
<1> HIDE DEF d
<1> QED BY <1>1, <1>2, <1>3, <1>4, <1>5, <1>6, DialType DEF Moves

LEMMA ConnectGoes ==
  ASSUME NEW l \in Links, LinkOK(l)
  PROVE  /\ Connect(l) \in Links /\ LinkOK(Connect(l)) /\ ~Spawning(Connect(l))
         /\ Connect(l).present = l.present
<1>1. CASE ~l.present
  BY <1>1 DEF Connect, Spawning
<1>2. CASE l.present
  <2> DEFINE e == Ensure(l)
             m == Resume(e)
             t == Transition(m, "connecting")
  <2>0. e \in Links /\ e.present /\ e.status = l.status /\ e.fetch = l.fetch /\ ~e.reset /\ e.tracked
    BY <1>2 DEF Ensure, Links, LinkOK, Calm
  <2> HIDE DEF e
  <2>1. m \in Links /\ m.present /\ m.status = l.status /\ m.fetch = l.fetch /\ ~m.reset
       /\ m.tracked
    BY <2>0 DEF Resume, Links
  <2>2. Connect(l) = IF m.fetch # "none" THEN m ELSE Dial(t)
    BY <1>2 DEF Connect, e
  <2> HIDE DEF m
  <2>3. t \in Links /\ t.present /\ t.tracked /\ t.status = "connecting"
    BY <2>1, TransitionMoves DEF Moves, Statuses
  <2> HIDE DEF t
  <2>4. (LinkOK(m) /\ ~Spawning(m)) \/ m.fetch = "none"
    BY <2>1 DEF LinkOK, Driven, Calm, Undialled, Spawning
  <2> QED BY <1>2, <2>1, <2>2, <2>3, <2>4, DialGoes
<1> QED BY <1>1, <1>2

LEMMA ConnectedGoes ==
  ASSUME NEW l, NEW m, LinkOK(m), ~Spawning(m)
  PROVE  Goes(m, l)
BY DEF Goes

\* What is disconnected is closed, or was never tracked.
LEMMA DisconnectGoes ==
  ASSUME NEW l \in Links, Calm(l)
  PROVE  /\ Disconnect(l) \in Links /\ LinkOK(Disconnect(l)) /\ ~Spawning(Disconnect(l))
         /\ Disconnect(l).present = l.present /\ Disconnect(l).status = l.status
         /\ ~Disconnect(l).present \/ Disconnect(l).closed
<1> DEFINE g == LetGo(l)
           d == [g EXCEPT !.closed = TRUE, !.redial = FALSE, !.idle = FALSE]
<1>1. g \in Links /\ g.reset = l.reset /\ g.status = l.status /\ g.fetch = "none"
      /\ g.present = l.present /\ g.tracked = l.tracked
  BY LetGoType, LetGoFields, LetGoReset
<1> HIDE DEF g
<1>2. d.closed /\ ~d.redial /\ d.fetch = "none" /\ d.reset = l.reset /\ d.status = l.status
      /\ d.present = l.present /\ d.tracked = l.tracked
  BY <1>1 DEF Links
<1>3. Disconnect(l) = IF ~l.tracked THEN l ELSE d
  BY DEF Disconnect, g
<1> HIDE DEF d
<1>4. LinkOK(d) /\ ~Spawning(d)
  BY <1>2 DEF LinkOK, Driven, Calm, Undialled, Spawning
<1>5. ~l.tracked => LinkOK(l) /\ ~Spawning(l) /\ ~l.present
  BY DEF LinkOK, Driven, Calm, Spawning
<1> QED BY <1>2, <1>3, <1>4, <1>5, DisconnectType

\* Only of a ready entry does a registry change make more than bookkeeping.
LEMMA RegistryChangedRides ==
  ASSUME NEW l \in Links, l.status # "ready"
  PROVE  RegistryChanged(l) \in Links /\ Rides(RegistryChanged(l), l)
<1> DEFINE m == EndWake(l)
<1>1. m \in Links /\ Rides(m, l)
  BY EndWakeType, EndWakeRides
<1>2. m.status # "ready"
  BY <1>1 DEF Rides
<1> HIDE DEF m
<1> QED BY <1>1, <1>2, UnwatchType, UnwatchRides, RidesTransitive DEF RegistryChanged, m

LEMMA RegistryChangedGoes ==
  ASSUME NEW l \in Links, LinkOK(l)
  PROVE  /\ RegistryChanged(l) \in Links /\ Goes(RegistryChanged(l), l)
         /\ RegistryChanged(l).present = l.present
<1> DEFINE m == EndWake(l)
           w == Watch(m)
<1>1. m \in Links /\ Rides(m, l) /\ LinkOK(m)
  BY EndWakeType, EndWakeRides, RidesGoes DEF Goes
<1> HIDE DEF m
<1>2. w \in Links /\ LinkOK(w) /\ w.present = m.present
  <2> DEFINE x == [m EXCEPT !.watched = TRUE]
  <2>1. x \in Links /\ Rides(x, m) /\ Rides(m, m)
    BY <1>1 DEF Rides, Links
  <2> HIDE DEF x
  <2>2. Rides(w, m)
    BY <2>1, RetainRides, RidesTransitive DEF Watch, x
  <2> QED BY <1>1, <2>2, WatchType, RidesGoes DEF Goes, Rides
<1> HIDE DEF w
<1>3. Connect(w) \in Links /\ Goes(Connect(w), l) /\ Connect(w).present = w.present
  BY <1>2, ConnectGoes, ConnectedGoes
<1>4. Unwatch(m) \in Links /\ Goes(Unwatch(m), l) /\ Unwatch(m).present = m.present
  BY <1>1, UnwatchType, UnwatchRides, RidesTransitive, RidesGoes DEF Rides
<1> QED BY <1>1, <1>2, <1>3, <1>4 DEF RegistryChanged, m, w, Rides

LEMMA RemoveGoes ==
  ASSUME NEW l \in Links, LinkOK(l)
  PROVE  Remove(l) \in Links /\ LinkOK(Remove(l)) /\ ~Remove(l).present
<1> DEFINE m == [l EXCEPT !.present = FALSE]
<1>1. m \in Links /\ LinkOK(m) /\ ~m.present
  BY DEF Links, LinkOK, Driven, Calm, Undialled
<1> HIDE DEF m
<1> QED BY <1>1, RegistryChangedGoes DEF Remove, Goes, m

LEMMA BootGoes ==
  ASSUME NEW l \in Links
  PROVE  /\ Boot(l, TRUE) \in Links /\ LinkOK(Boot(l, TRUE)) /\ ~Spawning(Boot(l, TRUE))
<1> DEFINE b == BootStatus(l.status, TRUE)
           m == NewLink(b, l.endpoint, l.token)
           a == [m EXCEPT !.present = FALSE, !.tracked = FALSE]
<1>1. b \in {"asleep", "error"} /\ l.endpoint \in Nat /\ l.token \in Nat
  BY DEF BootStatus, Links
<1> HIDE DEF b
<1>2. m \in Links
  BY <1>1, NewLinkType DEF Statuses
<1>3. m.status = b /\ m.fetch = "none" /\ ~m.redial /\ ~m.reset /\ m.tracked
  BY DEF NewLink
<1>4. LinkOK(m) /\ ~Spawning(m)
  BY <1>1, <1>3 DEF LinkOK, Driven, Calm, Undialled, Spawning
<1> HIDE DEF m
<1>5. a.status = b /\ a.fetch = "none" /\ ~a.redial /\ ~a.reset /\ ~a.present
  BY <1>2, <1>3 DEF Links
<1>6. LinkOK(a) /\ ~Spawning(a)
  BY <1>1, <1>5 DEF LinkOK, Driven, Calm, Undialled, Spawning
<1> HIDE DEF a
<1>7. Boot(l, TRUE) = IF ~l.present THEN a ELSE IF m.status = "connecting" THEN Connect(m) ELSE m
  BY DEF Boot, a, m, b
<1> QED BY <1>1, <1>3, <1>4, <1>6, <1>7, BootType

\* A link whose request is held is driven.
LEMMA HeldRequest ==
  ASSUME NEW l, l.fetch # "none", l.status # "spawning", ~l.reset, l.present => l.tracked
  PROVE  LinkOK(l) /\ ~Spawning(l)
BY DEF LinkOK, Driven, Calm, Undialled, Spawning

LEMMA ClimbToGoes ==
  ASSUME NEW l \in Links, NEW s \in Statuses \ {"spawning"}, LinkOK(l), l.fetch # "none"
  PROVE  /\ ClimbTo(l, s) \in Links /\ LinkOK(ClimbTo(l, s)) /\ ~Spawning(ClimbTo(l, s))
         /\ ClimbTo(l, s).present = l.present /\ ClimbTo(l, s).fetch = l.fetch
         /\ ClimbTo(l, s).status # "spawning" /\ ~ClimbTo(l, s).reset
         /\ ClimbTo(l, s).present => ClimbTo(l, s).tracked
<1>1. ClimbTo(l, s) \in Links /\ Keeps(ClimbTo(l, s), l) /\ ClimbTo(l, s).status \in {s, l.status}
  BY ClimbToType, ClimbToKeeps
<1>2. l.status # "spawning" /\ ~l.reset /\ (l.present => l.tracked)
  BY DEF LinkOK, Calm, Undialled
<1> QED BY <1>1, <1>2, HeldRequest DEF Keeps

LEMMA HelloGoes ==
  ASSUME NEW l \in Links, LinkOK(l), l.fetch # "none"
  PROVE  /\ OnHello(l, TRUE) \in Links /\ LinkOK(OnHello(l, TRUE)) /\ ~Spawning(OnHello(l, TRUE))
         /\ OnHello(l, TRUE).present = l.present
<1> DEFINE m == [l EXCEPT !.hello = TRUE]
           s == IF l.sawReady THEN "ready" ELSE IF l.sawState THEN "resolving" ELSE "session"
<1>1. m \in Links /\ Rides(m, l) /\ m.fetch # "none" /\ m.present = l.present
  BY DEF Rides, Links
<1>2. LinkOK(m)
  BY <1>1, RidesGoes DEF Goes
<1>3. OnHello(l, TRUE) = IF ~l.present THEN l ELSE ClimbTo(m, s)
  BY DEF OnHello
<1>4. s \in Statuses \ {"spawning"}
  BY DEF Statuses
<1> HIDE DEF m, s
<1>5. CASE ~l.present
  BY <1>3, <1>5 DEF Spawning
<1>6. CASE l.present
  BY <1>1, <1>2, <1>3, <1>4, <1>6, ClimbToGoes
<1> QED BY <1>5, <1>6

LEMMA ReadyGoes ==
  ASSUME NEW l \in Links, LinkOK(l), l.fetch # "none"
  PROVE  /\ OnReady(l) \in Links /\ LinkOK(OnReady(l)) /\ ~Spawning(OnReady(l))
         /\ OnReady(l).present = l.present
<1> DEFINE m == [l EXCEPT !.sawReady = TRUE]
           k == IF m.hello THEN ClimbTo(m, "ready") ELSE m
<1>1. m \in Links /\ Rides(m, l) /\ m.fetch # "none" /\ m.present = l.present
      /\ m.status # "spawning" /\ ~m.reset /\ (m.present => m.tracked)
  BY DEF Rides, Links, LinkOK, Calm, Undialled
<1>2. LinkOK(m)
  BY <1>1, RidesGoes DEF Goes
<1> HIDE DEF m
<1>3. /\ k \in Links /\ k.present = l.present /\ k.fetch # "none" /\ k.status # "spawning" /\ ~k.reset
      /\ k.present => k.tracked
  BY <1>1, <1>2, ClimbToGoes DEF Statuses
<1> HIDE DEF k
<1>4. OnReady(l) = ArmIdleDrop(k)
  BY DEF OnReady, k, m
<1>5. ArmIdleDrop(k) \in Links /\ Keeps(ArmIdleDrop(k), k) /\ ArmIdleDrop(k).status = k.status
  BY <1>3, ArmIdleDropType, ArmIdleDropKeeps
<1> QED BY <1>3, <1>4, <1>5, HeldRequest DEF Keeps

\* A stream that ends leaves the ladder, is closed, or is to be dialled again.
LEMMA StreamEndedGoes ==
  ASSUME NEW l \in Links, NEW clean \in BOOLEAN, LinkOK(l)
  PROVE  /\ StreamEnded(l, clean) \in Links /\ Calm(StreamEnded(l, clean))
         /\ StreamEnded(l, clean).present = l.present
         /\ IF Redials(l, clean) THEN StreamEnded(l, clean).status = "reconnecting"
            ELSE LinkOK(StreamEnded(l, clean))
         /\ Spawning(StreamEnded(l, clean)) => Spawning(l)
<1> DEFINE m == [l EXCEPT !.fetch = "none", !.to = 0, !.tok = 0]
           r == [m EXCEPT !.reset = @ /\ ~clean]
           a == Transition(m, "asleep")
           t == Transition(r, "reconnecting")
<1>1. /\ m \in Links /\ m.fetch = "none" /\ m.reset = l.reset /\ m.present = l.present
      /\ m.status = l.status /\ m.closed = l.closed /\ m.redial = l.redial
      /\ m.tracked = l.tracked
  BY DEF Links, Fetches
<1>2. StreamEnded(l, clean) = IF ~m.present \/ m.closed \/ m.status = "error" THEN m
                              ELSE IF clean /\ ~m.reset THEN a ELSE t
  BY DEF StreamEnded
<1>3. Redials(l, clean) = (m.present /\ ~m.closed /\ m.status # "error" /\ ~clean)
  BY <1>1 DEF Redials, LinkOK, Calm
<1> HIDE DEF m
<1>4. r \in Links /\ r.present = m.present /\ ~r.reset /\ r.tracked = m.tracked
  BY <1>1 DEF Links, LinkOK, Calm
<1> HIDE DEF r
<1>5. a \in Links /\ Moves(a, m, "asleep") /\ t \in Links /\ Moves(t, r, "reconnecting")
  BY <1>1, <1>4, TransitionMoves DEF Statuses
<1> HIDE DEF a, t
<1>6. CASE ~m.present \/ m.closed \/ m.status = "error"
  BY <1>1, <1>2, <1>3, <1>6 DEF LinkOK, Driven, Calm, Undialled, Spawning
<1>7. CASE m.present /\ ~m.closed /\ m.status # "error" /\ clean
  BY <1>1, <1>2, <1>3, <1>5, <1>7 DEF LinkOK, Driven, Calm, Undialled, Spawning, Moves
<1>8. CASE m.present /\ ~m.closed /\ m.status # "error" /\ ~clean
  BY <1>1, <1>2, <1>3, <1>4, <1>5, <1>8 DEF LinkOK, Calm, Undialled, Spawning, Moves
<1> QED BY <1>6, <1>7, <1>8

LEMMA ScheduleRedialGoes ==
  ASSUME NEW l \in Links, Calm(l), l.status # "spawning"
  PROVE  /\ ScheduleRedial(l) \in Links /\ LinkOK(ScheduleRedial(l)) /\ ~Spawning(ScheduleRedial(l))
<1> DEFINE m == [l EXCEPT !.redial = TRUE]
<1>1. m.redial /\ m.status = l.status /\ m.reset = l.reset /\ m.present = l.present
      /\ m.tracked = l.tracked
  BY DEF Links
<1> HIDE DEF m
<1> QED BY <1>1, ScheduleRedialType DEF ScheduleRedial, m, LinkOK, Driven, Calm, Undialled, Spawning

LEMMA WaitAllGoes ==
  ASSUME NEW l \in Links, NEW cs \in SUBSET Clients
  PROVE  WaitAll(l, cs) \in Links /\ Rides(WaitAll(l, cs), l)
<1>1. ASSUME NEW b \in BOOLEAN, NEW ws \in SUBSET Clients, NEW m,
             m = [l EXCEPT !.waiting = ws, !.tracked = b], l.tracked => b
      PROVE  m \in Links /\ Rides(m, l)
  BY <1>1 DEF Links, Rides
<1>2. (l.tracked \/ cs # {}) \in BOOLEAN /\ l.waiting \cup cs \in SUBSET Clients
  BY DEF Links
<1>3. [l EXCEPT !.rejected = @ \cup cs] \in Links /\ Rides([l EXCEPT !.rejected = @ \cup cs], l)
  BY DEF Links, Rides
<1> QED BY <1>1, <1>2, <1>3 DEF WaitAll

LEMMA FailGoes ==
  ASSUME NEW l \in Links, LinkOK(l)
  PROVE  Fail(l) \in Links /\ Goes(Fail(l), l)
<1> DEFINE d == Disconnect(l)
<1>1. d \in Links /\ Goes(d, l)
  BY DisconnectGoes DEF LinkOK, Goes
<1> HIDE DEF d
<1>2. RejectAll(d) \in Links /\ Rides(RejectAll(d), d)
  BY <1>1, RejectAllType DEF RejectAll, Rides, Links
<1>3. Goes(l, l)
  BY DEF Goes
<1> QED BY <1>1, <1>2, <1>3, RidesGoes, GoesTransitive DEF Fail, d, Goes

-----------------------------------------------------------------------------
(* The fleet.                                                              *)

\* A step that launches, adopts and restarts nothing.
SameChild(g, f) ==
  /\ g.sup.child = f.sup.child /\ g.sup.stopping = f.sup.stopping
  /\ g.sup.manualRespawn = f.sup.manualRespawn /\ g.sup.restartTimer = f.sup.restartTimer
  /\ g.respawn = f.respawn /\ g.halt = f.halt /\ g.overlap = f.overlap
  /\ \A p \in Procs : Runs(g, p) => Runs(f, p)

LEMMA SameChildTransitive ==
  ASSUME NEW f, NEW g, NEW h, SameChild(g, f), SameChild(h, g)
  PROVE  SameChild(h, f)
BY DEF SameChild

LEMMA GoodAgain ==
  ASSUME NEW f, NEW g \in Fleets, Good(f), SameChild(g, f), Goes(g.link, f.link),
         (g.sup.exitHandled => f.sup.exitHandled) \/ ~Spawning(g.link)
  PROVE  Good(g)
<1>1. Tracked(g)
  BY DEF Good, Tracked, SameChild
<1>2. Still(g)
  BY DEF Good, Still, SameChild
<1>3. FirstLaunch(g)
  BY DEF Good, FirstLaunch, SameChild, Goes
<1> QED BY <1>1, <1>2, <1>3 DEF Good, Goes

LEMMA WithLink ==
  ASSUME NEW f \in Fleets, NEW l \in Links, NEW g, g = [f EXCEPT !.link = l]
  PROVE  /\ g \in Fleets /\ g.link = l /\ g.sup = f.sup /\ g.proc = f.proc
         /\ g.respawn = f.respawn /\ g.halt = f.halt /\ g.removing = f.removing
         /\ g.overlap = f.overlap /\ SameChild(g, f)
<1>1. /\ g \in Fleets /\ g.link = l /\ g.sup = f.sup /\ g.proc = f.proc
      /\ g.respawn = f.respawn /\ g.halt = f.halt /\ g.removing = f.removing
      /\ g.overlap = f.overlap
  BY DEF Fleets
<1> QED BY <1>1 DEF SameChild, Runs, Alive

LEMMA LinkGoes ==
  ASSUME NEW f, NEW l \in Links, Good(f), Goes(l, f.link)
  PROVE  Good([f EXCEPT !.link = l])
BY WithLink, GoodAgain DEF Good

LEMMA WithSup ==
  ASSUME NEW f \in Fleets, NEW s \in ChildStates, NEW g, g = [f EXCEPT !.sup = s]
  PROVE  /\ g \in Fleets /\ g.link = f.link /\ g.sup = s /\ g.proc = f.proc
         /\ g.respawn = f.respawn /\ g.halt = f.halt /\ g.removing = f.removing
         /\ g.overlap = f.overlap
BY DEF Fleets

LEMMA WithProc ==
  ASSUME NEW f \in Fleets, NEW p \in Procs, NEW r \in Processes, NEW g, g = [f EXCEPT !.proc[p] = r]
  PROVE  /\ g \in Fleets /\ g.link = f.link /\ g.sup = f.sup
         /\ g.proc[p] = r
         /\ \A q \in Procs : q # p => g.proc[q] = f.proc[q]
         /\ g.respawn = f.respawn /\ g.halt = f.halt /\ g.removing = f.removing
         /\ g.overlap = f.overlap
BY DEF Fleets

LEMMA MarkGood ==
  ASSUME NEW f \in Fleets, NEW s \in {"asleep", "error"}, LinkOK(f.link)
  PROVE  /\ Mark(f, s) \in Fleets /\ Goes(Mark(f, s).link, f.link) /\ ~Spawning(Mark(f, s).link)
         /\ Mark(f, s).sup = f.sup /\ Mark(f, s).proc = f.proc
         /\ Mark(f, s).respawn = f.respawn /\ Mark(f, s).halt = f.halt
         /\ Mark(f, s).removing = f.removing /\ Mark(f, s).overlap = f.overlap
         /\ Mark(f, s).link.present = f.link.present
         /\ Mark(f, s).link.status # "spawning" \/ ~f.link.present
         /\ SameChild(Mark(f, s), f)
<1>1. f.link \in Links
  BY DEF Fleets
<1>2. CASE ~f.link.present
  BY <1>2 DEF Mark, Goes, Spawning, SameChild
<1>3. CASE f.link.present
  <2> DEFINE l == SetStatus(f.link, s)
  <2>1. l \in Links /\ Goes(l, f.link) /\ l.status = s /\ l.present = f.link.present
    BY <1>1, SetStatusGoes
  <2>2. Mark(f, s) = [f EXCEPT !.link = l]
    BY <1>3 DEF Mark
  <2> HIDE DEF l
  <2> QED BY <2>1, <2>2, WithLink DEF Spawning
<1> QED BY <1>2, <1>3

LEMMA KillGood ==
  ASSUME NEW f \in Fleets, NEW p \in Procs
  PROVE  /\ Kill(f, p) \in Fleets /\ Kill(f, p).link = f.link /\ Kill(f, p).sup = f.sup
         /\ Kill(f, p).respawn = f.respawn /\ Kill(f, p).halt = f.halt
         /\ Kill(f, p).removing = f.removing
         /\ Kill(f, p).overlap = f.overlap /\ SameChild(Kill(f, p), f)
<1> DEFINE r == [f.proc[p] EXCEPT !.killed = TRUE]
           g == [f EXCEPT !.proc[p] = r]
<1>1. r \in Processes /\ r.killed
  BY DEF Fleets, Processes
<1> HIDE DEF r
<1>2. g = [f EXCEPT !.proc[p] = r]
  OBVIOUS
<1>3. Kill(f, p) = IF Alive(f, p) THEN g ELSE f
  BY DEF Kill, r
<1> HIDE DEF g
<1>4. /\ g \in Fleets /\ g.link = f.link /\ g.sup = f.sup
      /\ g.proc[p] = r
      /\ \A q \in Procs : q # p => g.proc[q] = f.proc[q]
      /\ g.respawn = f.respawn /\ g.halt = f.halt /\ g.removing = f.removing /\ g.overlap = f.overlap
  <2>1. g.proc[p] = r
    BY <1>2 DEF Fleets
  <2> QED BY <1>1, <1>2, <2>1, WithProc
<1>5. SameChild(g, f) /\ SameChild(f, f)
  BY <1>1, <1>4 DEF SameChild, Runs, Alive
<1> QED BY <1>3, <1>4, <1>5

LEMMA ClearEndpointTimerGood ==
  ASSUME NEW f \in Fleets
  PROVE  LET g == ClearEndpointTimer(f)
         IN  /\ g \in Fleets /\ g.link = f.link /\ g.respawn = f.respawn /\ g.halt = f.halt
             /\ g.removing = f.removing
             /\ g.overlap = f.overlap /\ SameChild(g, f) /\ g.sup.exitHandled = f.sup.exitHandled
             /\ g.sup.resolved = f.sup.resolved
<1>1. CASE f.sup.timer = 0
  BY <1>1 DEF ClearEndpointTimer, SameChild
<1>2. CASE f.sup.timer # 0
  <2> DEFINE p == f.sup.timer
             r == [f.proc[p] EXCEPT !.timer = FALSE]
             x == [f.sup EXCEPT !.timer = 0]
             h == [f EXCEPT !.proc[p] = r]
             g == [h EXCEPT !.sup = x]
  <2>1. p \in Procs /\ f.proc[p] \in Processes /\ f.sup \in ChildStates
    BY <1>2 DEF Fleets, ChildStates
  <2>2. r \in Processes /\ r.phase = f.proc[p].phase /\ r.attended = f.proc[p].attended
        /\ r.killed = f.proc[p].killed
    BY <2>1 DEF Processes
  <2>3. /\ x \in ChildStates /\ x.child = f.sup.child /\ x.stopping = f.sup.stopping
        /\ x.manualRespawn = f.sup.manualRespawn /\ x.restartTimer = f.sup.restartTimer
        /\ x.exitHandled = f.sup.exitHandled /\ x.resolved = f.sup.resolved
    BY <2>1 DEF ChildStates
  <2>4. ClearEndpointTimer(f) = g
    BY <1>2 DEF ClearEndpointTimer, Fleets
  <2> HIDE DEF p, r, x
  <2>5. /\ h \in Fleets /\ h.link = f.link /\ h.proc[p] = r /\ h.removing = f.removing
        /\ \A q \in Procs : q # p => h.proc[q] = f.proc[q]
        /\ h.respawn = f.respawn /\ h.halt = f.halt /\ h.overlap = f.overlap
    BY <2>1, <2>2, WithProc
  <2> HIDE DEF h
  <2>6. /\ g \in Fleets /\ g.link = h.link /\ g.sup = x /\ g.proc = h.proc /\ g.removing = h.removing
        /\ g.respawn = h.respawn /\ g.halt = h.halt /\ g.overlap = h.overlap
    BY <2>3, <2>5, WithSup
  <2> HIDE DEF g
  <2>7. SameChild(g, f)
    BY <2>2, <2>3, <2>5, <2>6 DEF SameChild, Runs, Alive
  <2> QED BY <2>3, <2>4, <2>5, <2>6, <2>7
<1> QED BY <1>1, <1>2

-----------------------------------------------------------------------------
(* Launches.                                                               *)

\* Nothing runs, and nothing else is about to launch or to stop.
Clear(f) ==
  ~f.overlap =>
    /\ \A p \in Procs : ~Runs(f, p)
    /\ f.respawn = 0 /\ f.halt = 0 /\ ~f.sup.restartTimer /\ ~f.sup.stopping

\* The child state that a launch of n leaves.
Adopts(s, t, n) ==
  /\ s.child = n /\ s.stopping = t.stopping /\ s.restartTimer = t.restartTimer
  /\ ~s.manualRespawn /\ ~s.exitHandled

LEMMA AdoptType ==
  ASSUME NEW s \in ChildStates, NEW n \in Procs
  PROVE  Adopt(s, n) \in ChildStates /\ Adopts(Adopt(s, n), s, n)
BY DEF Adopt, Adopts, ChildStates

\* Whatever the new child's process and the link become, if the link goes on.
LEMMA Adopted ==
  ASSUME NEW f \in Fleets, NEW g \in Fleets, NEW n \in Procs,
         Still(f), Clear(f), Spawning(f.link) => ~f.sup.stopping /\ f.respawn = 0 /\ f.halt = 0,
         Adopts(g.sup, f.sup, n), Goes(g.link, f.link),
         \A q \in Procs : q # n => g.proc[q] = f.proc[q],
         g.respawn = f.respawn, g.halt = f.halt, g.overlap = f.overlap
  PROVE  Good(g)
<1>1. \A p \in Procs : Runs(g, p) => Runs(f, p) \/ p = n
  BY DEF Runs, Alive
<1>2. Tracked(g)
  BY <1>1 DEF Tracked, Clear, Adopts
<1>3. Still(g)
  BY DEF Still, Adopts
<1>4. n # 0
  BY BoundsAreNats DEF Procs
<1>5. FirstLaunch(g)
  BY <1>4 DEF FirstLaunch, Goes, Adopts
<1> QED BY <1>2, <1>3, <1>5 DEF Good, Goes

LEMMA NextLaunch ==
  ASSUME NEW f \in Fleets, Unlaunched(f) # {}
  PROVE  LET n == CHOOSE p \in Unlaunched(f) : \A q \in Unlaunched(f) : p <= q
         IN  n \in Procs /\ f.proc[n].phase = "unborn"
<1>1. Unlaunched(f) \in SUBSET Nat
  BY BoundsAreNats DEF Unlaunched, Procs
<1>2. \E p \in Unlaunched(f) : \A q \in Unlaunched(f) : p <= q
  BY <1>1, Minimum
<1> DEFINE n == CHOOSE p \in Unlaunched(f) : \A q \in Unlaunched(f) : p <= q
<1>3. n \in Unlaunched(f)
  BY <1>2
<1> HIDE DEF n
<1>4. n \in Procs /\ f.proc[n].phase = "unborn"
  BY <1>3 DEF Unlaunched
<1> QED BY <1>4 DEF n

LEMMA LaunchGood ==
  ASSUME NEW f \in Fleets, LinkOK(f.link), Still(f), Clear(f),
         Spawning(f.link) => ~f.sup.stopping /\ f.respawn = 0 /\ f.halt = 0
  PROVE  /\ Good(Launch(f)) /\ Launch(f).link.present = f.link.present
         /\ f.link.status # "ready" => Launch(f).link.status \in {f.link.status, "error"}
         /\ Launch(f).overlap = f.overlap
<1> DEFINE n == CHOOSE p \in Unlaunched(f) : \A q \in Unlaunched(f) : p <= q
           a == Adopt(f.sup, n)
           r == [f.proc[n] EXCEPT !.phase = "booting"]
           m == [f EXCEPT !.sup = a, !.proc[n] = r]
<1>0. f.link \in Links /\ f.sup \in ChildStates
  BY DEF Fleets
<1>1. CASE Unlaunched(f) = {}
  <2> DEFINE k == Mark(f, "error")
             g == [k EXCEPT !.sup = NoChild]
  <2>1. Launch(f) = g
    BY <1>1 DEF Launch
  <2>2. /\ k \in Fleets /\ Goes(k.link, f.link) /\ ~Spawning(k.link)
        /\ k.link.present = f.link.present /\ k.link.status \in {f.link.status, "error"}
        /\ k.respawn = f.respawn /\ k.halt = f.halt /\ k.overlap = f.overlap /\ k.removing = f.removing
        /\ k.proc = f.proc
    <3>1. f.link.present => SetStatus(f.link, "error").status = "error"
      BY <1>0, SetStatusGoes
    <3>2. k.link.status \in {f.link.status, "error"}
      BY <3>1, <1>0 DEF Mark, Fleets
    <3> QED BY <3>2, MarkGood
  <2> HIDE DEF k
  <2>3. NoChild \in ChildStates
    BY BoundsAreNats DEF NoChild, ChildStates
  <2>4. /\ g \in Fleets /\ g.link = k.link /\ g.sup = NoChild /\ g.proc = k.proc
        /\ g.respawn = k.respawn /\ g.halt = k.halt /\ g.removing = k.removing
        /\ g.overlap = k.overlap
    BY <2>2, <2>3, WithSup
  <2> HIDE DEF g
  <2>5. Tracked(g) /\ Still(g) /\ FirstLaunch(g)
    BY <2>2, <2>4 DEF Tracked, Still, FirstLaunch, Clear, Runs, Alive, NoChild
  <2> QED BY <2>1, <2>2, <2>4, <2>5 DEF Good, Goes
<1>2. CASE Unlaunched(f) # {}
  <2>1. n \in Procs /\ f.proc[n].phase = "unborn"
    BY <1>2, NextLaunch
  <2>2. Launch(f) = IF ~f.link.present THEN m
                    ELSE [m EXCEPT !.proc[n].timer = TRUE, !.proc[n].attended = TRUE, !.sup.timer = n,
                                   !.link = RegistryChanged([@ EXCEPT !.token = n])]
    BY <1>2 DEF Launch
  <2> HIDE DEF n
  <2>3. a \in ChildStates /\ Adopts(a, f.sup, n)
    BY <1>0, <2>1, AdoptType
  <2> HIDE DEF a
  <2>4. r \in Processes
    BY <2>1 DEF Fleets, Processes, Phases
  <2> HIDE DEF r
  <2> DEFINE e == [f EXCEPT !.sup = a]
  <2>5. /\ e \in Fleets /\ e.link = f.link /\ e.sup = a /\ e.proc = f.proc
        /\ e.respawn = f.respawn /\ e.halt = f.halt /\ e.removing = f.removing
        /\ e.overlap = f.overlap
    BY <2>3, WithSup
  <2>6. m = [e EXCEPT !.proc[n] = r]
    BY <2>1 DEF Fleets
  <2> HIDE DEF e, m
  <2>7. /\ m \in Fleets /\ m.link = f.link /\ m.sup = a /\ m.proc[n] = r
        /\ \A q \in Procs : q # n => m.proc[q] = f.proc[q]
        /\ m.respawn = f.respawn /\ m.halt = f.halt /\ m.removing = f.removing
        /\ m.overlap = f.overlap
    <3>1. m.proc[n] = r
      BY <2>1, <2>5, <2>6 DEF Fleets
    <3> QED BY <2>1, <2>4, <2>5, <2>6, <3>1, WithProc
  <2>8. CASE ~f.link.present
    <3>1. Goes(m.link, f.link)
      BY <2>7 DEF Goes
    <3> QED BY <2>1, <2>2, <2>3, <2>7, <2>8, <3>1, Adopted
  <2>9. CASE f.link.present
    <3> DEFINE b == [a EXCEPT !.timer = n]
               t == [r EXCEPT !.timer = TRUE, !.attended = TRUE]
               x == [f.link EXCEPT !.token = n]
               l == RegistryChanged(x)
               h == [m EXCEPT !.sup = b]
               k == [h EXCEPT !.proc[n] = t]
               g == [k EXCEPT !.link = l]
    <3>1. Launch(f) = g
      <4> DEFINE q == [m EXCEPT !.proc[n].timer = TRUE, !.proc[n].attended = TRUE, !.sup.timer = n,
                                   !.link = RegistryChanged([@ EXCEPT !.token = n])]
      <4>1. q = [m EXCEPT !.proc = [m.proc EXCEPT ![n] = t], !.sup = b, !.link = l]
        BY <2>1, <2>7 DEF Fleets
      <4>2. g = [m EXCEPT !.proc = [m.proc EXCEPT ![n] = t], !.sup = b, !.link = l]
        BY <2>1, <2>7 DEF Fleets
      <4> QED BY <2>2, <2>9, <4>1, <4>2
    <3>2. b \in ChildStates /\ Adopts(b, f.sup, n)
      BY <2>1, <2>3 DEF ChildStates, Adopts
    <3>3. t \in Processes
      BY <2>4 DEF Processes
    <3>4. x \in Links /\ Rides(x, f.link)
      <4>1. n \in Nat
        BY <2>1, BoundsAreNats DEF Procs
      <4> QED BY <1>0, <4>1 DEF Links, Rides
    <3> HIDE DEF x
    <3>5. l \in Links /\ Goes(l, f.link) /\ l.present = f.link.present
      BY <1>0, <3>4, RidesGoes, RegistryChangedGoes, GoesTransitive DEF Goes, Rides
    <3>6. f.link.status # "ready" => l.status = f.link.status
      BY <1>0, <3>4, RegistryChangedRides DEF Rides
    <3> HIDE DEF b, t, l
    <3>7. /\ h \in Fleets /\ h.link = m.link /\ h.sup = b /\ h.proc = m.proc
          /\ h.respawn = m.respawn /\ h.halt = m.halt /\ h.removing = m.removing
          /\ h.overlap = m.overlap
      BY <2>7, <3>2, WithSup
    <3> HIDE DEF h
    <3>8. /\ k \in Fleets /\ k.link = f.link /\ k.sup = b
          /\ \A q \in Procs : q # n => k.proc[q] = f.proc[q]
          /\ k.respawn = f.respawn /\ k.halt = f.halt /\ k.removing = f.removing
          /\ k.overlap = f.overlap
      BY <2>1, <2>7, <3>3, <3>7, WithProc
    <3> HIDE DEF k
    <3>9. /\ g \in Fleets /\ g.link = l /\ g.sup = b /\ g.proc = k.proc
          /\ g.respawn = f.respawn /\ g.halt = f.halt /\ g.removing = f.removing
          /\ g.overlap = f.overlap
      BY <3>5, <3>8, WithLink
    <3> HIDE DEF g
    <3>10. Good(g)
      BY <2>1, <3>2, <3>5, <3>8, <3>9, Adopted
    <3> QED BY <3>1, <3>5, <3>6, <3>9, <3>10
  <2> QED BY <2>8, <2>9
<1> QED BY <1>1, <1>2

-----------------------------------------------------------------------------
(* Respawns and stops.                                                     *)

LEMMA RespawnGood ==
  ASSUME NEW f \in Fleets, Tracked(f), Calm(f.link), f.respawn = 0
  PROVE  /\ Good(Respawn(f)) /\ Respawn(f).link.present = f.link.present
         /\ f.link.status # "ready" => Respawn(f).link.status \in {f.link.status, "error"}
<1> DEFINE x == [f.sup EXCEPT !.restartTimer = FALSE, !.stopping = FALSE, !.manualRespawn = TRUE]
           l == Disconnect(f.link)
           h == [f EXCEPT !.sup = x]
           m == [h EXCEPT !.link = l]
           k == Kill(m, m.sup.child)
           o == k.overlap \/ m.halt # 0
           g == [k EXCEPT !.respawn = m.sup.child, !.overlap = o]
<1>1. f.link \in Links /\ f.sup \in ChildStates
  BY DEF Fleets
<1>2. /\ x \in ChildStates /\ x.child = f.sup.child /\ ~x.restartTimer /\ ~x.stopping
      /\ x.manualRespawn
  BY <1>1 DEF ChildStates
<1>3. /\ l \in Links /\ LinkOK(l) /\ ~Spawning(l) /\ l.present = f.link.present
      /\ l.status = f.link.status
  BY <1>1, DisconnectGoes
<1>4. m = [f EXCEPT !.sup.restartTimer = FALSE, !.sup.stopping = FALSE,
                    !.sup.manualRespawn = TRUE, !.link = Disconnect(@)]
  <2>1. [f EXCEPT !.sup.restartTimer = FALSE, !.sup.stopping = FALSE,
                  !.sup.manualRespawn = TRUE, !.link = Disconnect(@)]
        = [f EXCEPT !.sup = x, !.link = l]
    BY DEF Fleets
  <2>2. m = [f EXCEPT !.sup = x, !.link = l]
    BY DEF Fleets
  <2> QED BY <2>1, <2>2
<1> HIDE DEF x, l
<1>5. /\ h \in Fleets /\ h.link = f.link /\ h.sup = x /\ h.proc = f.proc
      /\ h.respawn = f.respawn /\ h.halt = f.halt /\ h.removing = f.removing
      /\ h.overlap = f.overlap
  BY <1>2, WithSup
<1> HIDE DEF h
<1>6. /\ m \in Fleets /\ m.link = l /\ m.sup = x /\ m.proc = f.proc
      /\ m.respawn = 0 /\ m.halt = f.halt /\ m.removing = f.removing
      /\ m.overlap = f.overlap
  BY <1>3, <1>5, WithLink
<1> HIDE DEF m
<1>7. Respawn(f) = IF m.sup.child = 0 THEN Launch(m)
                   ELSE [k EXCEPT !.respawn = m.sup.child, !.overlap = @ \/ m.halt # 0]
  BY <1>4 DEF Respawn
<1>8. CASE m.sup.child = 0
  <2>1. \A p \in Procs : p # 0
    BY BoundsAreNats DEF Procs
  <2>2. ~m.overlap => (\A p \in Procs : ~Runs(m, p)) /\ m.halt = 0
    BY <1>2, <1>6, <1>8, <2>1 DEF Tracked, Runs, Alive
  <2>3. Clear(m) /\ Still(m)
    BY <1>2, <1>6, <2>2 DEF Clear, Still
  <2> QED BY <1>3, <1>6, <1>7, <1>8, <2>3, LaunchGood
<1>9. CASE m.sup.child # 0
  <2>1. m.sup.child \in Procs
    BY <1>6, <1>9 DEF Fleets, ChildStates
  <2>2. /\ k \in Fleets /\ k.link = l /\ k.sup = x /\ k.respawn = 0 /\ k.halt = f.halt
        /\ k.removing = f.removing /\ k.overlap = f.overlap /\ SameChild(k, m)
    BY <1>6, <2>1, KillGood
  <2>3. Respawn(f) = g
    BY <1>7, <1>9
  <2> HIDE DEF k
  <2>4. o \in BOOLEAN /\ (o <=> f.overlap \/ f.halt # 0)
    BY <1>6, <2>2
  <2> HIDE DEF o
  <2>5. /\ g \in Fleets /\ g.link = k.link /\ g.sup = k.sup /\ g.proc = k.proc
        /\ g.respawn = m.sup.child /\ g.halt = k.halt /\ g.overlap = o
    <3>1. ASSUME NEW v \in BOOLEAN, NEW e, e = [k EXCEPT !.respawn = m.sup.child, !.overlap = v]
          PROVE  /\ e \in Fleets /\ e.link = k.link /\ e.sup = k.sup /\ e.proc = k.proc
                 /\ e.respawn = m.sup.child /\ e.halt = k.halt /\ e.overlap = v
      BY <2>1, <2>2, <3>1 DEF Fleets
    <3> QED BY <2>4, <3>1
  <2> HIDE DEF g
  <2>6. \A p \in Procs : Runs(g, p) => Runs(f, p)
    BY <1>6, <2>2, <2>5 DEF SameChild, Runs, Alive
  <2>7. Tracked(g)
    BY <1>2, <1>6, <2>2, <2>4, <2>5, <2>6 DEF Tracked
  <2>8. Still(g) /\ FirstLaunch(g)
    BY <1>2, <1>3, <2>2, <2>5 DEF Still, FirstLaunch
  <2> QED BY <1>3, <2>2, <2>3, <2>5, <2>7, <2>8 DEF Good
<1> QED BY <1>8, <1>9

\* A fleet whose awaited child has exited: what may launch, and what may stop.
Halted(f) ==
  ~f.overlap => (\A p \in Procs : ~Runs(f, p)) /\ ~f.sup.restartTimer

LEMMA RespawnEndsGood ==
  ASSUME NEW f \in Fleets, LinkOK(f.link), Still(f), Halted(f), ~Spawning(f.link),
         ~f.overlap => f.halt = 0 /\ ~f.sup.stopping
  PROVE  Good(RespawnEnds(f)) /\ RespawnEnds(f).overlap = f.overlap
<1> DEFINE x == [f.sup EXCEPT !.child = 0]
           h == [f EXCEPT !.sup = x]
           m == [h EXCEPT !.respawn = 0]
<1>1. /\ x \in ChildStates /\ x.restartTimer = f.sup.restartTimer /\ x.stopping = f.sup.stopping
  BY DEF Fleets, ChildStates
<1>2. m = [f EXCEPT !.sup.child = 0, !.respawn = 0]
  BY DEF Fleets
<1> HIDE DEF x
<1>3. /\ h \in Fleets /\ h.link = f.link /\ h.sup = x /\ h.proc = f.proc
      /\ h.halt = f.halt /\ h.removing = f.removing /\ h.overlap = f.overlap
  BY <1>1, WithSup
<1> HIDE DEF h
<1>4. /\ m \in Fleets /\ m.link = f.link /\ m.sup = x /\ m.proc = f.proc /\ m.respawn = 0
      /\ m.halt = f.halt /\ m.removing = f.removing /\ m.overlap = f.overlap
  BY <1>3 DEF Fleets
<1> HIDE DEF m
<1>5. Still(m) /\ Clear(m)
  BY <1>1, <1>4 DEF Still, Clear, Halted, Runs, Alive
<1> QED BY <1>2, <1>4, <1>5, LaunchGood DEF RespawnEnds

LEMMA StopEndsGood ==
  ASSUME NEW f \in Fleets, NEW removing \in BOOLEAN, LinkOK(f.link), Still(f), Halted(f),
         ~f.overlap => f.respawn = 0
  PROVE  /\ Good(StopEnds(f, removing)) /\ ~Spawning(StopEnds(f, removing).link)
         /\ StopEnds(f, removing).overlap = f.overlap
         /\ StopEnds(f, removing).respawn = f.respawn
<1> DEFINE x == [f.sup EXCEPT !.child = 0]
           h == [f EXCEPT !.sup = x]
           k == [h EXCEPT !.halt = 0, !.removing = FALSE]
           m == Mark(k, "asleep")
           l == Remove(m.link)
           e == [m EXCEPT !.sup = NoChild]
           g == [e EXCEPT !.link = l]
<1>1. /\ x \in ChildStates /\ x.restartTimer = f.sup.restartTimer /\ x.stopping = f.sup.stopping
      /\ x.child = 0
  BY DEF Fleets, ChildStates
<1>2. k = [f EXCEPT !.sup.child = 0, !.halt = 0, !.removing = FALSE]
  BY DEF Fleets
<1> HIDE DEF x
<1>3. /\ h \in Fleets /\ h.link = f.link /\ h.sup = x /\ h.proc = f.proc
      /\ h.respawn = f.respawn /\ h.overlap = f.overlap
  BY <1>1, WithSup
<1> HIDE DEF h
<1>4. /\ k \in Fleets /\ k.link = f.link /\ k.sup = x /\ k.proc = f.proc
      /\ k.respawn = f.respawn /\ k.halt = 0 /\ k.overlap = f.overlap
  BY <1>3 DEF Fleets
<1> HIDE DEF k
<1>5. /\ m \in Fleets /\ LinkOK(m.link) /\ ~Spawning(m.link) /\ m.sup = x /\ m.proc = f.proc
      /\ m.respawn = f.respawn /\ m.halt = 0 /\ m.overlap = f.overlap
  BY <1>4, MarkGood DEF Goes
<1>6. StopEnds(f, removing) = IF removing THEN [m EXCEPT !.sup = NoChild, !.link = Remove(@)] ELSE m
  BY <1>2 DEF StopEnds
<1> HIDE DEF m
<1>7. CASE ~removing
  <2>1. Tracked(m) /\ Still(m) /\ FirstLaunch(m)
    BY <1>1, <1>5 DEF Tracked, Still, FirstLaunch, Halted, Runs, Alive
  <2> QED BY <1>5, <1>6, <1>7, <2>1 DEF Good
<1>8. CASE removing
  <2>1. l \in Links /\ LinkOK(l) /\ ~Spawning(l)
    BY <1>5, RemoveGoes DEF Fleets, Spawning
  <2>2. StopEnds(f, removing) = g
    BY <1>6, <1>8
  <2> HIDE DEF l
  <2>3. NoChild \in ChildStates
    BY BoundsAreNats DEF NoChild, ChildStates
  <2>4. /\ e \in Fleets /\ e.sup = NoChild /\ e.proc = f.proc
        /\ e.respawn = f.respawn /\ e.halt = 0 /\ e.overlap = f.overlap
    BY <1>5, <2>3, WithSup
  <2> HIDE DEF e
  <2>5. /\ g \in Fleets /\ g.link = l /\ g.sup = NoChild /\ g.proc = f.proc
        /\ g.respawn = f.respawn /\ g.halt = 0 /\ g.overlap = f.overlap
    BY <2>1, <2>4, WithLink
  <2> HIDE DEF g
  <2>6. Tracked(g) /\ Still(g) /\ FirstLaunch(g)
    BY <2>1, <2>5 DEF Tracked, Still, FirstLaunch, Halted, Runs, Alive, NoChild
  <2> QED BY <2>1, <2>2, <2>5, <2>6 DEF Good
<1> QED BY <1>7, <1>8

LEMMA StopGood ==
  ASSUME NEW f, NEW removing \in BOOLEAN, Good(f), f.halt = 0
  PROVE  Good(Stop(f, removing))
<1> DEFINE x == [f.sup EXCEPT !.stopping = TRUE, !.restartTimer = FALSE]
           l == Disconnect(f.link)
           h == [f EXCEPT !.sup = x]
           e == [h EXCEPT !.link = l]
           m == ClearEndpointTimer(e)
           c == m.sup.child
           k == Kill(m, c)
           o == k.overlap \/ m.respawn # 0
<1>1. f \in Fleets /\ f.link \in Links /\ f.sup \in ChildStates
  BY DEF Fleets, Good
<1>2. /\ x \in ChildStates /\ x.child = f.sup.child /\ ~x.restartTimer /\ x.stopping
      /\ x.manualRespawn = f.sup.manualRespawn
  BY <1>1 DEF ChildStates
<1>3. /\ l \in Links /\ LinkOK(l) /\ ~Spawning(l)
  BY <1>1, DisconnectGoes DEF Good, LinkOK
<1>4. e = [f EXCEPT !.sup.stopping = TRUE, !.sup.restartTimer = FALSE, !.link = Disconnect(@)]
  BY <1>1 DEF Fleets
<1> HIDE DEF x, l
<1>5. /\ h \in Fleets /\ h.link = f.link /\ h.sup = x /\ h.proc = f.proc
      /\ h.respawn = f.respawn /\ h.halt = f.halt /\ h.overlap = f.overlap
  BY <1>1, <1>2, WithSup
<1> HIDE DEF h
<1>6. /\ e \in Fleets /\ e.link = l /\ e.sup = x /\ e.proc = f.proc
      /\ e.respawn = f.respawn /\ e.halt = 0 /\ e.overlap = f.overlap
  BY <1>3, <1>5, WithLink
<1> HIDE DEF e
<1>7. /\ m \in Fleets /\ m.link = l /\ m.respawn = f.respawn /\ m.halt = 0
      /\ m.overlap = f.overlap /\ SameChild(m, e)
  BY <1>6, ClearEndpointTimerGood
<1>8. Stop(f, removing) =
        IF c = 0 THEN StopEnds(m, removing)
        ELSE [k EXCEPT !.halt = c, !.removing = removing, !.overlap = o]
  BY <1>4 DEF Stop
<1> HIDE DEF m
<1>9. /\ c = f.sup.child /\ m.sup.stopping /\ ~m.sup.restartTimer
      /\ \A p \in Procs : Runs(m, p) => Runs(f, p)
  BY <1>2, <1>6, <1>7 DEF SameChild, Runs, Alive
<1>10. CASE c = 0
  <2>1. \A p \in Procs : p # 0
    BY BoundsAreNats DEF Procs
  <2>2. Still(m) /\ Halted(m) /\ (~m.overlap => m.respawn = 0)
    BY <1>7, <1>9, <1>10, <2>1 DEF Still, Halted, Good, Tracked
  <2> QED BY <1>3, <1>7, <1>8, <1>10, <2>2, StopEndsGood
<1>11. CASE c # 0
  <2>1. c \in Procs
    BY <1>7, <1>11 DEF Fleets, ChildStates
  <2>2. /\ k \in Fleets /\ k.link = l /\ k.sup = m.sup /\ k.respawn = f.respawn /\ k.halt = 0
        /\ k.overlap = f.overlap /\ SameChild(k, m)
    BY <1>7, <2>1, KillGood
  <2>3. o \in BOOLEAN /\ (o <=> f.overlap \/ f.respawn # 0)
    BY <1>7, <2>2
  <2> HIDE DEF k, o, c
  <2>4. ASSUME NEW v \in BOOLEAN, v <=> f.overlap \/ f.respawn # 0,
               NEW g, g = [k EXCEPT !.halt = c, !.removing = removing, !.overlap = v]
        PROVE  Good(g)
    <3>1. /\ g \in Fleets /\ g.link = k.link /\ g.sup = k.sup /\ g.proc = k.proc
          /\ g.respawn = k.respawn /\ g.halt = c /\ g.overlap = v
      BY <2>1, <2>2, <2>4 DEF Fleets
    <3>2. \A p \in Procs : Runs(g, p) => Runs(f, p)
      BY <1>9, <2>2, <3>1 DEF SameChild, Runs, Alive
    <3>3. g.sup.child = c
      BY <2>2, <3>1 DEF c
    <3>4. Tracked(g)
      BY <1>9, <2>2, <2>4, <3>1, <3>2, <3>3 DEF Tracked, Good
    <3>5. Still(g) /\ FirstLaunch(g)
      BY <1>3, <1>9, <2>2, <3>1 DEF Still, FirstLaunch
    <3> QED BY <1>3, <2>2, <3>1, <3>4, <3>5 DEF Good
  <2> QED BY <1>8, <1>11, <2>3, <2>4
<1> QED BY <1>10, <1>11

-----------------------------------------------------------------------------
(* Exits.                                                                  *)

\* What seeing an exit, or deciding upon it, changes of a fleet.
Sees(g, f) ==
  /\ g \in Fleets /\ Goes(g.link, f.link)
  /\ g.sup.child = f.sup.child /\ g.sup.stopping = f.sup.stopping
  /\ g.sup.manualRespawn = f.sup.manualRespawn
  /\ g.respawn = f.respawn /\ g.halt = f.halt /\ g.removing = f.removing
  /\ g.overlap = f.overlap /\ g.proc = f.proc

\* Without a child an exit restarts the daemon, or settles what it is.
LEMMA RestartSees ==
  ASSUME NEW f \in Fleets, LinkOK(f.link)
  PROVE  /\ Sees(Restart(f), f)
         /\ Spawning(Restart(f).link) => Restart(f).sup.restartTimer
<1> DEFINE x == [f.sup EXCEPT !.restarts = @ + 1, !.restartTimer = TRUE]
           g == [f EXCEPT !.sup = x]
<1>1. CASE f.sup.restarts >= RestartMax
  <2>1. Restart(f) = Mark(f, "error")
    BY <1>1 DEF Restart
  <2> QED BY <2>1, MarkGood DEF Sees
<1>2. CASE ~(f.sup.restarts >= RestartMax)
  <2>1. f.sup \in ChildStates /\ f.sup.restarts + 1 \in 0..RestartMax
    BY <1>2, BoundsAreNats DEF Fleets, ChildStates
  <2>2. /\ x \in ChildStates /\ x.child = f.sup.child /\ x.restartTimer
        /\ x.stopping = f.sup.stopping /\ x.manualRespawn = f.sup.manualRespawn
    BY <2>1 DEF ChildStates
  <2>3. Restart(f) = g
    BY <1>2 DEF Restart, Fleets
  <2> HIDE DEF x
  <2>4. /\ g \in Fleets /\ g.link = f.link /\ g.sup = x /\ g.proc = f.proc
        /\ g.respawn = f.respawn /\ g.halt = f.halt /\ g.removing = f.removing
        /\ g.overlap = f.overlap
    BY <2>2, WithSup
  <2> HIDE DEF g
  <2>5. Goes(g.link, f.link)
    BY <2>4 DEF Goes
  <2> QED BY <2>2, <2>3, <2>4, <2>5 DEF Sees
<1> QED BY <1>1, <1>2

LEMMA HandledSees ==
  ASSUME NEW f \in Fleets, LinkOK(f.link), NEW m, m = [f EXCEPT !.sup.exitHandled = TRUE]
  PROVE  Sees(m, f) /\ m.sup.restartTimer = f.sup.restartTimer /\ m.link = f.link /\ m.sup.exitHandled
<1> DEFINE x == [f.sup EXCEPT !.exitHandled = TRUE]
<1>1. /\ x \in ChildStates /\ x.child = f.sup.child /\ x.restartTimer = f.sup.restartTimer
      /\ x.stopping = f.sup.stopping /\ x.manualRespawn = f.sup.manualRespawn /\ x.exitHandled
  BY DEF Fleets, ChildStates
<1>2. m = [f EXCEPT !.sup = x]
  BY DEF Fleets
<1> HIDE DEF x
<1>3. /\ m \in Fleets /\ m.link = f.link /\ m.sup = x /\ m.proc = f.proc
      /\ m.respawn = f.respawn /\ m.halt = f.halt /\ m.removing = f.removing
      /\ m.overlap = f.overlap
  BY <1>1, <1>2, WithSup
<1>4. Goes(m.link, f.link)
  BY <1>3 DEF Goes
<1> QED BY <1>1, <1>3, <1>4 DEF Sees

LEMMA SeesTransitive ==
  ASSUME NEW f, NEW g, NEW h, Sees(g, f), Sees(h, g)
  PROVE  Sees(h, f)
BY GoesTransitive DEF Sees

\* An exit that is expected only takes note; another restarts the daemon or
\* settles what it is.
LEMMA ChildExitSees ==
  ASSUME NEW f \in Fleets, NEW exit \in Exits, LinkOK(f.link)
  PROVE  /\ Sees(ChildExit(f, exit), f)
         /\ f.sup.exitHandled \/ Expected(f)
              => /\ ChildExit(f, exit).sup.restartTimer = f.sup.restartTimer
                 /\ ChildExit(f, exit).link = f.link
         /\ ~f.sup.exitHandled /\ ~Expected(f) /\ Spawning(ChildExit(f, exit).link)
              => ChildExit(f, exit).sup.restartTimer
<1> DEFINE m == [f EXCEPT !.sup.exitHandled = TRUE]
           k == Mark(m, "asleep")
           l == Disconnect(k.link)
           g == [k EXCEPT !.link = l, !.reporting = TRUE]
<1>1. Sees(m, f) /\ m.sup.restartTimer = f.sup.restartTimer /\ m.link = f.link
  BY HandledSees
<1>2. ChildExit(f, exit) =
        IF f.sup.exitHandled THEN f
        ELSE IF Expected(f) THEN m
        ELSE IF exit = "locked" THEN g
        ELSE IF exit = "clean" /\ SlippedAway(f) THEN k
        ELSE Restart(m)
  BY DEF ChildExit
<1> HIDE DEF m
<1>3. Sees(k, m) /\ ~Spawning(k.link)
  BY <1>1, MarkGood DEF Sees, Goes
<1> HIDE DEF k
<1>4. l \in Links /\ LinkOK(l) /\ ~Spawning(l)
  BY <1>3, DisconnectGoes DEF Sees, Goes, LinkOK, Fleets
<1> HIDE DEF l
<1>5. Sees(g, k) /\ ~Spawning(g.link)
  <2>1. /\ g \in Fleets /\ g.link = l /\ g.sup = k.sup /\ g.proc = k.proc
        /\ g.respawn = k.respawn /\ g.halt = k.halt /\ g.removing = k.removing
        /\ g.overlap = k.overlap
    BY <1>3, <1>4 DEF Sees, Fleets
  <2> HIDE DEF g
  <2>2. Goes(g.link, k.link)
    BY <1>4, <2>1 DEF Goes
  <2> QED BY <1>4, <2>1, <2>2 DEF Sees
<1> HIDE DEF g
<1>6. Sees(Restart(m), m) /\ (Spawning(Restart(m).link) => Restart(m).sup.restartTimer)
  BY <1>1, RestartSees DEF Sees, Goes
<1>7. Sees(f, f)
  BY DEF Sees, Goes
<1>8. Sees(k, f) /\ Sees(g, f) /\ Sees(Restart(m), f)
  BY <1>1, <1>3, <1>5, <1>6, SeesTransitive
<1> QED BY <1>1, <1>2, <1>3, <1>5, <1>6, <1>7, <1>8

\* The exit callback, for a process that has exited.
LEMMA ExitSeenGood ==
  ASSUME NEW f, NEW p \in Procs, Good(f), f.proc[p].phase = "gone"
  PROVE  LET m == ExitSeen(f, p)
         IN  /\ m \in Fleets /\ LinkOK(m.link) /\ Still(m) /\ FirstLaunch(m)
             /\ m.respawn = f.respawn /\ m.halt = f.halt /\ m.removing = f.removing
             /\ m.overlap = f.overlap /\ m.sup.stopping = f.sup.stopping
             /\ f.respawn # p /\ f.halt # p => Tracked(m)
             /\ f.respawn = p \/ f.halt = p => Halted(m) /\ ~Spawning(m.link)
<1> DEFINE was == f.proc[p]
           r == [was EXCEPT !.phase = "reaped", !.killed = FALSE, !.exit = "clean"]
           m == [f EXCEPT !.proc[p] = r]
           h == [m EXCEPT !.sup.child = 0]
           k == ClearEndpointTimer(h)
           g == ChildExit(k, was.exit)
<1>1. f \in Fleets /\ f.link \in Links /\ was \in Processes /\ was.exit \in Exits /\ p # 0
  BY BoundsAreNats DEF Good, Fleets, Processes, Procs
<1>2. r \in Processes /\ r.phase = "reaped"
  BY <1>1 DEF Processes, Phases, Exits
<1>3. ExitSeen(f, p) = IF ~was.attended \/ f.sup.child # p THEN m ELSE g
  BY DEF ExitSeen
<1> HIDE DEF r
<1>4. /\ m \in Fleets /\ m.link = f.link /\ m.sup = f.sup
      /\ m.proc[p] = r
      /\ \A q \in Procs : q # p => m.proc[q] = f.proc[q]
      /\ m.respawn = f.respawn /\ m.halt = f.halt /\ m.removing = f.removing
      /\ m.overlap = f.overlap
  <2>1. m.proc[p] = r
    BY <1>1 DEF Fleets
  <2> QED BY <1>1, <1>2, <2>1, WithProc
<1>5. \A q \in Procs : Runs(m, q) => Runs(f, q) /\ q # p
  BY <1>2, <1>4 DEF Runs, Alive
<1> HIDE DEF m
<1>6. ~Runs(f, p)
  BY DEF Runs, Alive
<1>7. CASE ~was.attended \/ f.sup.child # p
  <2>1. SameChild(m, f) /\ Goes(m.link, f.link)
    BY <1>4, <1>5 DEF SameChild, Goes, Good
  <2>2. Good(m)
    BY <1>4, <2>1, GoodAgain
  <2>3. f.respawn = p \/ f.halt = p => Halted(m) /\ ~Spawning(m.link)
    BY <1>1, <1>4, <1>5 DEF Good, Tracked, Halted, FirstLaunch
  <2> QED BY <1>3, <1>4, <1>7, <2>2, <2>3 DEF Good
<1>8. CASE was.attended /\ f.sup.child = p
  <2>1. /\ h \in Fleets /\ h.link = f.link /\ h.proc = m.proc /\ h.sup.child = 0
        /\ h.sup.stopping = f.sup.stopping /\ h.sup.restartTimer = f.sup.restartTimer
        /\ h.sup.manualRespawn = f.sup.manualRespawn /\ h.sup.exitHandled = f.sup.exitHandled
        /\ h.respawn = f.respawn /\ h.halt = f.halt /\ h.removing = f.removing
        /\ h.overlap = f.overlap
    <3> DEFINE x == [m.sup EXCEPT !.child = 0]
    <3>1. /\ x \in ChildStates /\ x.child = 0 /\ x.restartTimer = m.sup.restartTimer
          /\ x.stopping = m.sup.stopping /\ x.manualRespawn = m.sup.manualRespawn
          /\ x.exitHandled = m.sup.exitHandled
      BY <1>4 DEF Fleets, ChildStates
    <3>2. h = [m EXCEPT !.sup = x]
      BY <1>4 DEF Fleets
    <3> HIDE DEF x, h
    <3> QED BY <1>4, <3>1, <3>2, WithSup
  <2> HIDE DEF h
  <2>2. /\ k \in Fleets /\ k.link = f.link /\ k.respawn = f.respawn /\ k.halt = f.halt
        /\ k.removing = f.removing /\ k.overlap = f.overlap /\ k.sup.child = 0
        /\ k.sup.stopping = f.sup.stopping /\ k.sup.restartTimer = f.sup.restartTimer
        /\ k.sup.manualRespawn = f.sup.manualRespawn /\ k.sup.exitHandled = f.sup.exitHandled
        /\ \A q \in Procs : Runs(k, q) => Runs(f, q) /\ q # p
    BY <1>5, <2>1, ClearEndpointTimerGood DEF SameChild, Runs, Alive
  <2> HIDE DEF k
  <2>3. LinkOK(k.link)
    BY <2>2 DEF Good
  <2>4. /\ Sees(g, k)
        /\ k.sup.exitHandled \/ Expected(k)
             => g.sup.restartTimer = k.sup.restartTimer /\ g.link = k.link
        /\ ~k.sup.exitHandled /\ ~Expected(k) /\ Spawning(g.link) => g.sup.restartTimer
    BY <1>1, <2>2, <2>3, ChildExitSees
  <2> HIDE DEF g
  <2>5. \A q \in Procs : Runs(g, q) => Runs(f, q) /\ q # p
    BY <2>2, <2>4 DEF Sees, Runs, Alive
  <2>6. Still(g)
    BY <2>2, <2>4 DEF Still, Good, Sees, Expected
  <2>7. FirstLaunch(g)
    <3>1. Spawning(g.link) => Spawning(f.link)
      BY <2>2, <2>4 DEF Sees, Goes
    <3>2. Spawning(f.link) => ~k.sup.exitHandled /\ ~Expected(k)
      BY <1>1, <1>8, <2>2 DEF Good, FirstLaunch, Expected, Spawning
    <3> QED BY <2>2, <2>4, <3>1, <3>2 DEF FirstLaunch, Good, Sees
  <2>8. f.respawn # p /\ f.halt # p => Tracked(g)
    BY <1>1, <1>8, <2>2, <2>4, <2>5 DEF Tracked, Good, Sees
  <2>9. f.respawn = p \/ f.halt = p => Halted(g) /\ ~Spawning(g.link)
    <3>1. f.respawn = p \/ f.halt = p => ~Spawning(g.link)
      BY <1>1, <2>2, <2>4 DEF Sees, Goes, Good, FirstLaunch
    <3>2. (f.respawn = p \/ f.halt = p) /\ ~f.overlap => Expected(k) /\ ~f.sup.restartTimer
      BY <1>1, <2>2 DEF Good, Tracked, Expected
    <3> QED BY <1>8, <2>2, <2>4, <2>5, <3>1, <3>2 DEF Halted, Good, Tracked, Sees
  <2>10. LinkOK(g.link)
    BY <2>4 DEF Sees, Goes
  <2> QED BY <1>3, <1>8, <2>2, <2>4, <2>6, <2>7, <2>8, <2>9, <2>10 DEF Sees
<1> QED BY <1>7, <1>8

LEMMA ResumedGood ==
  ASSUME NEW f, Good(f)
  PROVE  /\ Good(Resumed(f)) /\ Goes(Resumed(f).link, f.link)
         /\ Resumed(f).sup = f.sup /\ Resumed(f).proc = f.proc /\ Resumed(f).respawn = f.respawn
         /\ Resumed(f).halt = f.halt /\ Resumed(f).overlap = f.overlap
<1> DEFINE l == IF f.link.present THEN WaitAll(f.link, Awaiting)
                ELSE [f.link EXCEPT !.rejected = @ \cup Awaiting, !.waking = FALSE]
<1>1. f \in Fleets /\ f.link \in Links /\ Awaiting \in SUBSET Clients
  BY DEF Good, Fleets, Awaiting
<1>2. l \in Links /\ Rides(l, f.link)
  <2>1. [f.link EXCEPT !.rejected = @ \cup Awaiting, !.waking = FALSE] \in Links
        /\ Rides([f.link EXCEPT !.rejected = @ \cup Awaiting, !.waking = FALSE], f.link)
    BY <1>1 DEF Links, Rides
  <2> QED BY <1>1, <2>1, WaitAllGoes
<1>3. Resumed(f) = [f EXCEPT !.link = l]
  BY DEF Resumed
<1> HIDE DEF l
<1>4. Goes(l, f.link)
  BY <1>2, RidesGoes DEF Good
<1> QED BY <1>1, <1>2, <1>3, <1>4, LinkGoes, WithLink

\* respawnAfterDialFailure coalesces, or respawns.
LEMMA DialFailedGood ==
  ASSUME NEW f \in Fleets, Tracked(f), Calm(f.link)
  PROVE  \/ DialFailed(f) = f
         \/ /\ Good(DialFailed(f)) /\ DialFailed(f).link.present = f.link.present
            /\ f.link.status # "ready" => DialFailed(f).link.status \in {f.link.status, "error"}
BY RespawnGood DEF DialFailed

-----------------------------------------------------------------------------
(* The inductive invariant.                                                *)

IInv == Good(fleet) /\ client \in [Clients -> ClientStates]

LEMMA ReapedGood ==
  ASSUME NEW p \in Procs, Good(fleet), Reaped(p)
  PROVE  Good(fleet')
<1> DEFINE m == ExitSeen(fleet, p)
           stopped == StopEnds(m, m.removing)
           relaunched == RespawnEnds(m)
           respawned == Resumed(relaunched)
<1>1. fleet.proc[p].phase = "gone" /\ p # 0
  BY BoundsAreNats DEF Reaped, Procs
<1>2. /\ m \in Fleets /\ LinkOK(m.link) /\ Still(m) /\ FirstLaunch(m)
      /\ m.respawn = fleet.respawn /\ m.halt = fleet.halt /\ m.removing = fleet.removing
      /\ m.overlap = fleet.overlap /\ m.sup.stopping = fleet.sup.stopping
      /\ fleet.respawn # p /\ fleet.halt # p => Tracked(m)
      /\ fleet.respawn = p \/ fleet.halt = p => Halted(m) /\ ~Spawning(m.link)
  BY <1>1, ExitSeenGood
<1>3. m.removing \in BOOLEAN
  BY <1>2 DEF Fleets
<1>4. fleet' \in IF m.respawn = p
                 THEN IF m.halt = p
                      THEN {StopEnds(respawned, m.removing), Resumed(RespawnEnds(stopped))}
                      ELSE {respawned}
                 ELSE IF m.halt = p THEN {stopped} ELSE {m}
  BY DEF Reaped
<1> HIDE DEF m
<1>5. CASE m.respawn # p /\ m.halt # p
  BY <1>2, <1>4, <1>5 DEF Good
<1>6. CASE m.respawn # p /\ m.halt = p
  <2>1. ~m.overlap => m.respawn = 0
    BY <1>1, <1>2, <1>6 DEF Good, Tracked
  <2>2. Good(stopped)
    BY <1>2, <1>3, <1>6, <2>1, StopEndsGood
  <2> QED BY <1>4, <1>6, <2>2
<1>7. CASE m.respawn = p /\ m.halt # p
  <2>1. ~m.overlap => m.halt = 0 /\ ~m.sup.stopping
    BY <1>1, <1>2, <1>7 DEF Good, Tracked
  <2>2. Good(relaunched)
    BY <1>2, <1>7, <2>1, RespawnEndsGood
  <2> HIDE DEF relaunched
  <2>3. Good(respawned)
    BY <2>2, ResumedGood
  <2> QED BY <1>4, <1>7, <2>3
<1>8. CASE m.respawn = p /\ m.halt = p
  <2>1. m.overlap
    BY <1>1, <1>2, <1>8 DEF Good, Tracked, Fleets
  <2>2. Good(stopped) /\ ~Spawning(stopped.link) /\ stopped.overlap = m.overlap
    BY <1>2, <1>3, <1>8, <2>1, StopEndsGood
  <2> HIDE DEF stopped
  <2>3. Good(RespawnEnds(stopped))
    BY <2>1, <2>2, RespawnEndsGood DEF Good, Halted
  <2>4. Good(Resumed(RespawnEnds(stopped)))
    BY <2>3, ResumedGood
  <2>5. Good(relaunched)
    BY <1>2, <1>8, <2>1, RespawnEndsGood
  <2>6. relaunched.overlap = m.overlap
    BY <1>2, <1>8, <2>1, RespawnEndsGood
  <2> HIDE DEF relaunched
  <2>7. Good(respawned) /\ respawned.overlap = m.overlap
    BY <2>5, <2>6, ResumedGood
  <2> HIDE DEF respawned
  <2>8. Good(StopEnds(respawned, m.removing))
    BY <1>3, <2>1, <2>7, StopEndsGood DEF Good, Halted
  <2> QED BY <1>4, <1>8, <2>4, <2>8
<1> QED BY <1>5, <1>6, <1>7, <1>8

LEMMA ProcessGood ==
  ASSUME NEW p \in Procs, Good(fleet),
         \/ Boots(p) \/ EndpointTimeout(p)
         \/ \E exit \in Exits : Dies(p, exit)
         \/ \E valid \in BOOLEAN : LineRead(p, valid)
  PROVE  Good(fleet')
<1> DEFINE was == fleet.proc[p]
<1>1. /\ fleet \in Fleets /\ was \in Processes /\ fleet.link \in Links
      /\ LinkOK(fleet.link)
  BY DEF Good, Fleets
<1>2. ASSUME NEW r \in Processes, NEW g, g = [fleet EXCEPT !.proc[p] = r],
             r.phase \in {"booting", "up"} =>
               Alive(fleet, p) /\ r.attended = was.attended /\ r.killed = was.killed
      PROVE  /\ Good(g) /\ SameChild(g, fleet) /\ g.link = fleet.link /\ g.sup = fleet.sup
  <2>1. g.proc[p] = r
    BY <1>1, <1>2 DEF Fleets
  <2>2. /\ g \in Fleets /\ g.link = fleet.link /\ g.sup = fleet.sup
        /\ \A q \in Procs : q # p => g.proc[q] = fleet.proc[q]
        /\ g.respawn = fleet.respawn /\ g.halt = fleet.halt /\ g.overlap = fleet.overlap
    BY <1>1, <1>2, WithProc
  <2>3. SameChild(g, fleet)
    BY <1>2, <2>1, <2>2 DEF SameChild, Runs, Alive
  <2> QED BY <1>1, <2>2, <2>3, GoodAgain DEF Goes
<1>3. CASE Boots(p)
  <2> DEFINE r == [was EXCEPT !.phase = "up", !.line = was.attended]
  <2>1. r \in Processes /\ r.attended = was.attended /\ r.killed = was.killed
    BY <1>1 DEF Processes, Phases
  <2>2. fleet' = [fleet EXCEPT !.proc[p] = r]
    BY <1>1, <1>3 DEF Boots, Fleets
  <2>3. Alive(fleet, p)
    BY <1>3 DEF Boots, Alive
  <2> HIDE DEF r
  <2> QED BY <1>2, <2>1, <2>2, <2>3
<1>4. ASSUME NEW exit \in Exits, Dies(p, exit)
      PROVE  Good(fleet')
  <2> DEFINE r == [was EXCEPT !.phase = "gone", !.exit = exit]
  <2>1. r \in Processes /\ r.phase = "gone"
    BY <1>1 DEF Processes, Phases
  <2>2. fleet' = [fleet EXCEPT !.proc[p] = r]
    BY <1>1, <1>4 DEF Dies, Fleets
  <2> HIDE DEF r
  <2> QED BY <1>2, <2>1, <2>2
<1>5. ASSUME NEW valid \in BOOLEAN, LineRead(p, valid)
      PROVE  Good(fleet')
  <2> DEFINE r == [was EXCEPT !.line = FALSE]
             m == [fleet EXCEPT !.proc[p].line = FALSE]
             x == [m.sup EXCEPT !.resolved = TRUE]
             h == [m EXCEPT !.sup.resolved = TRUE]
             n == ClearEndpointTimer(h)
             y == [n.sup EXCEPT !.exitHandled = TRUE]
             e == [n EXCEPT !.sup.exitHandled = TRUE]
             k == Mark(e, "error")
             l == Connect(RegistryChanged([n.link EXCEPT !.endpoint = p]))
  <2>1. Good(m) /\ SameChild(m, fleet)
    <3>1. r \in Processes /\ r.phase = was.phase /\ r.attended = was.attended /\ r.killed = was.killed
      BY <1>1 DEF Processes
    <3>2. m = [fleet EXCEPT !.proc[p] = r]
      BY <1>1 DEF Fleets
    <3> HIDE DEF r
    <3> QED BY <1>2, <3>1, <3>2 DEF Alive
  <2>2. fleet' = IF m.sup.resolved THEN m
                 ELSE IF ~n.link.present THEN n
                 ELSE IF ~valid THEN Kill(k, p)
                 ELSE [n EXCEPT !.link = l]
    BY <1>5 DEF LineRead
  <2> HIDE DEF m
  <2>3. Good(h)
    <3>1. m \in Fleets
      BY <2>1 DEF Good
    <3>2. /\ x \in ChildStates /\ x.child = m.sup.child /\ x.restartTimer = m.sup.restartTimer
          /\ x.stopping = m.sup.stopping /\ x.manualRespawn = m.sup.manualRespawn
          /\ x.exitHandled = m.sup.exitHandled
      BY <3>1 DEF Fleets, ChildStates
    <3>3. h = [m EXCEPT !.sup = x]
      BY <3>1 DEF Fleets
    <3> HIDE DEF x, h
    <3>4. /\ h \in Fleets /\ h.link = m.link /\ h.sup = x /\ h.proc = m.proc
          /\ h.respawn = m.respawn /\ h.halt = m.halt /\ h.overlap = m.overlap
      BY <3>1, <3>2, <3>3, WithSup
    <3>5. SameChild(h, m) /\ Goes(h.link, m.link)
      BY <2>1, <3>2, <3>4 DEF SameChild, Runs, Alive, Goes, Good
    <3> QED BY <2>1, <3>2, <3>4, <3>5, GoodAgain
  <2> HIDE DEF h
  <2>4. Good(n)
    <3>1. /\ n \in Fleets /\ n.link = h.link /\ SameChild(n, h)
          /\ n.sup.exitHandled = h.sup.exitHandled
      BY <2>3, ClearEndpointTimerGood DEF Good
    <3>2. Goes(n.link, h.link)
      BY <2>3, <3>1 DEF Good, Goes
    <3> QED BY <2>3, <3>1, <3>2, GoodAgain
  <2> HIDE DEF n
  <2>5. n \in Fleets /\ n.link \in Links /\ LinkOK(n.link)
    BY <2>4 DEF Good, Fleets
  <2>6. n.link.present => Good(Kill(k, p))
    <3> SUFFICES ASSUME n.link.present PROVE Good(Kill(k, p))
      OBVIOUS
    <3>1. Sees(e, n) /\ e.link = n.link /\ e.sup.restartTimer = n.sup.restartTimer
      BY <2>5, HandledSees
    <3> HIDE DEF e
    <3>2. /\ k \in Fleets /\ Goes(k.link, e.link) /\ ~Spawning(k.link) /\ SameChild(k, e)
      BY <2>5, <3>1, MarkGood DEF Sees
    <3> HIDE DEF k
    <3>3. /\ Kill(k, p) \in Fleets /\ Kill(k, p).link = k.link /\ SameChild(Kill(k, p), k)
      BY <3>2, KillGood
    <3>4. SameChild(e, n)
      BY <3>1 DEF Sees, SameChild, Runs, Alive
    <3>5. SameChild(Kill(k, p), n)
      BY <3>2, <3>3, <3>4, SameChildTransitive
    <3> QED BY <2>4, <3>1, <3>2, <3>3, <3>5, GoodAgain
  <2>7. Good([n EXCEPT !.link = l])
    <3> DEFINE z == [n.link EXCEPT !.endpoint = p]
    <3>1. p \in Nat
      BY BoundsAreNats DEF Procs
    <3>2. z \in Links /\ Rides(z, n.link)
      BY <2>5, <3>1 DEF Links, Rides
    <3> HIDE DEF z
    <3>3. LinkOK(z)
      BY <2>5, <3>2, RidesGoes DEF Goes
    <3>4. RegistryChanged(z) \in Links /\ LinkOK(RegistryChanged(z))
      BY <3>2, <3>3, RegistryChangedGoes DEF Goes
    <3>5. l = Connect(RegistryChanged(z))
      BY DEF z
    <3>6. l \in Links /\ Goes(l, n.link)
      BY <3>4, <3>5, ConnectGoes, ConnectedGoes
    <3> HIDE DEF l
    <3> QED BY <2>4, <3>6, LinkGoes
  <2> QED BY <2>1, <2>2, <2>4, <2>6, <2>7
<1>6. CASE EndpointTimeout(p)
  <2> DEFINE r == [was EXCEPT !.timer = FALSE]
             m == [fleet EXCEPT !.proc[p].timer = FALSE]
             e == [m EXCEPT !.sup.exitHandled = TRUE]
             k == Mark(e, "error")
  <2>1. Good(m)
    <3>1. r \in Processes /\ r.phase = was.phase /\ r.attended = was.attended /\ r.killed = was.killed
      BY <1>1 DEF Processes
    <3>2. m = [fleet EXCEPT !.proc[p] = r]
      BY <1>1 DEF Fleets
    <3> HIDE DEF r
    <3> QED BY <1>2, <3>1, <3>2 DEF Alive
  <2>2. fleet' = IF m.sup.resolved THEN m ELSE IF ~m.link.present THEN e ELSE Kill(k, p)
    BY <1>6 DEF EndpointTimeout
  <2> HIDE DEF m
  <2>3. m \in Fleets /\ LinkOK(m.link)
    BY <2>1 DEF Good
  <2>4. Sees(e, m) /\ e.link = m.link /\ e.sup.restartTimer = m.sup.restartTimer
    BY <2>3, HandledSees
  <2> HIDE DEF e
  <2>5. SameChild(e, m)
    BY <2>4 DEF Sees, SameChild, Runs, Alive
  <2>6. ~m.link.present => Good(e)
    BY <2>1, <2>4, <2>5, GoodAgain DEF Sees, Spawning
  <2>7. /\ k \in Fleets /\ Goes(k.link, e.link) /\ ~Spawning(k.link) /\ SameChild(k, e)
    BY <2>3, <2>4, MarkGood DEF Sees
  <2> HIDE DEF k
  <2>8. /\ Kill(k, p) \in Fleets /\ Kill(k, p).link = k.link /\ SameChild(Kill(k, p), k)
    BY <2>7, KillGood
  <2>9. SameChild(Kill(k, p), m)
    BY <2>5, <2>7, <2>8, SameChildTransitive
  <2>10. Good(Kill(k, p))
    BY <2>1, <2>4, <2>7, <2>8, <2>9, GoodAgain
  <2> QED BY <2>1, <2>2, <2>6, <2>10
<1> QED BY <1>3, <1>4, <1>5, <1>6

LEMMA StreamGood ==
  ASSUME Good(fleet), StreamNext
  PROVE  Good(fleet')
<1> DEFINE l == fleet.link
<1>1. /\ fleet \in Fleets /\ l \in Links /\ LinkOK(l) /\ Calm(l) /\ Undialled(l)
  BY DEF Good, Fleets, LinkOK, Calm
<1>2. ASSUME NEW m \in Links, LinkOK(m), ~Spawning(m), fleet' = [fleet EXCEPT !.link = m]
      PROVE  Good(fleet')
  BY <1>2, ConnectedGoes, LinkGoes
<1>3. CASE DialOpens
  <2> DEFINE m == [l EXCEPT !.fetch = "open"]
  <2>1. m \in Links /\ m.fetch # "none" /\ m.status # "spawning" /\ ~m.reset
        /\ (m.present => m.tracked)
    BY <1>1, <1>3 DEF DialOpens, Links, Fetches, Calm, Undialled
  <2>2. fleet' = [fleet EXCEPT !.link = m]
    BY <1>1, <1>3 DEF DialOpens, Fleets
  <2> HIDE DEF m
  <2> QED BY <1>2, <2>1, <2>2, HeldRequest
<1>4. CASE DialRefused
  <2> DEFINE t == Transition(l, "error")
             m == [fleet EXCEPT !.link = t]
             n == DialFailed(m)
             z == StreamEnded(n.link, FALSE)
  <2>1. t \in Links /\ Moves(t, l, "error")
    BY <1>1, TransitionMoves DEF Statuses
  <2>2. fleet' = [n EXCEPT !.link = z]
    BY <1>4 DEF DialRefused
  <2> HIDE DEF t
  <2>3. Goes(t, l)
    BY <1>1, <2>1 DEF Goes, Moves, LinkOK, Driven, Calm, Undialled, Spawning
  <2>4. Good(m) /\ m.link = t
    BY <1>1, <2>1, <2>3, LinkGoes, WithLink
  <2> HIDE DEF m
  <2>5. /\ Good(n) /\ n.link.present = t.present
        /\ t.present => n.link.status = "error"
    <3>1. t.present => t.status = "error"
      BY <2>1 DEF Moves
    <3> QED BY <2>4, <3>1, DialFailedGood DEF Good, LinkOK
  <2> HIDE DEF n
  <2>6. n.link \in Links /\ LinkOK(n.link) /\ ~Redials(n.link, FALSE)
    BY <2>5 DEF Good, Fleets, Redials
  <2>7. z \in Links /\ Goes(z, n.link)
    BY <2>6, StreamEndedGoes DEF Goes
  <2> HIDE DEF z
  <2> QED BY <2>2, <2>5, <2>7, LinkGoes
<1>5. CASE StreamBreaks
  <2> DEFINE z == StreamEnded(l, FALSE)
             m == [fleet EXCEPT !.link = z]
             n == IF l.hello THEN m ELSE DialFailed(m)
             y == ScheduleRedial(n.link)
  <2>1. /\ z \in Links /\ Calm(z) /\ (Spawning(z) => Spawning(l))
        /\ IF Redials(l, FALSE) THEN z.status = "reconnecting" ELSE LinkOK(z)
    BY <1>1, StreamEndedGoes
  <2>2. fleet' = IF Redials(l, FALSE) THEN [n EXCEPT !.link = y] ELSE m
    BY <1>5 DEF StreamBreaks
  <2> HIDE DEF z
  <2>3. CASE ~Redials(l, FALSE)
    BY <1>1, <2>1, <2>2, <2>3, LinkGoes DEF Goes
  <2>4. CASE Redials(l, FALSE)
    <3>1. /\ m \in Fleets /\ m.link = z /\ SameChild(m, fleet)
      BY <1>1, <2>1, WithLink
    <3>2. Tracked(m)
      BY <3>1 DEF Good, Tracked, SameChild
    <3> HIDE DEF m
    <3>3. \/ n = m
          \/ /\ Good(n) /\ n.link.status \in {"reconnecting", "error"}
      BY <2>1, <2>4, <3>1, <3>2, DialFailedGood
    <3>4. CASE n = m
      <4>1. y \in Links /\ LinkOK(y) /\ ~Spawning(y)
        BY <2>1, <2>4, <3>1, <3>4, ScheduleRedialGoes
      <4> HIDE DEF n, y
      <4>2. [n EXCEPT !.link = y] = [fleet EXCEPT !.link = y]
        BY <1>1, <3>4 DEF m, Fleets
      <4> QED BY <1>2, <2>2, <2>4, <4>1, <4>2
    <3>5. CASE Good(n) /\ n.link.status \in {"reconnecting", "error"}
      <4>1. n.link \in Links /\ Calm(n.link)
        BY <3>5 DEF Good, Fleets, LinkOK
      <4>2. y \in Links /\ Goes(y, n.link)
        BY <3>5, <4>1, ScheduleRedialGoes, ConnectedGoes
      <4> HIDE DEF n, y
      <4> QED BY <2>2, <2>4, <3>5, <4>2, LinkGoes
    <3> QED BY <3>3, <3>4, <3>5
  <2> QED BY <2>3, <2>4
<1>6. CASE StreamCloses
  <2>1. fleet' = [fleet EXCEPT !.link = StreamEnded(l, TRUE)]
    BY <1>6 DEF StreamCloses
  <2>2. ~Redials(l, TRUE)
    BY <1>1 DEF Redials, Calm
  <2>3. StreamEnded(l, TRUE) \in Links /\ Goes(StreamEnded(l, TRUE), l)
    BY <1>1, <2>2, StreamEndedGoes DEF Goes
  <2> QED BY <2>1, <2>3, LinkGoes
<1>7. CASE HelloArrives
  <2>1. l.fetch # "none" /\ fleet' = [fleet EXCEPT !.link = OnHello(l, TRUE)]
    BY <1>7 DEF HelloArrives
  <2> QED BY <1>1, <1>2, <2>1, HelloGoes
<1>8. CASE ReadyArrives
  <2> DEFINE x == [fleet.sup EXCEPT !.restarts = 0]
             y == OnReady(l)
             h == [fleet EXCEPT !.link = y]
             g == [h EXCEPT !.sup = x]
  <2>1. l.fetch # "none"
    BY <1>8 DEF ReadyArrives
  <2>2. fleet' = g
    BY <1>1, <1>8 DEF ReadyArrives, Fleets
  <2>3. y \in Links /\ Goes(y, l)
    BY <1>1, <2>1, ReadyGoes, ConnectedGoes
  <2> HIDE DEF y
  <2>4. Good(h) /\ h.sup = fleet.sup
    BY <1>1, <2>3, LinkGoes, WithLink
  <2> HIDE DEF h
  <2>5. /\ x \in ChildStates /\ x.child = fleet.sup.child /\ x.restartTimer = fleet.sup.restartTimer
        /\ x.stopping = fleet.sup.stopping /\ x.manualRespawn = fleet.sup.manualRespawn
        /\ x.exitHandled = fleet.sup.exitHandled
    BY <1>1, BoundsAreNats DEF Fleets, ChildStates
  <2> HIDE DEF x
  <2>6. /\ g \in Fleets /\ g.link = h.link /\ g.sup = x /\ g.proc = h.proc
        /\ g.respawn = h.respawn /\ g.halt = h.halt /\ g.overlap = h.overlap
    BY <2>4, <2>5, WithSup DEF Good
  <2> HIDE DEF g
  <2>7. SameChild(g, h) /\ Goes(g.link, h.link)
    BY <2>4, <2>5, <2>6 DEF SameChild, Runs, Alive, Goes, Good
  <2> QED BY <2>2, <2>4, <2>5, <2>6, <2>7, GoodAgain
<1>9. CASE RedialTimer
  <2> DEFINE m == [l EXCEPT !.redial = FALSE]
             y == IF m.closed \/ ~m.present THEN m ELSE Dial(m)
  <2>1. /\ m \in Links /\ m.status = l.status /\ l.status # "spawning"
        /\ m.reset = l.reset /\ m.present = l.present /\ m.tracked = l.tracked
    BY <1>1, <1>9 DEF RedialTimer, Links, Undialled
  <2>2. fleet' = [fleet EXCEPT !.link = y]
    BY <1>9 DEF RedialTimer
  <2> HIDE DEF m
  <2>3. CASE m.closed \/ ~m.present
    <3>1. LinkOK(m) /\ ~Spawning(m)
      BY <1>1, <2>1, <2>3 DEF LinkOK, Driven, Calm, Undialled, Spawning
    <3> QED BY <1>2, <2>1, <2>2, <2>3, <3>1
  <2>4. CASE ~m.closed /\ m.present
    <3>1. m.tracked
      BY <1>1, <2>1, <2>4 DEF Calm
    <3>2. y \in Links /\ LinkOK(y) /\ ~Spawning(y)
      BY <2>1, <2>4, <3>1, DialGoes
    <3> HIDE DEF y
    <3> QED BY <1>2, <2>2, <3>2
  <2> QED BY <2>1, <2>3, <2>4 DEF Links
<1>10. CASE IdleTimer
  <2> DEFINE m == [l EXCEPT !.idle = FALSE]
  <2>1. m \in Links /\ Rides(m, l)
    BY <1>1 DEF Links, Rides
  <2>2. fleet' = [fleet EXCEPT !.link = Disconnect(m)]
    BY <1>10 DEF IdleTimer
  <2> HIDE DEF m
  <2>3. Calm(m)
    BY <1>1, <2>1, RidesGoes DEF Goes, LinkOK
  <2> QED BY <1>2, <2>1, <2>2, <2>3, DisconnectGoes
<1> QED BY <1>3, <1>4, <1>5, <1>6, <1>7, <1>8, <1>9, <1>10 DEF StreamNext

\* A caller that respawns, retains, waits, forgets or lets go.
LEMMA RespawnsGood ==
  ASSUME NEW f, Good(f)
  PROVE  Good(Respawn(f))
<1>1. CASE f.respawn # 0
  BY <1>1 DEF Respawn
<1>2. CASE f.respawn = 0
  BY <1>2, RespawnGood DEF Good, LinkOK
<1> QED BY <1>1, <1>2

LEMMA RidesGood ==
  ASSUME NEW f, NEW m \in Links, Good(f), Rides(m, f.link)
  PROVE  Good([f EXCEPT !.link = m])
BY RidesGoes, LinkGoes DEF Good

LEMMA WaitsGood ==
  ASSUME NEW f, NEW c \in Clients, Good(f)
  PROVE  Good(Waits(f, c))
<1>1. f.link \in Links
  BY DEF Good, Fleets
<1>2. WaitReady(f.link, c) \in Links /\ Rides(WaitReady(f.link, c), f.link)
  BY <1>1, WaitReadyType, WaitReadyRides
<1> QED BY <1>2, RidesGood DEF Waits

LEMMA AttachGood ==
  ASSUME NEW c \in Clients, Good(fleet), Attach(c)
  PROVE  Good(fleet')
<1> DEFINE l == fleet.link
           w == [l EXCEPT !.waking = TRUE]
           m == [fleet EXCEPT !.link.waking = TRUE]
           r == Respawn(m)
           e == [m EXCEPT !.link = Connect(@)]
<1>1. fleet \in Fleets /\ l \in Links
  BY DEF Good, Fleets
<1>2. Good(m)
  <2>1. w \in Links /\ Rides(w, l)
    BY <1>1 DEF Links, Rides
  <2>2. m = [fleet EXCEPT !.link = w]
    BY <1>1 DEF Fleets
  <2> HIDE DEF w, m
  <2> QED BY <2>1, <2>2, RidesGood
<1>3. fleet' \in {Waits(fleet, c), Waits(e, c), r, Waits(r, c)}
  BY DEF Attach
<1> HIDE DEF m
<1>4. Good(e)
  <2>1. m.link \in Links /\ LinkOK(m.link)
    BY <1>2 DEF Good, Fleets
  <2>2. Connect(m.link) \in Links /\ Goes(Connect(m.link), m.link)
    BY <2>1, ConnectGoes, ConnectedGoes
  <2> QED BY <1>2, <2>2, LinkGoes
<1>5. Good(r)
  BY <1>2, RespawnsGood
<1> HIDE DEF r, e
<1> QED BY <1>3, <1>4, <1>5, WaitsGood

LEMMA PromptStartsGood ==
  ASSUME NEW c \in Clients, NEW asked \in {"ready", "asleep"}, Good(fleet), PromptStarts(c, asked)
  PROVE  Good(fleet')
<1> DEFINE l == fleet.link
           m == [fleet EXCEPT !.link = Retain(l)]
           r == Respawn(m)
           e == [m EXCEPT !.link = Connect(@)]
           d == [r EXCEPT !.link = Release(@)]
<1>1. fleet \in Fleets /\ l \in Links
  BY DEF Good, Fleets
<1>2. Good(m)
  BY <1>1, RetainType, RetainRides, RidesGood
<1>3. fleet' \in {m, Waits(e, c), r, d, Waits(r, c)}
  BY DEF PromptStarts
<1> HIDE DEF m
<1>4. Good(e)
  <2>1. m.link \in Links /\ LinkOK(m.link)
    BY <1>2 DEF Good, Fleets
  <2>2. Connect(m.link) \in Links /\ Goes(Connect(m.link), m.link)
    BY <2>1, ConnectGoes, ConnectedGoes
  <2> QED BY <1>2, <2>2, LinkGoes
<1>5. Good(r)
  BY <1>2, RespawnsGood
<1> HIDE DEF r, e
<1>6. Good(d)
  <2>1. r.link \in Links
    BY <1>5 DEF Good, Fleets
  <2> QED BY <1>5, <2>1, ReleaseType, ReleaseRides, RidesGood
<1> QED BY <1>2, <1>3, <1>4, <1>5, <1>6, WaitsGood

LEMMA ClientGood ==
  ASSUME Good(fleet), ClientNext
  PROVE  Good(fleet')
<1> DEFINE l == fleet.link
<1>1. fleet \in Fleets /\ l \in Links
  BY DEF Good, Fleets
<1>2. PICK c \in Clients :
        \/ Attach(c) \/ AttachReady(c) \/ AttachFails(c) \/ Detach(c) \/ WaitTimeout(c)
        \/ Prompt(c) \/ PromptSends(c) \/ PromptFails(c) \/ PromptSettles(c)
        \/ \E asked \in {"ready", "asleep"} : PromptStarts(c, asked)
  BY DEF ClientNext
<1>3. Forget(l, c) \in Links /\ Rides(Forget(l, c), l)
  BY <1>1, ForgetType, ForgetRides
<1>4. ASSUME NEW m \in Links, Rides(m, l), fleet' = [fleet EXCEPT !.link = m]
      PROVE  Good(fleet')
  BY <1>4, RidesGood
<1>5. CASE AttachReady(c)
  <2>1. fleet' = [fleet EXCEPT !.link = Retain(Forget(l, c))]
    BY <1>5 DEF AttachReady
  <2> QED BY <1>3, <1>4, <2>1, RetainType, RetainRides, RidesTransitive
<1>6. CASE AttachFails(c)
  BY <1>3, <1>4, <1>6 DEF AttachFails
<1>7. CASE Detach(c) \/ PromptSettles(c)
  <2>1. fleet' = [fleet EXCEPT !.link = Release(l)]
    BY <1>7 DEF Detach, PromptSettles
  <2> QED BY <1>1, <1>4, <2>1, ReleaseType, ReleaseRides
<1>8. CASE WaitTimeout(c)
  <2> DEFINE m == [l EXCEPT !.waiting = @ \ {c}, !.rejected = @ \cup {c}]
  <2>1. m \in Links /\ Rides(m, l)
    BY <1>1 DEF Links, Rides
  <2>2. fleet' = [fleet EXCEPT !.link = m]
    BY <1>1, <1>8 DEF WaitTimeout, Fleets
  <2> HIDE DEF m
  <2> QED BY <1>4, <2>1, <2>2
<1>9. CASE Prompt(c)
  BY <1>9 DEF Prompt
<1>10. CASE PromptFails(c)
  <2>1. fleet' = [fleet EXCEPT !.link = Release(Forget(l, c))]
    BY <1>10 DEF PromptFails
  <2> QED BY <1>3, <1>4, <2>1, ReleaseType, ReleaseRides, RidesTransitive
<1>11. CASE PromptSends(c)
  <2> DEFINE m == Ensure(Forget(l, c))
  <2>1. m \in Links /\ Rides(m, l)
    <3> DEFINE e == Forget(l, c)
    <3> HIDE DEF e
    <3>1. e \in Links /\ Rides(e, l)
      BY <1>3 DEF e
    <3>2. Ensure(e) \in Links /\ Rides(Ensure(e), e)
      BY <3>1 DEF Ensure, Links, Rides
    <3> QED BY <3>1, <3>2, RidesTransitive DEF e
  <2>2. fleet' \in {[fleet EXCEPT !.link = m], [fleet EXCEPT !.link = Release(m)]}
    BY <1>11 DEF PromptSends
  <2> HIDE DEF m
  <2>3. Release(m) \in Links /\ Rides(Release(m), l)
    BY <2>1, ReleaseType, ReleaseRides, RidesTransitive
  <2> QED BY <1>4, <2>1, <2>2, <2>3
<1> QED BY <1>2, <1>5, <1>6, <1>7, <1>8, <1>9, <1>10, <1>11, AttachGood, PromptStartsGood

LEMMA TimersGood ==
  ASSUME Good(fleet), RestartTimer \/ LockReported
  PROVE  Good(fleet')
<1>1. fleet \in Fleets /\ fleet.link \in Links /\ LinkOK(fleet.link)
  BY DEF Good, Fleets
<1>2. CASE RestartTimer
  <2> DEFINE x == [fleet.sup EXCEPT !.restartTimer = FALSE]
             m == [fleet EXCEPT !.sup.restartTimer = FALSE]
  <2>1. /\ x \in ChildStates /\ x.child = fleet.sup.child /\ ~x.restartTimer
        /\ x.stopping = fleet.sup.stopping /\ x.manualRespawn = fleet.sup.manualRespawn
        /\ x.exitHandled = fleet.sup.exitHandled
    BY <1>1 DEF Fleets, ChildStates
  <2>2. m = [fleet EXCEPT !.sup = x]
    BY <1>1 DEF Fleets
  <2>3. fleet' = IF m.sup.stopping \/ ~m.link.present THEN m ELSE Launch(m)
    BY <1>2 DEF RestartTimer
  <2>4. fleet.sup.restartTimer
    BY <1>2 DEF RestartTimer
  <2> HIDE DEF x, m
  <2>5. /\ m \in Fleets /\ m.link = fleet.link /\ m.sup = x /\ m.proc = fleet.proc
        /\ m.respawn = fleet.respawn /\ m.halt = fleet.halt /\ m.overlap = fleet.overlap
    BY <1>1, <2>1, <2>2, WithSup
  <2>6. \A p \in Procs : p # 0
    BY BoundsAreNats DEF Procs
  <2>7. ~m.overlap =>
          /\ \A p \in Procs : ~Runs(m, p)
          /\ m.sup.child = 0 /\ m.respawn = 0 /\ m.halt = 0
    BY <2>4, <2>1, <2>5, <2>6 DEF Good, Tracked, Runs, Alive
  <2>8. CASE m.sup.stopping \/ ~m.link.present
    <3>1. ~Spawning(m.link)
      BY <2>1, <2>5, <2>8 DEF Good, FirstLaunch, Spawning
    <3>2. Tracked(m) /\ Still(m) /\ FirstLaunch(m)
      BY <2>1, <2>5, <2>7, <3>1 DEF Tracked, Still, FirstLaunch
    <3> QED BY <1>1, <2>3, <2>5, <2>8, <3>2 DEF Good
  <2>9. CASE ~m.sup.stopping /\ m.link.present
    <3>1. Clear(m) /\ Still(m)
      BY <2>1, <2>5, <2>7, <2>9 DEF Clear, Still
    <3>2. Spawning(m.link) => ~m.sup.stopping /\ m.respawn = 0 /\ m.halt = 0
      BY <2>5, <2>9 DEF Good, FirstLaunch
    <3> QED BY <1>1, <2>3, <2>5, <2>9, <3>1, <3>2, LaunchGood
  <2> QED BY <2>8, <2>9
<1>3. CASE LockReported
  <2> DEFINE z == IF fleet.link.present THEN Fail(fleet.link) ELSE fleet.link
             h == [fleet EXCEPT !.link = z]
             g == [h EXCEPT !.reporting = FALSE]
  <2>1. fleet' = g
    BY <1>1, <1>3 DEF LockReported, Fleets
  <2>2. z \in Links /\ Goes(z, fleet.link)
    BY <1>1, FailGoes DEF Goes
  <2> HIDE DEF z
  <2>3. Good(h)
    BY <2>2, LinkGoes
  <2> HIDE DEF h
  <2>4. /\ g \in Fleets /\ g.link = h.link /\ g.sup = h.sup /\ g.proc = h.proc
        /\ g.respawn = h.respawn /\ g.halt = h.halt /\ g.overlap = h.overlap
    BY <2>3 DEF Good, Fleets
  <2> HIDE DEF g
  <2>5. SameChild(g, h) /\ Goes(g.link, h.link)
    BY <2>3, <2>4 DEF SameChild, Runs, Alive, Goes, Good
  <2> QED BY <2>1, <2>3, <2>4, <2>5, GoodAgain
<1> QED BY <1>2, <1>3

\* A restarted fleet attends no process.
LEMMA RestartedGood ==
  ASSUME Good(fleet), FleetRestart
  PROVE  Good(fleet')
<1> DEFINE b == Boot(fleet.link, TRUE)
           ps == [p \in Procs |-> [fleet.proc[p] EXCEPT !.line = FALSE, !.timer = FALSE, !.attended = FALSE]]
<1>1. fleet \in Fleets /\ fleet.link \in Links
  BY DEF Good, Fleets
<1>2. b \in Links /\ LinkOK(b) /\ ~Spawning(b)
  BY <1>1, BootGoes
<1>3. ps \in [Procs -> Processes] /\ \A p \in Procs : ~ps[p].attended
  BY <1>1 DEF Fleets, Processes
<1>4. NoChild \in ChildStates
  BY BoundsAreNats DEF NoChild, ChildStates
<1>5. fleet' = [fleet EXCEPT
        !.link = b, !.sup = NoChild, !.respawn = 0, !.halt = 0, !.removing = FALSE,
        !.reporting = FALSE, !.overlap = FALSE, !.proc = ps]
  BY DEF FleetRestart
<1> HIDE DEF b, ps
<1>6. /\ fleet' \in Fleets /\ (fleet').link = b /\ (fleet').sup = NoChild /\ (fleet').proc = ps
      /\ (fleet').respawn = 0 /\ (fleet').halt = 0
  BY <1>1, <1>2, <1>3, <1>4, <1>5 DEF Fleets
<1>7. \A p \in Procs : ~Runs(fleet', p)
  BY <1>3, <1>6 DEF Runs
<1>8. Tracked(fleet') /\ Still(fleet') /\ FirstLaunch(fleet')
  BY <1>2, <1>6, <1>7 DEF Tracked, Still, FirstLaunch, NoChild
<1> QED BY <1>2, <1>6, <1>8 DEF Good

LEMMA InitGood ==
  ASSUME Init
  PROVE  IInv
<1>1. ASSUME NEW s \in {"asleep", "spawning"}
      PROVE  LET f == Registered(s)
             IN  /\ f \in Fleets /\ LinkOK(f.link) /\ Still(f) /\ Clear(f)
                 /\ ~f.sup.stopping /\ f.respawn = 0 /\ f.halt = 0
                 /\ s = "asleep" => Good(f)
  <2> DEFINE f == Registered(s)
             l == NewLink(s, 0, 0)
             ps == [p \in Procs |-> Unborn]
  <2>1. l \in Links /\ l.status = s /\ LinkOK(l)
    <3>1. l \in Links
      BY NewLinkType DEF Statuses
    <3> QED BY <3>1 DEF NewLink, LinkOK, Driven, Calm, Undialled
  <2>2. NoChild \in ChildStates
    BY BoundsAreNats DEF NoChild, ChildStates
  <2>3. ps \in [Procs -> Processes] /\ \A p \in Procs : ps[p] = Unborn
    BY DEF Processes, Unborn, Phases, Exits
  <2> HIDE DEF l, ps
  <2>4. f = [link |-> l, sup |-> NoChild, proc |-> ps,
             respawn |-> 0, halt |-> 0, removing |-> FALSE, reporting |-> FALSE, overlap |-> FALSE]
    BY DEF Registered, l, ps
  <2>5. f \in Fleets
    BY <2>1, <2>2, <2>3, <2>4 DEF Fleets
  <2>6. f.link = l /\ f.sup = NoChild /\ f.proc = ps /\ f.respawn = 0 /\ f.halt = 0
    BY <2>4
  <2> HIDE DEF f
  <2>7. \A p \in Procs : ~Runs(f, p)
    BY <2>3, <2>6 DEF Runs, Alive, Unborn
  <2>8. Still(f) /\ Clear(f) /\ Tracked(f)
    BY <2>6, <2>7 DEF Still, Clear, Tracked, NoChild
  <2>9. s = "asleep" => Good(f)
    BY <2>1, <2>5, <2>6, <2>8 DEF Good, FirstLaunch, Spawning
  <2>10. ~f.sup.stopping
    BY <2>6 DEF NoChild
  <2> QED BY <2>1, <2>5, <2>6, <2>8, <2>9, <2>10 DEF f
<1>2. Good(Registered("asleep"))
  BY <1>1
<1>3. Good(Launch(Registered("spawning")))
  BY <1>1, LaunchGood
<1>4. client \in [Clients -> ClientStates]
  BY DEF Init, ClientStates
<1> QED BY <1>2, <1>3, <1>4 DEF Init, IInv

\* What each caller is doing stays one of the states of a caller.
LEMMA ClientsKept ==
  ASSUME client \in [Clients -> ClientStates], Next
  PROVE  client' \in [Clients -> ClientStates]
<1>1. ASSUME NEW c \in Clients, NEW pc \in ClientStates, Become(c, pc)
      PROVE  client' \in [Clients -> ClientStates]
  BY <1>1 DEF Become
<1>2. CallersResume => client' \in [Clients -> ClientStates]
  BY DEF CallersResume, ClientStates
<1>3. CASE ProcessNext
  BY <1>2, <1>3 DEF ProcessNext, Boots, Reaped, EndpointTimeout, Dies, LineRead
<1>4. CASE StreamNext
  BY <1>4 DEF StreamNext, DialOpens, DialRefused, StreamBreaks, StreamCloses,
              HelloArrives, ReadyArrives, RedialTimer, IdleTimer
<1>5. CASE ClientNext
  <2>1. \/ UNCHANGED client
        \/ \E c \in Clients : \E pc \in ClientStates : Become(c, pc)
    BY <1>5 DEF ClientNext, Attach, AttachReady, AttachFails, Detach, WaitTimeout, Prompt,
                PromptStarts, PromptSends, PromptFails, PromptSettles, ClientStates
  <2> QED BY <1>1, <2>1
<1>6. CASE RestartTimer \/ LockReported \/ FleetRestart \/ \E removing \in BOOLEAN : StopDaemon(removing)
  BY <1>6 DEF RestartTimer, LockReported, FleetRestart, StopDaemon, ClientStates
<1> QED BY <1>3, <1>4, <1>5, <1>6 DEF Next

LEMMA StepGood ==
  ASSUME IInv, [Next]_vars
  PROVE  IInv'
<1>1. CASE UNCHANGED vars
  BY <1>1 DEF vars, IInv
<1>2. CASE Next
  <2>1. Good(fleet)
    BY DEF IInv
  <2>2. ASSUME ProcessNext PROVE Good(fleet')
    BY <2>1, <2>2, ProcessGood, ReapedGood DEF ProcessNext
  <2>3. ASSUME NEW removing \in BOOLEAN, StopDaemon(removing)
        PROVE  Good(fleet')
    BY <2>1, <2>3, StopGood DEF StopDaemon
  <2>4. Good(fleet')
    BY <1>2, <2>1, <2>2, <2>3, StreamGood, ClientGood, TimersGood, RestartedGood DEF Next
  <2> QED BY <1>2, <2>4, ClientsKept DEF IInv
<1> QED BY <1>1, <1>2

LEMMA Invariant == Spec => []IInv
BY InitGood, StepGood, PTL DEF Spec

-----------------------------------------------------------------------------

\* The types: in particular the restart budget is never exceeded, and a child,
\* a timer and a wait for an exit always name a process launched.
THEOREM TypeCorrect == Spec => []TypeOK
<1>1. IInv => TypeOK
  BY DEF IInv, Good, TypeOK
<1> QED BY <1>1, Invariant, PTL

\* No orphan (supervisor.ts, respawn): but for a stop and a respawn in flight
\* together, what runs unkilled is the child the supervisor tracks.
THEOREM NoOrphans == Spec => []NoOrphan
<1>1. IInv => NoOrphan
  BY DEF IInv, Good, Tracked, NoOrphan, Running, Runs
<1> QED BY <1>1, Invariant, PTL

\* A stop wins over the exit it causes (supervisor.ts, stop and
\* #onChildExit): once over, it leaves no child and no restart to come.
THEOREM StopStays == Spec => []StopWins
<1>1. IInv => StopWins
  BY DEF IInv, Good, Tracked, Still, StopWins
<1> QED BY <1>1, Invariant, PTL

\* A daemon that is neither asleep, in error nor let go of, and that has no
\* child, has something under way that will launch it or find out.
THEOREM NobodyStranded == Spec => []NeverStranded
<1>1. IInv => NeverStranded
  BY DEF IInv, Good, LinkOK, Driven, FirstLaunch, Spawning, NeverStranded
<1> QED BY <1>1, Invariant, PTL
=============================================================================
