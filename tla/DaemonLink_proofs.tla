-------------------------- MODULE DaemonLink_proofs --------------------------
(***************************************************************************)
(* What the operators of DaemonLink return: a link again; a sound one of a *)
(* sound one; and one whose holders are counted and whose waiters are      *)
(* settled.  The lemmas of each part go bottom up, one per operator, in    *)
(* the order of the module.                                                *)
(***************************************************************************)
EXTENDS DaemonLink, TLAPS

LEMMA NewLinkType ==
  ASSUME NEW s \in Statuses, NEW e \in Nat, NEW t \in Nat
  PROVE  NewLink(s, e, t) \in Links
BY DEF NewLink, Links, Fetches

LEMMA RetainType == ASSUME NEW l \in Links PROVE Retain(l) \in Links
<1>1. ASSUME NEW n \in Nat
      PROVE  [l EXCEPT !.tracked = TRUE, !.retain = n, !.idle = FALSE] \in Links
  BY <1>1 DEF Links
<1>2. l.retain + 1 \in Nat
  BY DEF Links
<1> QED BY <1>1, <1>2 DEF Retain

LEMMA ArmIdleDropType == ASSUME NEW l \in Links PROVE ArmIdleDrop(l) \in Links
<1>1. [l EXCEPT !.idle = TRUE] \in Links
  BY DEF Links
<1> QED BY <1>1 DEF ArmIdleDrop

LEMMA ReleaseTimesType ==
  ASSUME NEW l \in Links, NEW n \in Nat
  PROVE  ReleaseTimes(l, n) \in Links
<1> DEFINE m == [l EXCEPT !.retain = IF @ > n THEN @ - n ELSE 0]
<1>1. m \in Links
  BY DEF Links
<1> QED BY <1>1, ArmIdleDropType DEF ReleaseTimes

LEMMA ReleaseType == ASSUME NEW l \in Links PROVE Release(l) \in Links
BY ReleaseTimesType DEF Release

LEMMA EndWakeType == ASSUME NEW l \in Links PROVE EndWake(l) \in Links
BY DEF EndWake, Links

LEMMA UnwatchType == ASSUME NEW l \in Links PROVE Unwatch(l) \in Links
<1>1. [l EXCEPT !.watched = FALSE] \in Links
  BY DEF Links
<1> QED BY <1>1, ReleaseType DEF Unwatch

LEMMA WatchType == ASSUME NEW l \in Links PROVE Watch(l) \in Links
<1>1. [l EXCEPT !.watched = TRUE] \in Links
  BY DEF Links
<1> QED BY <1>1, RetainType DEF Watch

LEMMA ResumeType == ASSUME NEW l \in Links PROVE Resume(l) \in Links
BY DEF Resume, Links

LEMMA SetReadyType == ASSUME NEW l \in Links PROVE SetReady(l) \in Links
<1>1. [l EXCEPT !.status = "ready"] \in Links
  BY DEF Links, Statuses
<1> QED BY <1>1, EndWakeType, WatchType, ResumeType, UnwatchType DEF SetReady

LEMMA SetStatusType ==
  ASSUME NEW l \in Links, NEW s \in Statuses
  PROVE  SetStatus(l, s) \in Links
<1>1. [l EXCEPT !.status = s] \in Links
  BY DEF Links
<1> QED BY <1>1, EndWakeType, UnwatchType, SetReadyType DEF SetStatus

LEMMA FlushType ==
  ASSUME NEW l \in Links, NEW s \in Statuses
  PROVE  Flush(l, s) \in Links
<1>1. [l EXCEPT !.resolved = @ \cup l.waiting, !.waiting = {}] \in Links
  BY DEF Links
<1>2. [l EXCEPT !.rejected = @ \cup l.waiting, !.waiting = {}] \in Links
  BY DEF Links
<1> QED BY <1>1, <1>2 DEF Flush

LEMMA TransitionType ==
  ASSUME NEW l \in Links, NEW s \in Statuses
  PROVE  Transition(l, s) \in Links
BY SetStatusType, FlushType DEF Transition

LEMMA ClimbToType ==
  ASSUME NEW l \in Links, NEW s \in Statuses
  PROVE  ClimbTo(l, s) \in Links
BY TransitionType DEF ClimbTo

LEMMA LetGoType == ASSUME NEW l \in Links PROVE LetGo(l) \in Links
BY DEF LetGo, Links, Fetches

LEMMA UnheardType == ASSUME NEW l \in Links PROVE Unheard(l) \in Links
BY DEF Unheard, Links

LEMMA DialType == ASSUME NEW l \in Links PROVE Dial(l) \in Links
<1>1. Unheard(l) \in Links
  BY UnheardType
<1>2. "error" \in Statuses
  BY DEF Statuses
<1>3. ASSUME NEW r \in Links
      PROVE  [r EXCEPT !.fetch = "pending", !.to = l.endpoint, !.tok = l.token] \in Links
  BY <1>3 DEF Links, Fetches
<1>4. [LetGo(Unheard(l)) EXCEPT !.fetch = "pending", !.to = l.endpoint, !.tok = l.token] \in Links
  BY <1>1, <1>3, LetGoType
<1> QED BY <1>1, <1>2, <1>4, TransitionType DEF Dial

LEMMA EnsureType == ASSUME NEW l \in Links PROVE Ensure(l) \in Links
BY DEF Ensure, Links

LEMMA ConnectType == ASSUME NEW l \in Links PROVE Connect(l) \in Links
<1>1. "connecting" \in Statuses
  BY DEF Statuses
<1> QED BY <1>1, EnsureType, ResumeType, TransitionType, DialType DEF Connect

LEMMA DisconnectType == ASSUME NEW l \in Links PROVE Disconnect(l) \in Links
<1>1. ASSUME NEW m \in Links PROVE [m EXCEPT !.closed = TRUE, !.redial = FALSE, !.idle = FALSE] \in Links
  BY <1>1 DEF Links
<1> QED BY <1>1, LetGoType DEF Disconnect

LEMMA RejectAllType == ASSUME NEW l \in Links PROVE RejectAll(l) \in Links
BY DEF RejectAll, Links

LEMMA DropType == ASSUME NEW l \in Links PROVE Drop(l) \in Links
<1>1. ASSUME NEW m \in Links
      PROVE  [m EXCEPT !.tracked = FALSE, !.closed = FALSE, !.retain = 0] \in Links
  BY <1>1 DEF Links
<1> QED BY <1>1, DisconnectType, RejectAllType, UnheardType DEF Drop

LEMMA RegistryChangedType == ASSUME NEW l \in Links PROVE RegistryChanged(l) \in Links
BY EndWakeType, WatchType, ConnectType, UnwatchType DEF RegistryChanged

LEMMA RemoveType == ASSUME NEW l \in Links PROVE Remove(l) \in Links
<1>1. [l EXCEPT !.present = FALSE] \in Links
  BY DEF Links
<1> QED BY <1>1, RegistryChangedType DEF Remove

LEMMA BootType == ASSUME NEW l \in Links, NEW spawned \in BOOLEAN PROVE Boot(l, spawned) \in Links
<1> DEFINE m == NewLink(BootStatus(l.status, spawned), l.endpoint, l.token)
<1>1. BootStatus(l.status, spawned) \in Statuses
  BY DEF BootStatus, Links, Statuses
<1>2. m \in Links
  BY <1>1, NewLinkType DEF Links
<1>3. [m EXCEPT !.present = FALSE, !.tracked = FALSE] \in Links
  <2> HIDE DEF m
  <2> QED BY <1>2 DEF Links
<1> QED BY <1>2, <1>3, ConnectType DEF Boot

-----------------------------------------------------------------------------

LEMMA OnHelloType ==
  ASSUME NEW l \in Links, NEW accepted \in BOOLEAN
  PROVE  OnHello(l, accepted) \in Links
<1> DEFINE furthest == IF l.sawReady THEN "ready" ELSE IF l.sawState THEN "resolving" ELSE "session"
<1>1. "error" \in Statuses /\ furthest \in Statuses
  BY DEF Statuses
<1>2. ASSUME NEW r \in Links PROVE [r EXCEPT !.fetch = "aborted"] \in Links
  BY <1>2 DEF Links, Fetches
<1>3. [Transition(l, "error") EXCEPT !.fetch = "aborted"] \in Links
  BY <1>1, <1>2, TransitionType
<1>4. [l EXCEPT !.hello = TRUE] \in Links
  BY DEF Links
<1>5. ClimbTo([l EXCEPT !.hello = TRUE], furthest) \in Links
  <2> HIDE DEF furthest
  <2> QED BY <1>1, <1>4, ClimbToType
<1> QED BY <1>3, <1>5 DEF OnHello

LEMMA OnStateType == ASSUME NEW l \in Links PROVE OnState(l) \in Links
<1>1. "resolving" \in Statuses
  BY DEF Statuses
<1>2. [l EXCEPT !.sawState = TRUE] \in Links
  BY DEF Links
<1> QED BY <1>1, <1>2, ClimbToType DEF OnState

LEMMA OnReadyType == ASSUME NEW l \in Links PROVE OnReady(l) \in Links
<1>1. "ready" \in Statuses
  BY DEF Statuses
<1>2. [l EXCEPT !.sawReady = TRUE] \in Links
  BY DEF Links
<1> QED BY <1>1, <1>2, ClimbToType, ArmIdleDropType DEF OnReady

LEMMA StreamEndedType ==
  ASSUME NEW l \in Links, NEW clean \in BOOLEAN
  PROVE  StreamEnded(l, clean) \in Links
<1> DEFINE m == [l EXCEPT !.fetch = "none", !.to = 0, !.tok = 0]
<1>1. {"asleep", "reconnecting"} \subseteq Statuses
  BY DEF Statuses
<1>2. m \in Links
  BY DEF Links, Fetches
<1>3. [m EXCEPT !.reset = @ /\ ~clean] \in Links
  <2> HIDE DEF m
  <2> QED BY <1>2 DEF Links
<1> HIDE DEF m
<1> QED BY <1>1, <1>2, <1>3, TransitionType DEF StreamEnded, m

LEMMA ScheduleRedialType == ASSUME NEW l \in Links PROVE ScheduleRedial(l) \in Links
<1>1. [l EXCEPT !.redial = TRUE] \in Links
  BY DEF Links
<1> QED BY <1>1 DEF ScheduleRedial

LEMMA WaitReadyType ==
  ASSUME NEW l \in Links, NEW c \in Clients
  PROVE  WaitReady(l, c) \in Links
<1>1. [l EXCEPT !.resolved = @ \cup {c}] \in Links
  BY DEF Links
<1>2. [l EXCEPT !.rejected = @ \cup {c}] \in Links
  BY DEF Links
<1>3. [l EXCEPT !.tracked = TRUE, !.waiting = @ \cup {c}] \in Links
  BY DEF Links
<1> QED BY <1>1, <1>2, <1>3 DEF WaitReady

LEMMA ForgetType ==
  ASSUME NEW l \in Links, NEW c \in Clients
  PROVE  Forget(l, c) \in Links
BY DEF Forget, Links

-----------------------------------------------------------------------------
(* Sound: most operators keep what Sound is about apart from the status,   *)
(* or only clear timers (Keeps).                                           *)

Keeps(m, l) ==
  /\ m.present = l.present /\ m.fetch = l.fetch /\ m.hello = l.hello /\ m.reset = l.reset
  /\ l.tracked => m.tracked
  /\ m.redial => l.redial
  /\ m.closed => l.closed
  /\ (l.idle => l.retain = 0) => (m.idle => m.retain = 0)

LEMMA KeepsTransitive ==
  ASSUME NEW l, NEW m, NEW n, Keeps(m, l), Keeps(n, m)
  PROVE  Keeps(n, l)
BY DEF Keeps

LEMMA KeepsSound ==
  ASSUME NEW l \in Links, NEW m \in Links, Sound(l), Keeps(m, l), m.status = l.status
  PROVE  Sound(m)
BY DEF Keeps, Sound

LEMMA RetainKeeps ==
  ASSUME NEW l \in Links
  PROVE  Keeps(Retain(l), l) /\ Retain(l).status = l.status
BY DEF Keeps, Retain, Links

LEMMA ArmIdleDropKeeps ==
  ASSUME NEW l \in Links
  PROVE  Keeps(ArmIdleDrop(l), l) /\ ArmIdleDrop(l).status = l.status
BY DEF Keeps, ArmIdleDrop, Links

LEMMA ReleaseTimesKeeps ==
  ASSUME NEW l \in Links, NEW n \in Nat
  PROVE  Keeps(ReleaseTimes(l, n), l) /\ ReleaseTimes(l, n).status = l.status
<1> DEFINE m == [l EXCEPT !.retain = IF @ > n THEN @ - n ELSE 0]
<1>1. m \in Links
  BY DEF Links
<1>2. Keeps(m, l) /\ m.status = l.status
  BY DEF Keeps, Links
<1>3. Keeps(l, l)
  BY DEF Keeps
<1> HIDE DEF m
<1>4. Keeps(ArmIdleDrop(m), l) /\ ArmIdleDrop(m).status = l.status
  BY <1>1, <1>2, ArmIdleDropKeeps, ArmIdleDropType, KeepsTransitive
<1> QED BY <1>3, <1>4 DEF ReleaseTimes, m

LEMMA ReleaseKeeps ==
  ASSUME NEW l \in Links
  PROVE  Keeps(Release(l), l) /\ Release(l).status = l.status
BY ReleaseTimesKeeps DEF Release

LEMMA EndWakeKeeps ==
  ASSUME NEW l \in Links
  PROVE  Keeps(EndWake(l), l) /\ EndWake(l).status = l.status
BY DEF Keeps, EndWake, Links

LEMMA UnwatchKeeps ==
  ASSUME NEW l \in Links
  PROVE  Keeps(Unwatch(l), l) /\ Unwatch(l).status = l.status
<1> DEFINE m == [l EXCEPT !.watched = FALSE]
<1>1. m \in Links /\ Keeps(m, l) /\ m.status = l.status
  BY DEF Keeps, Links
<1>2. Keeps(l, l)
  BY DEF Keeps
<1> HIDE DEF m
<1>3. Keeps(Release(m), l) /\ Release(m).status = l.status
  BY <1>1, ReleaseKeeps, KeepsTransitive
<1> QED BY <1>2, <1>3 DEF Unwatch, m

LEMMA WatchKeeps ==
  ASSUME NEW l \in Links
  PROVE  Keeps(Watch(l), l) /\ Watch(l).status = l.status
<1> DEFINE m == [l EXCEPT !.watched = TRUE]
<1>1. m \in Links /\ Keeps(m, l) /\ m.status = l.status
  BY DEF Keeps, Links
<1>2. Keeps(l, l)
  BY DEF Keeps
<1> HIDE DEF m
<1>3. Keeps(Retain(m), l) /\ Retain(m).status = l.status
  BY <1>1, RetainKeeps, KeepsTransitive
<1> QED BY <1>2, <1>3 DEF Watch, m

LEMMA ResumeKeeps ==
  ASSUME NEW l \in Links
  PROVE  /\ Keeps(Resume(l), l) /\ Resume(l).status = l.status
         /\ ~Resume(l).closed /\ ~Resume(l).redial /\ Resume(l).tracked = l.tracked
BY DEF Keeps, Resume, Links

LEMMA SetReadyKeeps ==
  ASSUME NEW l \in Links
  PROVE  Keeps(SetReady(l), l) /\ SetReady(l).status = "ready"
<1> DEFINE r == [l EXCEPT !.status = "ready"]
           m == EndWake(r)
<1>1. r \in Links /\ Keeps(r, l) /\ r.status = "ready"
  BY DEF Keeps, Links, Statuses
<1> HIDE DEF r
<1>2. m \in Links /\ Keeps(m, l) /\ m.status = "ready"
  BY <1>1, EndWakeType, EndWakeKeeps, KeepsTransitive
<1> HIDE DEF m
<1>3. Keeps(Resume(Watch(m)), l) /\ Resume(Watch(m)).status = "ready"
  BY <1>2, WatchType, WatchKeeps, ResumeKeeps, KeepsTransitive
<1>4. Keeps(Unwatch(m), l) /\ Unwatch(m).status = "ready"
  BY <1>2, UnwatchKeeps, KeepsTransitive
<1> QED BY <1>3, <1>4 DEF SetReady, m, r

LEMMA SetStatusKeeps ==
  ASSUME NEW l \in Links, NEW s \in Statuses
  PROVE  Keeps(SetStatus(l, s), l) /\ SetStatus(l, s).status = s
<1> DEFINE r == [l EXCEPT !.status = s]
<1>1. r \in Links /\ Keeps(r, l) /\ r.status = s
  BY DEF Keeps, Links
<1> HIDE DEF r
<1>2. Keeps(Unwatch(EndWake(r)), l) /\ Unwatch(EndWake(r)).status = s
  BY <1>1, EndWakeType, EndWakeKeeps, UnwatchKeeps, KeepsTransitive
<1> QED BY <1>2, SetReadyKeeps DEF SetStatus, r

LEMMA FlushKeeps ==
  ASSUME NEW l \in Links, NEW s \in Statuses
  PROVE  Keeps(Flush(l, s), l) /\ Flush(l, s).status = l.status
<1>1. Keeps([l EXCEPT !.resolved = @ \cup l.waiting, !.waiting = {}], l)
  BY DEF Keeps, Links
<1>2. Keeps([l EXCEPT !.rejected = @ \cup l.waiting, !.waiting = {}], l)
  BY DEF Keeps, Links
<1>3. Keeps(l, l)
  BY DEF Keeps
<1>4. /\ [l EXCEPT !.resolved = @ \cup l.waiting, !.waiting = {}].status = l.status
      /\ [l EXCEPT !.rejected = @ \cup l.waiting, !.waiting = {}].status = l.status
  BY DEF Links
<1> QED BY <1>1, <1>2, <1>3, <1>4 DEF Flush

LEMMA TransitionKeeps ==
  ASSUME NEW l \in Links, NEW s \in Statuses
  PROVE  /\ Keeps(Transition(l, s), l)
         /\ Transition(l, s).status = IF l.present THEN s ELSE l.status
<1>1. Keeps(l, l)
  BY DEF Keeps
<1>2. Keeps(Flush(SetStatus(l, s), s), l) /\ Flush(SetStatus(l, s), s).status = s
  BY SetStatusType, SetStatusKeeps, FlushKeeps, KeepsTransitive
<1> QED BY <1>1, <1>2 DEF Transition

LEMMA ClimbToKeeps ==
  ASSUME NEW l \in Links, NEW s \in Statuses
  PROVE  /\ Keeps(ClimbTo(l, s), l)
         /\ ClimbTo(l, s).status \in {s, l.status}
<1>1. Keeps(l, l)
  BY DEF Keeps
<1> QED BY <1>1, TransitionKeeps DEF ClimbTo

-----------------------------------------------------------------------------
(* Sound, operator by operator.                                            *)

LEMMA TransitionSound ==
  ASSUME NEW l \in Links, NEW s \in Statuses, Sound(l),
         l.redial => s = "reconnecting",
         l.fetch = "pending" => s \in {"connecting", "reconnecting"},
         l.fetch = "open" /\ s \in Drivable => l.hello
  PROVE  Sound(Transition(l, s))
<1> DEFINE m == Transition(l, s)
<1>1. Keeps(m, l) /\ m.status = IF l.present THEN s ELSE l.status
  BY TransitionKeeps
<1> HIDE DEF m
<1>2. Sound(m)
  BY <1>1 DEF Keeps, Sound
<1> QED BY <1>2 DEF m

LEMMA ClimbToSound ==
  ASSUME NEW l \in Links, NEW s \in Statuses, Sound(l),
         l.fetch \notin {"none", "pending"}, l.hello
  PROVE  Sound(ClimbTo(l, s))
<1>1. ~l.redial
  BY DEF Sound
<1>2. Sound(Transition(l, s))
  BY <1>1, TransitionSound
<1> QED BY <1>2 DEF ClimbTo

LEMMA LetGoFields ==
  ASSUME NEW l \in Links
  PROVE  /\ LetGo(l).present = l.present /\ LetGo(l).tracked = l.tracked
         /\ LetGo(l).redial = l.redial /\ LetGo(l).closed = l.closed
         /\ LetGo(l).status = l.status /\ LetGo(l).fetch = "none"
         /\ LetGo(l).idle = l.idle /\ LetGo(l).retain = l.retain
         /\ LetGo(l).hello = l.hello
<1>1. ASSUME NEW b \in BOOLEAN, NEW g, g = [l EXCEPT !.stale = b, !.fetch = "none", !.to = 0, !.tok = 0]
      PROVE  /\ g.present = l.present /\ g.tracked = l.tracked
             /\ g.redial = l.redial /\ g.closed = l.closed
             /\ g.status = l.status /\ g.fetch = "none"
             /\ g.idle = l.idle /\ g.retain = l.retain /\ g.hello = l.hello
  BY <1>1 DEF Links
<1>2. (l.stale \/ l.fetch # "none") \in BOOLEAN
  OBVIOUS
<1> QED BY <1>1, <1>2 DEF LetGo

LEMMA UnheardFields ==
  ASSUME NEW l \in Links
  PROVE  /\ Unheard(l).present = l.present /\ Unheard(l).tracked = l.tracked
         /\ Unheard(l).redial = l.redial /\ Unheard(l).closed = l.closed
         /\ Unheard(l).status = l.status /\ Unheard(l).fetch = l.fetch
         /\ Unheard(l).idle = l.idle /\ Unheard(l).retain = l.retain
         /\ ~Unheard(l).hello
BY DEF Unheard, Links

LEMMA DialSound ==
  ASSUME NEW l \in Links, Sound(l), l.present, l.tracked, l.fetch = "none", ~l.redial, ~l.closed,
         l.status \in {"connecting", "reconnecting"}
  PROVE  Sound(Dial(l))
<1> DEFINE m == Unheard(l)
           g == LetGo(m)
           d == [g EXCEPT !.fetch = "pending", !.to = l.endpoint, !.tok = l.token]
<1>1. /\ m \in Links
      /\ m.present /\ m.tracked /\ m.fetch = "none" /\ ~m.redial /\ ~m.closed /\ ~m.hello
      /\ m.status = l.status /\ (m.idle => m.retain = 0)
  BY UnheardType, UnheardFields DEF Sound
<1> HIDE DEF m
<1>2. Sound(Transition(m, "error"))
  BY <1>1, TransitionSound DEF Sound, Statuses
<1>3. /\ g \in Links
      /\ g.present /\ g.tracked /\ ~g.redial /\ ~g.closed /\ ~g.hello
      /\ g.status = l.status /\ (g.idle => g.retain = 0)
  BY <1>1, LetGoType, LetGoFields
<1> HIDE DEF g
<1>4. Sound(d)
  BY <1>3 DEF Sound, Links
<1> QED BY <1>2, <1>4 DEF Dial, m, g

LEMMA ConnectSound ==
  ASSUME NEW l \in Links, Sound(l)
  PROVE  Sound(Connect(l))
<1>1. CASE ~l.present
  BY <1>1 DEF Connect
<1>2. CASE l.present
  <2> DEFINE e == Ensure(l)
             m == Resume(e)
             t == Transition(m, "connecting")
  <2>1. e \in Links /\ Sound(e) /\ e.present /\ e.tracked
    BY <1>2, EnsureType DEF Ensure, Sound, Links
  <2> HIDE DEF e
  <2>2. m \in Links /\ Sound(m) /\ m.present /\ m.tracked /\ ~m.closed /\ ~m.redial
    BY <2>1, ResumeType, ResumeKeeps, KeepsSound DEF Keeps
  <2> HIDE DEF m
  <2>3. CASE m.fetch = "none"
    <3>1. t \in Links /\ Keeps(t, m) /\ t.status = "connecting"
      BY <2>2, TransitionType, TransitionKeeps DEF Statuses
    <3>2. Sound(t)
      BY <2>2, <2>3, TransitionSound DEF Statuses
    <3> HIDE DEF t
    <3>3. Sound(Dial(t))
      BY <2>2, <2>3, <3>1, <3>2, DialSound DEF Keeps
    <3> QED BY <1>2, <2>3, <3>3 DEF Connect, m, e, t
  <2>4. CASE m.fetch # "none"
    BY <1>2, <2>2, <2>4 DEF Connect, m, e
  <2> QED BY <2>3, <2>4
<1> QED BY <1>1, <1>2

\* After disconnect() nothing is in flight.
Quiet(l) == l.fetch = "none" /\ ~l.redial

LEMMA DisconnectSound ==
  ASSUME NEW l \in Links, Sound(l)
  PROVE  Sound(Disconnect(l)) /\ Quiet(Disconnect(l)) /\ Disconnect(l).present = l.present
<1> DEFINE g == LetGo(l)
<1>1. /\ g \in Links
      /\ g.present = l.present /\ g.tracked = l.tracked /\ g.fetch = "none"
  BY LetGoType, LetGoFields
<1> HIDE DEF g
<1> DEFINE d == [g EXCEPT !.closed = TRUE, !.redial = FALSE, !.idle = FALSE]
<1>2. Sound(d) /\ Quiet(d) /\ d.present = l.present
  BY <1>1 DEF Sound, Quiet, Links
<1> QED BY <1>2 DEF Disconnect, g, Sound, Quiet

LEMMA DropSound ==
  ASSUME NEW l \in Links, Sound(l)
  PROVE  Sound(Drop(l)) /\ Quiet(Drop(l))
<1> DEFINE d == Disconnect(l)
           r == RejectAll(d)
           u == Unheard(r)
           n == [u EXCEPT !.tracked = FALSE, !.closed = FALSE, !.retain = 0]
<1>1. d \in Links /\ Sound(d) /\ Quiet(d)
  BY DisconnectSound, DisconnectType
<1> HIDE DEF d
<1>2. r \in Links /\ Sound(r) /\ Quiet(r)
  BY <1>1, RejectAllType DEF RejectAll, Sound, Quiet, Links
<1> HIDE DEF r
<1>3. u \in Links /\ Quiet(u) /\ (u.idle => u.retain = 0)
  BY <1>2, UnheardType, UnheardFields DEF Sound, Quiet
<1> HIDE DEF u
<1>4. Sound(n) /\ Quiet(n)
  BY <1>3 DEF Sound, Quiet, Links
<1>5. ~l.tracked => Quiet(l)
  BY DEF Sound, Quiet
<1> QED BY <1>4, <1>5 DEF Drop, d, r, u

LEMMA RegistryChangedSound ==
  ASSUME NEW l \in Links, Sound(l)
  PROVE  Sound(RegistryChanged(l))
<1> DEFINE m == EndWake(l)
<1>1. m \in Links /\ Sound(m)
  BY EndWakeType, EndWakeKeeps, KeepsSound
<1> HIDE DEF m
<1>2. Sound(Connect(Watch(m))) /\ Sound(Unwatch(m))
  BY <1>1, WatchType, WatchKeeps, UnwatchType, UnwatchKeeps, KeepsSound, ConnectSound
<1> QED BY <1>2 DEF RegistryChanged, m

LEMMA RemoveSound ==
  ASSUME NEW l \in Links, Sound(l), Quiet(l)
  PROVE  Sound(Remove(l))
<1> DEFINE m == [l EXCEPT !.present = FALSE]
<1>1. m \in Links /\ Sound(m)
  BY DEF Sound, Quiet, Links
<1> HIDE DEF m
<1> QED BY <1>1, RegistryChangedSound DEF Remove, m

LEMMA NewLinkSound ==
  ASSUME NEW s \in Statuses, NEW e \in Nat, NEW t \in Nat
  PROVE  Sound(NewLink(s, e, t))
BY DEF NewLink, Sound

LEMMA BootSound ==
  ASSUME NEW l \in Links, NEW spawned \in BOOLEAN
  PROVE  Sound(Boot(l, spawned))
<1> DEFINE m == NewLink(BootStatus(l.status, spawned), l.endpoint, l.token)
<1>1. BootStatus(l.status, spawned) \in Statuses
  BY DEF BootStatus, Links, Statuses
<1>2. m \in Links /\ Sound(m)
  BY <1>1, NewLinkType, NewLinkSound DEF Links
<1>3. Sound([m EXCEPT !.present = FALSE, !.tracked = FALSE])
  BY DEF NewLink, Sound
<1> HIDE DEF m
<1> QED BY <1>2, <1>3, ConnectSound DEF Boot, m

-----------------------------------------------------------------------------
(* The frames and the end of a stream.                                     *)

\* A frame is only read from a live stream, or from a rejected one.
Reading(l) == l.fetch = "open" \/ (l.fetch = "aborted" /\ l.status = "error")

LEMMA OnHelloSound ==
  ASSUME NEW l \in Links, NEW accepted \in BOOLEAN, Sound(l), Reading(l)
  PROVE  Sound(OnHello(l, accepted))
<1> DEFINE furthest == IF l.sawReady THEN "ready" ELSE IF l.sawState THEN "resolving" ELSE "session"
           e == Transition(l, "error")
           a == [e EXCEPT !.fetch = "aborted"]
           h == [l EXCEPT !.hello = TRUE]
<1>1. /\ e \in Links /\ Sound(e) /\ e.fetch # "none"
  <2>1. ~l.redial /\ "error" \in Statuses /\ l.fetch # "pending" /\ l.fetch # "none"
    BY DEF Sound, Statuses, Reading
  <2> QED BY <2>1, TransitionType, TransitionKeeps, TransitionSound DEF Keeps, Drivable
<1> HIDE DEF e
<1>2. Sound(a)
  BY <1>1 DEF Sound, Links
<1>3. h \in Links /\ Sound(h) /\ h.fetch \notin {"none", "pending"} /\ h.hello
  BY DEF Sound, Links, Reading
<1> HIDE DEF h
<1>4. Sound(ClimbTo(h, furthest))
  <2>1. furthest \in Statuses
    BY DEF Statuses
  <2> HIDE DEF furthest
  <2> QED BY <1>3, <2>1, ClimbToSound
<1> QED BY <1>2, <1>4 DEF OnHello, e, h

LEMMA OnStateSound ==
  ASSUME NEW l \in Links, Sound(l), Reading(l)
  PROVE  Sound(OnState(l))
<1> DEFINE m == [l EXCEPT !.sawState = TRUE]
<1>1. m \in Links /\ Sound(m) /\ m.fetch \notin {"none", "pending"}
  BY DEF Sound, Links, Reading
<1>2. "resolving" \in Statuses
  BY DEF Statuses
<1> HIDE DEF m
<1>3. m.hello => Sound(ClimbTo(m, "resolving"))
  BY <1>1, <1>2, ClimbToSound
<1> QED BY <1>1, <1>3 DEF OnState, m

LEMMA OnReadySound ==
  ASSUME NEW l \in Links, Sound(l), Reading(l)
  PROVE  Sound(OnReady(l))
<1> DEFINE m == [l EXCEPT !.sawReady = TRUE]
<1>1. m \in Links /\ Sound(m) /\ m.fetch \notin {"none", "pending"}
  BY DEF Sound, Links, Reading
<1>2. "ready" \in Statuses
  BY DEF Statuses
<1> HIDE DEF m
<1> DEFINE k == IF m.hello THEN ClimbTo(m, "ready") ELSE m
<1>3. k \in Links /\ Sound(k)
  BY <1>1, <1>2, ClimbToSound, ClimbToType
<1> HIDE DEF k
<1>4. Sound(ArmIdleDrop(k))
  BY <1>3, ArmIdleDropType, ArmIdleDropKeeps, KeepsSound
<1> QED BY <1>4 DEF OnReady, m, k

LEMMA StreamEndedSound ==
  ASSUME NEW l \in Links, NEW clean \in BOOLEAN, Sound(l), l.fetch # "none"
  PROVE  /\ Sound(StreamEnded(l, clean))
         /\ StreamEnded(l, clean).fetch = "none"
         /\ StreamEnded(l, clean).tracked
         /\ Redials(l, clean) => StreamEnded(l, clean).status = "reconnecting"
<1> DEFINE m == [l EXCEPT !.fetch = "none", !.to = 0, !.tok = 0]
           r == [m EXCEPT !.reset = @ /\ ~clean]
<1>1. /\ m \in Links /\ Sound(m)
      /\ m.fetch = "none" /\ m.tracked /\ m.present /\ ~m.redial
      /\ m.status = l.status /\ m.closed = l.closed /\ m.reset = l.reset
  BY DEF Sound, Links, Fetches
<1> HIDE DEF m
<1>2. /\ r \in Links /\ Sound(r)
      /\ r.fetch = "none" /\ r.tracked /\ r.present /\ ~r.redial
  BY <1>1 DEF Sound, Links
<1> HIDE DEF r
<1>3. "asleep" \in Statuses /\ "reconnecting" \in Statuses
  BY DEF Statuses
<1>4. Sound(Transition(m, "asleep")) /\ Keeps(Transition(m, "asleep"), m)
  BY <1>1, <1>3, TransitionSound, TransitionKeeps
<1>5. /\ Sound(Transition(r, "reconnecting")) /\ Keeps(Transition(r, "reconnecting"), r)
      /\ Transition(r, "reconnecting").status = "reconnecting"
  BY <1>2, <1>3, TransitionSound, TransitionKeeps
<1>6. CASE ~m.present \/ m.closed \/ m.status = "error"
  BY <1>1, <1>6 DEF StreamEnded, Redials, m
<1>7. CASE ~(~m.present \/ m.closed \/ m.status = "error") /\ clean /\ ~m.reset
  BY <1>1, <1>4, <1>7 DEF StreamEnded, Redials, Keeps, m
<1>8. CASE ~(~m.present \/ m.closed \/ m.status = "error") /\ ~(clean /\ ~m.reset)
  BY <1>1, <1>2, <1>5, <1>8 DEF StreamEnded, Redials, Keeps, m, r
<1> QED BY <1>6, <1>7, <1>8

LEMMA ScheduleRedialSound ==
  ASSUME NEW l \in Links, Sound(l), l.fetch = "none", l.tracked, l.status = "reconnecting"
  PROVE  Sound(ScheduleRedial(l))
<1>1. ~l.closed => Sound([l EXCEPT !.redial = TRUE])
  BY DEF Sound, Links
<1> QED BY <1>1 DEF ScheduleRedial

LEMMA WaitReadySound ==
  ASSUME NEW l \in Links, NEW c \in Clients, Sound(l)
  PROVE  Sound(WaitReady(l, c))
<1>1. Sound([l EXCEPT !.resolved = @ \cup {c}])
  BY DEF Sound, Links
<1>2. Sound([l EXCEPT !.rejected = @ \cup {c}])
  BY DEF Sound, Links
<1>3. Sound([l EXCEPT !.tracked = TRUE, !.waiting = @ \cup {c}])
  BY DEF Sound, Links
<1> QED BY <1>1, <1>2, <1>3 DEF WaitReady

LEMMA ForgetSound ==
  ASSUME NEW l \in Links, NEW c \in Clients, Sound(l)
  PROVE  Sound(Forget(l, c))
BY DEF Forget, Sound, Links

LEMMA EnsureSound == ASSUME NEW l \in Links, Sound(l) PROVE Sound(Ensure(l))
BY DEF Ensure, Sound, Links

-----------------------------------------------------------------------------
(* The holders and the waiters.  Holds counts the holders of a tracked     *)
(* daemon besides the watch; an operator that is Neutral keeps the count   *)
(* and settles nobody.                                                     *)

Holds(l, n) == l.tracked /\ l.retain = n + (IF l.watched THEN 1 ELSE 0)

SameWaiters(m, l) == m.waiting = l.waiting /\ m.resolved = l.resolved

SameHolders(m, l) == \A n \in Nat : Holds(l, n) => Holds(m, n)

Neutral(m, l) == SameWaiters(m, l) /\ SameHolders(m, l)

LEMMA NeutralTransitive ==
  ASSUME NEW l, NEW m, NEW n, Neutral(m, l), Neutral(n, m)
  PROVE  Neutral(n, l)
BY DEF Neutral, SameWaiters, SameHolders

LEMMA NeutralReflexive == ASSUME NEW l PROVE Neutral(l, l)
BY DEF Neutral, SameWaiters, SameHolders

\* An operator that touches neither field the two are about.
LEMMA NeutralFields ==
  ASSUME NEW l, NEW m, m.waiting = l.waiting, m.resolved = l.resolved,
         m.retain = l.retain, m.watched = l.watched, l.tracked => m.tracked
  PROVE  Neutral(m, l)
BY DEF Neutral, SameWaiters, SameHolders, Holds

LEMMA RetainHolds ==
  ASSUME NEW l \in Links, NEW n \in Nat, Holds(l, n)
  PROVE  Holds(Retain(l), n + 1)
BY DEF Retain, Holds, Links

LEMMA RetainWaiters == ASSUME NEW l \in Links PROVE SameWaiters(Retain(l), l)
BY DEF Retain, SameWaiters, Links

LEMMA ArmIdleDropNeutral == ASSUME NEW l \in Links PROVE Neutral(ArmIdleDrop(l), l)
<1>1. Neutral([l EXCEPT !.idle = TRUE], l)
  BY NeutralFields DEF Links
<1> QED BY <1>1, NeutralReflexive DEF ArmIdleDrop

LEMMA ReleaseTimesHolds ==
  ASSUME NEW l \in Links, NEW n \in Nat, NEW k \in 0..n, Holds(l, n)
  PROVE  Holds(ReleaseTimes(l, k), n - k)
<1> DEFINE m == [l EXCEPT !.retain = IF @ > k THEN @ - k ELSE 0]
<1>1. m \in Links /\ Holds(m, n - k) /\ n - k \in Nat
  BY DEF Links, Holds
<1> HIDE DEF m
<1>2. Holds(ArmIdleDrop(m), n - k)
  BY <1>1, ArmIdleDropNeutral DEF Neutral, SameHolders
<1>3. k = 0 => Holds(l, n - k)
  OBVIOUS
<1> QED BY <1>2, <1>3 DEF ReleaseTimes, m, Holds

LEMMA ReleaseTimesWaiters ==
  ASSUME NEW l \in Links, NEW k \in Nat
  PROVE  SameWaiters(ReleaseTimes(l, k), l)
<1> DEFINE m == [l EXCEPT !.retain = IF @ > k THEN @ - k ELSE 0]
<1>1. m \in Links /\ SameWaiters(m, l)
  BY DEF Links, SameWaiters
<1> HIDE DEF m
<1>2. SameWaiters(ArmIdleDrop(m), l)
  BY <1>1, ArmIdleDropNeutral DEF Neutral, SameWaiters
<1> QED BY <1>2 DEF ReleaseTimes, SameWaiters, m

LEMMA EndWakeNeutral == ASSUME NEW l \in Links PROVE Neutral(EndWake(l), l)
BY NeutralFields DEF EndWake, Links

LEMMA UnwatchNeutral == ASSUME NEW l \in Links PROVE Neutral(Unwatch(l), l)
<1> DEFINE m == [l EXCEPT !.watched = FALSE]
<1>1. m \in Links /\ SameWaiters(m, l)
  BY DEF Links, SameWaiters
<1>2. ASSUME NEW n \in Nat, Holds(l, n), l.watched
      PROVE  Holds(m, n + 1) /\ ~m.watched
  BY <1>2 DEF Holds, Links
<1> HIDE DEF m
<1>3. ASSUME NEW n \in Nat, Holds(l, n), l.watched
      PROVE  Holds(Release(m), n)
  <2>1. Holds(ReleaseTimes(m, 1), (n + 1) - 1)
    BY <1>1, <1>2, <1>3, ReleaseTimesHolds
  <2> QED BY <2>1 DEF Release
<1>4. SameWaiters(Release(m), l)
  BY <1>1, ReleaseTimesWaiters DEF Release, SameWaiters
<1>5. l.watched => Neutral(Release(m), l)
  BY <1>3, <1>4 DEF Neutral, SameHolders
<1> QED BY <1>5, NeutralReflexive DEF Unwatch, m

LEMMA WatchNeutral == ASSUME NEW l \in Links PROVE Neutral(Watch(l), l)
<1> DEFINE m == [l EXCEPT !.watched = TRUE]
<1>1. Retain(m) = [m EXCEPT !.tracked = TRUE, !.retain = @ + 1, !.idle = FALSE]
  BY DEF Retain
<1>2. SameWaiters(Retain(m), l)
  BY DEF Retain, SameWaiters, Links
<1>3. ASSUME NEW n \in Nat, Holds(l, n), ~l.watched
      PROVE  Holds(Retain(m), n)
  BY <1>3 DEF Retain, Holds, Links
<1>4. ~l.watched => Neutral(Retain(m), l)
  BY <1>2, <1>3 DEF Neutral, SameHolders
<1> QED BY <1>4, NeutralReflexive DEF Watch

LEMMA ResumeNeutral == ASSUME NEW l \in Links PROVE Neutral(Resume(l), l)
BY NeutralFields DEF Resume, Links

LEMMA EnsureNeutral == ASSUME NEW l \in Links PROVE Neutral(Ensure(l), l)
BY NeutralFields DEF Ensure, Links

LEMMA UnheardNeutral == ASSUME NEW l \in Links PROVE Neutral(Unheard(l), l)
BY NeutralFields DEF Unheard, Links

LEMMA LetGoNeutral == ASSUME NEW l \in Links PROVE Neutral(LetGo(l), l)
<1>1. ASSUME NEW b \in BOOLEAN
      PROVE  Neutral([l EXCEPT !.stale = b, !.fetch = "none", !.to = 0, !.tok = 0], l)
  BY NeutralFields DEF Links
<1>2. (l.stale \/ l.fetch # "none") \in BOOLEAN
  OBVIOUS
<1> QED BY <1>1, <1>2 DEF LetGo

LEMMA SetReadyNeutral == ASSUME NEW l \in Links PROVE Neutral(SetReady(l), l)
<1> DEFINE r == [l EXCEPT !.status = "ready"]
           m == EndWake(r)
<1>1. r \in Links /\ Neutral(r, l)
  BY NeutralFields DEF Links, Statuses
<1> HIDE DEF r
<1>2. m \in Links /\ Neutral(m, l)
  BY <1>1, EndWakeType, EndWakeNeutral, NeutralTransitive
<1> HIDE DEF m
<1>3. Neutral(Resume(Watch(m)), l)
  BY <1>2, WatchType, WatchNeutral, ResumeNeutral, NeutralTransitive
<1>4. Neutral(Unwatch(m), l)
  BY <1>2, UnwatchNeutral, NeutralTransitive
<1> QED BY <1>3, <1>4 DEF SetReady, m, r

LEMMA SetStatusNeutral ==
  ASSUME NEW l \in Links, NEW s \in Statuses
  PROVE  Neutral(SetStatus(l, s), l)
<1> DEFINE r == [l EXCEPT !.status = s]
<1>1. r \in Links /\ Neutral(r, l)
  BY NeutralFields DEF Links
<1> HIDE DEF r
<1>2. Neutral(Unwatch(EndWake(r)), l)
  BY <1>1, EndWakeType, EndWakeNeutral, UnwatchNeutral, NeutralTransitive
<1> QED BY <1>2, SetReadyNeutral DEF SetStatus, r

LEMMA FlushHolders ==
  ASSUME NEW l \in Links, NEW s \in Statuses
  PROVE  SameHolders(Flush(l, s), l)
<1>1. SameHolders([l EXCEPT !.resolved = @ \cup l.waiting, !.waiting = {}], l)
  BY DEF SameHolders, Holds, Links
<1>2. SameHolders([l EXCEPT !.rejected = @ \cup l.waiting, !.waiting = {}], l)
  BY DEF SameHolders, Holds, Links
<1>3. SameHolders(l, l)
  BY DEF SameHolders
<1> QED BY <1>1, <1>2, <1>3 DEF Flush

\* A daemon that is in error, or ready on a live stream, has no waiters.
Settled(l) ==
  l.present /\ (l.status = "error" \/ (l.status = "ready" /\ Connected(l))) => l.waiting = {}

\* What every transition does for the holders and the waiters, and what it
\* resolves nobody into.
LEMMA TransitionTends ==
  ASSUME NEW l \in Links, NEW s \in Statuses
  PROVE  /\ SameHolders(Transition(l, s), l) /\ Settled(Transition(l, s))
         /\ s # "ready" => Transition(l, s).resolved = l.resolved
<1> DEFINE m == SetStatus(l, s)
<1>1. m \in Links /\ m.status = s /\ m.present = l.present /\ Neutral(m, l)
  BY SetStatusType, SetStatusKeeps, SetStatusNeutral DEF Keeps
<1> HIDE DEF m
<1>2. SameHolders(Flush(m, s), l)
  BY <1>1, FlushHolders DEF Neutral, SameHolders
<1>3. Flush(m, s).status = s
  BY <1>1, FlushKeeps
<1>4. s \in {"ready", "error"} => Flush(m, s).waiting = {}
  BY <1>1 DEF Flush, Links
<1>5. Settled(Flush(m, s))
  BY <1>3, <1>4 DEF Settled
<1>6. s # "ready" => Flush(m, s).resolved = l.resolved
  BY <1>1 DEF Flush, Links, Neutral, SameWaiters
<1>7. SameHolders(l, l) /\ (~l.present => Settled(l))
  BY DEF SameHolders, Settled
<1> QED BY <1>2, <1>5, <1>6, <1>7 DEF Transition, m

\* What an operator that makes nobody ready does for them.
Tended(m, l) == SameHolders(m, l) /\ Settled(m) /\ m.resolved \subseteq l.resolved

LEMMA TendedTransitive ==
  ASSUME NEW l, NEW m, NEW n, Neutral(m, l) \/ Tended(m, l), Tended(n, m)
  PROVE  Tended(n, l)
BY DEF Tended, Neutral, SameHolders, SameWaiters

\* A link whose request, status and waiters are the same is as settled.
LEMMA NeutralTends ==
  ASSUME NEW l, NEW m, Sound(l), Settled(l), Neutral(m, l),
         m.present = l.present, m.status = l.status, m.fetch = l.fetch
  PROVE  Tended(m, l)
<1>1. Connected(m) => Connected(l)
  BY DEF Connected, Sound
<1>2. Settled(m)
  BY <1>1 DEF Settled, Neutral, SameWaiters
<1> QED BY <1>2 DEF Tended, Neutral, SameWaiters

LEMMA KeepsTends ==
  ASSUME NEW l, NEW m, Sound(l), Settled(l), Neutral(m, l), Keeps(m, l), m.status = l.status
  PROVE  Tended(m, l)
BY NeutralTends DEF Keeps

\* So is one that has lost its request.
LEMMA ReleasedTends ==
  ASSUME NEW l, NEW m, Settled(l), Neutral(m, l),
         m.present = l.present, m.status = l.status, m.fetch \in {"none", "pending"}
  PROVE  Tended(m, l)
<1>1. ~Connected(m)
  BY DEF Connected
<1>2. Settled(m)
  BY <1>1 DEF Settled, Neutral, SameWaiters
<1> QED BY <1>2 DEF Tended, Neutral, SameWaiters

LEMMA DialTends ==
  ASSUME NEW l \in Links, Settled(l)
  PROVE  Tended(Dial(l), l) /\ Dial(l).status \in {l.status, "error"}
<1> DEFINE m == Unheard(l)
           g == LetGo(m)
           d == [g EXCEPT !.fetch = "pending", !.to = l.endpoint, !.tok = l.token]
<1>1. m \in Links /\ Neutral(m, l) /\ m.present = l.present /\ m.status = l.status
  BY UnheardType, UnheardNeutral, UnheardFields
<1> HIDE DEF m
<1>2. Tended(Transition(m, "error"), l) /\ Transition(m, "error").status \in {l.status, "error"}
  <2>1. "error" \in Statuses
    BY DEF Statuses
  <2> QED BY <1>1, <2>1, TransitionTends, TransitionKeeps DEF Tended, Neutral, SameHolders, SameWaiters
<1>3. g \in Links /\ Neutral(g, l) /\ g.present = l.present /\ g.status = l.status
  BY <1>1, LetGoType, LetGoNeutral, LetGoFields, NeutralTransitive
<1> HIDE DEF g
<1>4. /\ d.present = l.present /\ d.status = l.status /\ d.fetch = "pending" /\ Neutral(d, g)
  BY <1>3, NeutralFields DEF Links
<1> HIDE DEF d
<1>5. Tended(d, l)
  BY <1>3, <1>4, NeutralTransitive, ReleasedTends
<1> QED BY <1>2, <1>4, <1>5 DEF Dial, m, g, d

LEMMA ConnectTends ==
  ASSUME NEW l \in Links, Sound(l), Settled(l)
  PROVE  Tended(Connect(l), l) /\ Connect(l).status \in {l.status, "connecting", "error"}
<1>1. CASE ~l.present
  BY <1>1, NeutralReflexive DEF Connect, Tended, Settled, Neutral, SameHolders
<1>2. CASE l.present
  <2> DEFINE e == Ensure(l)
             m == Resume(e)
             t == Transition(m, "connecting")
  <2>1. e \in Links /\ Neutral(e, l) /\ e.present = l.present /\ e.status = l.status /\ e.fetch = l.fetch
    BY EnsureType, EnsureNeutral DEF Ensure, Links
  <2> HIDE DEF e
  <2>2. m \in Links /\ Neutral(m, l) /\ m.present = l.present /\ m.status = l.status /\ m.fetch = l.fetch
    BY <2>1, ResumeType, ResumeKeeps, ResumeNeutral, NeutralTransitive DEF Keeps
  <2> HIDE DEF m
  <2>3. Tended(m, l)
    BY <2>2, NeutralTends
  <2>4. "connecting" \in Statuses
    BY DEF Statuses
  <2>5. t \in Links /\ Tended(t, m) /\ t.status = "connecting"
    BY <1>2, <2>2, <2>4, TransitionType, TransitionTends, TransitionKeeps DEF Tended
  <2> HIDE DEF t
  <2>6. Tended(Dial(t), l) /\ Dial(t).status \in {"connecting", "error"}
    <3>1. Tended(Dial(t), t) /\ Dial(t).status \in {"connecting", "error"}
      BY <2>5, DialTends DEF Tended
    <3> QED BY <2>3, <2>5, <3>1, TendedTransitive
  <2> QED BY <1>2, <2>2, <2>3, <2>6 DEF Connect, m, e, t
<1> QED BY <1>1, <1>2

LEMMA DisconnectTends ==
  ASSUME NEW l \in Links, Sound(l), Settled(l)
  PROVE  /\ Tended(Disconnect(l), l) /\ Neutral(Disconnect(l), l)
         /\ Disconnect(l).status = l.status
<1> DEFINE g == LetGo(l)
           d == [g EXCEPT !.closed = TRUE, !.redial = FALSE, !.idle = FALSE]
<1>1. /\ g \in Links /\ Neutral(g, l)
      /\ g.present = l.present /\ g.status = l.status /\ g.fetch = "none"
  BY LetGoType, LetGoFields, LetGoNeutral
<1> HIDE DEF g
<1>2. Neutral(d, g) /\ d.present = g.present /\ d.status = g.status /\ d.fetch = "none"
  BY <1>1, NeutralFields DEF Links
<1> HIDE DEF d
<1>3. Tended(d, l) /\ Neutral(d, l)
  BY <1>1, <1>2, NeutralTransitive, ReleasedTends
<1>4. Neutral(l, l) /\ Tended(l, l)
  BY NeutralReflexive, NeutralTends
<1> QED BY <1>1, <1>2, <1>3, <1>4 DEF Disconnect, d, g

LEMMA RegistryChangedTends ==
  ASSUME NEW l \in Links, Sound(l), Settled(l)
  PROVE  /\ Tended(RegistryChanged(l), l)
         /\ l.status # "ready" => RegistryChanged(l).status = l.status
<1> DEFINE m == EndWake(l)
<1>1. m \in Links /\ Sound(m) /\ Tended(m, l) /\ m.status = l.status
  BY EndWakeType, EndWakeKeeps, EndWakeNeutral, KeepsSound, KeepsTends
<1> HIDE DEF m
<1> DEFINE w == Watch(m)
<1>2. w \in Links /\ Sound(w) /\ Tended(w, m)
  BY <1>1, WatchType, WatchKeeps, WatchNeutral, KeepsSound, KeepsTends DEF Tended
<1> HIDE DEF w
<1>3. Tended(Connect(w), l)
  BY <1>1, <1>2, ConnectTends, TendedTransitive DEF Tended
<1>4. Tended(Unwatch(m), l) /\ Unwatch(m).status = l.status
  BY <1>1, UnwatchKeeps, UnwatchNeutral, KeepsTends, TendedTransitive DEF Tended
<1> QED BY <1>1, <1>3, <1>4 DEF RegistryChanged, m, w

\* Removing a daemon settles nobody into it.
LEMMA DropResolves ==
  ASSUME NEW l \in Links
  PROVE  Drop(l).resolved = l.resolved /\ Drop(l).status = l.status
<1> DEFINE g == LetGo(l)
           d == Disconnect(l)
           r == RejectAll(d)
           u == Unheard(r)
<1>1. l.tracked => d = [g EXCEPT !.closed = TRUE, !.redial = FALSE, !.idle = FALSE]
  BY DEF Disconnect
<1>2. g \in Links /\ g.resolved = l.resolved /\ g.status = l.status
  BY LetGoType, LetGoFields, LetGoNeutral DEF Neutral, SameWaiters
<1> HIDE DEF g
<1>3. d \in Links /\ (l.tracked => d.resolved = l.resolved /\ d.status = l.status)
  BY <1>1, <1>2, DisconnectType DEF Links
<1> HIDE DEF d
<1>4. r \in Links /\ (l.tracked => r.resolved = l.resolved /\ r.status = l.status)
  BY <1>3, RejectAllType DEF RejectAll, Links
<1> HIDE DEF r
<1>5. u \in Links /\ (l.tracked => u.resolved = l.resolved /\ u.status = l.status)
  BY <1>4, UnheardType, UnheardFields, UnheardNeutral DEF Neutral, SameWaiters
<1> HIDE DEF u
<1>6. LET n == [u EXCEPT !.tracked = FALSE, !.closed = FALSE, !.retain = 0]
      IN  n.resolved = u.resolved /\ n.status = u.status
  BY <1>5 DEF Links
<1> QED BY <1>5, <1>6 DEF Drop, d, r, u

LEMMA RemoveResolves ==
  ASSUME NEW l \in Links
  PROVE  ~Remove(l).present /\ Remove(l).resolved = l.resolved /\ Remove(l).status = l.status
<1> DEFINE m == [l EXCEPT !.present = FALSE]
           e == EndWake(m)
<1>1. m \in Links /\ ~m.present /\ m.resolved = l.resolved /\ m.status = l.status
  BY DEF Links
<1> HIDE DEF m
<1>2. e \in Links /\ ~e.present /\ e.resolved = l.resolved /\ e.status = l.status
  BY <1>1, EndWakeType, EndWakeKeeps, EndWakeNeutral DEF Keeps, Neutral, SameWaiters
<1> HIDE DEF e
<1>3. ~Unwatch(e).present /\ Unwatch(e).resolved = l.resolved /\ Unwatch(e).status = l.status
  BY <1>2, UnwatchKeeps, UnwatchNeutral DEF Keeps, Neutral, SameWaiters
<1> QED BY <1>2, <1>3 DEF Remove, RegistryChanged, m, e

LEMMA BootTends ==
  ASSUME NEW l \in Links, NEW spawned \in BOOLEAN
  PROVE  /\ Settled(Boot(l, spawned)) /\ Boot(l, spawned).resolved = {}
         /\ Boot(l, spawned).present => Holds(Boot(l, spawned), 0)
         /\ l.status = "error" => Boot(l, spawned).status = "error"
<1> DEFINE m == NewLink(BootStatus(l.status, spawned), l.endpoint, l.token)
           a == [m EXCEPT !.present = FALSE, !.tracked = FALSE]
<1>1. BootStatus(l.status, spawned) \in Statuses
  BY DEF BootStatus, Links, Statuses
<1>2. m \in Links /\ Sound(m) /\ Settled(m) /\ m.resolved = {} /\ Holds(m, 0)
  BY <1>1, NewLinkType, NewLinkSound DEF Links, NewLink, Settled, Holds
<1>3. l.status = "error" => m.status = "error"
  BY DEF BootStatus, NewLink
<1>4. ~a.present /\ a.resolved = {} /\ (l.status = "error" => a.status = "error") /\ Settled(a)
  BY <1>3 DEF NewLink, Settled
<1> HIDE DEF m, a
<1>5. Tended(Connect(m), m)
  BY <1>2, ConnectTends
<1>6. Settled(Connect(m)) /\ Connect(m).resolved = {} /\ Holds(Connect(m), 0)
  BY <1>2, <1>5 DEF Tended, SameHolders
<1> QED BY <1>2, <1>3, <1>4, <1>6 DEF Boot, m, a

\* A frame may make the daemon ready, and then resolves into a live stream.
Lively(m, l) ==
  /\ SameHolders(m, l) /\ Settled(m)
  /\ m.resolved \subseteq l.resolved \/ (m.status = "ready" /\ Connected(m))
  /\ l.status = "error" => m.status = "error"

LEMMA ClimbToLively ==
  ASSUME NEW l \in Links, NEW s \in Statuses, Sound(l), Settled(l), Reading(l)
  PROVE  Lively(ClimbTo(l, s), l)
<1>1. Lively(l, l)
  BY DEF Lively, SameHolders
<1>2. CASE l.status # "error"
  <2> DEFINE t == Transition(l, s)
  <2>1. l.present /\ l.fetch = "open" /\ l.tracked /\ ~l.closed
    BY <1>2 DEF Reading, Sound
  <2>2. Keeps(t, l) /\ t.status = s
    BY <2>1, TransitionKeeps
  <2>3. /\ SameHolders(t, l) /\ Settled(t)
        /\ s # "ready" => t.resolved = l.resolved
    BY TransitionTends
  <2> HIDE DEF t
  <2>4. Connected(t)
    BY <2>1, <2>2 DEF Connected, Keeps
  <2>5. Lively(t, l)
    BY <1>2, <2>2, <2>3, <2>4 DEF Lively
  <2> QED BY <1>1, <2>5 DEF ClimbTo, t
<1> QED BY <1>1, <1>2 DEF ClimbTo

LEMMA OnHelloLively ==
  ASSUME NEW l \in Links, NEW accepted \in BOOLEAN, Sound(l), Settled(l), Reading(l)
  PROVE  Lively(OnHello(l, accepted), l)
<1> DEFINE furthest == IF l.sawReady THEN "ready" ELSE IF l.sawState THEN "resolving" ELSE "session"
           e == Transition(l, "error")
           a == [e EXCEPT !.fetch = "aborted"]
           h == [l EXCEPT !.hello = TRUE]
<1>1. l.present
  BY DEF Reading, Sound
<1>2. "error" \in Statuses /\ furthest \in Statuses
  BY DEF Statuses
<1>3. /\ e \in Links /\ e.present /\ e.status = "error" /\ SameHolders(e, l)
      /\ Settled(e) /\ e.resolved = l.resolved
  BY <1>1, <1>2, TransitionType, TransitionKeeps, TransitionTends DEF Keeps
<1> HIDE DEF e
<1>4. /\ a.status = "error" /\ a.waiting = {} /\ a.resolved = l.resolved
      /\ a.tracked = e.tracked /\ a.retain = e.retain /\ a.watched = e.watched
  BY <1>3 DEF Settled, Links
<1> HIDE DEF a
<1>5. Lively(a, l)
  BY <1>3, <1>4 DEF Lively, Settled, SameHolders, Holds
<1>6. /\ h \in Links /\ Sound(h) /\ Reading(h) /\ Settled(h) /\ SameHolders(h, l)
      /\ h.resolved = l.resolved /\ h.status = l.status
  <2>1. /\ h \in Links /\ h.waiting = l.waiting /\ h.resolved = l.resolved /\ h.retain = l.retain
        /\ h.watched = l.watched /\ h.tracked = l.tracked /\ h.status = l.status
        /\ h.fetch = l.fetch /\ h.present = l.present /\ h.closed = l.closed /\ h.redial = l.redial
        /\ h.idle = l.idle /\ h.hello
    BY DEF Links
  <2> HIDE DEF h
  <2> QED BY <2>1 DEF Sound, Reading, Settled, Connected, SameHolders, Holds
<1> HIDE DEF h, furthest
<1>7. Lively(ClimbTo(h, furthest), h)
  BY <1>2, <1>6, ClimbToLively
<1>8. Lively(ClimbTo(h, furthest), l)
  BY <1>6, <1>7 DEF Lively, SameHolders
<1> QED BY <1>1, <1>5, <1>8 DEF OnHello, e, a, h, furthest

\* Noting a frame changes nothing the lemmas are about.
LEMMA NotedLively ==
  ASSUME NEW l \in Links, NEW m \in Links, Sound(l), Settled(l), Reading(l),
         m \in {[l EXCEPT !.sawState = TRUE], [l EXCEPT !.sawReady = TRUE], [l EXCEPT !.reset = TRUE]}
  PROVE  /\ Sound(m) /\ Reading(m) /\ Settled(m) /\ Lively(m, l)
         /\ m.resolved = l.resolved /\ m.status = l.status /\ SameHolders(m, l)
<1>1. /\ m.waiting = l.waiting /\ m.resolved = l.resolved /\ m.retain = l.retain
      /\ m.watched = l.watched /\ m.tracked = l.tracked /\ m.status = l.status
      /\ m.fetch = l.fetch /\ m.present = l.present /\ m.closed = l.closed /\ m.redial = l.redial
      /\ m.idle = l.idle /\ m.hello = l.hello
  BY DEF Links
<1> QED BY <1>1 DEF Sound, Reading, Settled, Connected, SameHolders, Holds, Lively

LEMMA OnStateLively ==
  ASSUME NEW l \in Links, Sound(l), Settled(l), Reading(l)
  PROVE  Lively(OnState(l), l)
<1> DEFINE m == [l EXCEPT !.sawState = TRUE]
<1>1. m \in Links /\ "resolving" \in Statuses
  BY DEF Links, Statuses
<1>2. /\ Sound(m) /\ Reading(m) /\ Settled(m) /\ Lively(m, l)
      /\ m.resolved = l.resolved /\ m.status = l.status /\ SameHolders(m, l)
  BY <1>1, NotedLively
<1> HIDE DEF m
<1>3. Lively(ClimbTo(m, "resolving"), m)
  BY <1>1, <1>2, ClimbToLively
<1>4. Lively(ClimbTo(m, "resolving"), l) /\ Lively(l, l)
  BY <1>2, <1>3 DEF Lively, SameHolders
<1> QED BY <1>2, <1>4 DEF OnState, m

LEMMA OnReadyLively ==
  ASSUME NEW l \in Links, Sound(l), Settled(l), Reading(l)
  PROVE  Lively(OnReady(l), l)
<1> DEFINE m == [l EXCEPT !.sawReady = TRUE]
           k == IF m.hello THEN ClimbTo(m, "ready") ELSE m
<1>1. m \in Links /\ "ready" \in Statuses
  BY DEF Links, Statuses
<1>2. /\ Sound(m) /\ Reading(m) /\ Settled(m) /\ Lively(m, l)
      /\ m.resolved = l.resolved /\ m.status = l.status /\ SameHolders(m, l)
  BY <1>1, NotedLively
<1>3. m.fetch \notin {"none", "pending"}
  BY <1>2 DEF Reading
<1> HIDE DEF m
<1>4. Lively(ClimbTo(m, "ready"), m)
  BY <1>1, <1>2, ClimbToLively
<1>5. k \in Links /\ Lively(k, l) /\ Sound(k)
  BY <1>1, <1>2, <1>3, <1>4, ClimbToType, ClimbToSound DEF Lively, SameHolders
<1> HIDE DEF k
<1> DEFINE a == ArmIdleDrop(k)
<1>6. Keeps(a, k) /\ a.status = k.status /\ Neutral(a, k)
  BY <1>5, ArmIdleDropKeeps, ArmIdleDropNeutral
<1>7. Tended(a, k) /\ (Connected(k) => Connected(a))
  <2> HIDE DEF a
  <2>1. Tended(a, k)
    BY <1>5, <1>6, KeepsTends DEF Lively
  <2>2. Connected(k) => Connected(a)
    BY <1>6 DEF Keeps, Connected
  <2> QED BY <2>1, <2>2
<1> HIDE DEF a
<1>8. Lively(a, l)
  BY <1>5, <1>6, <1>7 DEF Lively, Tended, SameHolders
<1> QED BY <1>8 DEF OnReady, a, k, m

LEMMA StreamEndedTends ==
  ASSUME NEW l \in Links, NEW clean \in BOOLEAN, Settled(l)
  PROVE  /\ Tended(StreamEnded(l, clean), l)
         /\ l.status = "error" => StreamEnded(l, clean).status = "error"
<1> DEFINE m == [l EXCEPT !.fetch = "none", !.to = 0, !.tok = 0]
           r == [m EXCEPT !.reset = @ /\ ~clean]
<1>1. /\ m \in Links /\ m.present = l.present /\ m.status = l.status /\ m.fetch = "none"
      /\ Neutral(m, l)
  BY NeutralFields DEF Links, Fetches
<1> HIDE DEF m
<1>2. r \in Links /\ Neutral(r, m)
  BY <1>1, NeutralFields DEF Links
<1> HIDE DEF r
<1>3. Tended(m, l)
  BY <1>1, ReleasedTends
<1>4. "asleep" \in Statuses /\ "reconnecting" \in Statuses
  BY DEF Statuses
<1>5. Tended(Transition(m, "asleep"), m) /\ Tended(Transition(r, "reconnecting"), r)
  BY <1>1, <1>2, <1>4, TransitionTends DEF Tended
<1>6. Tended(Transition(m, "asleep"), l) /\ Tended(Transition(r, "reconnecting"), l)
  BY <1>1, <1>2, <1>5, NeutralTransitive, TendedTransitive
<1> QED BY <1>1, <1>3, <1>6 DEF StreamEnded, m, r

LEMMA ScheduleRedialTends ==
  ASSUME NEW l \in Links, Settled(l), l.fetch = "none"
  PROVE  Tended(ScheduleRedial(l), l) /\ ScheduleRedial(l).status = l.status
<1> DEFINE m == [l EXCEPT !.redial = TRUE]
<1>1. Neutral(m, l) /\ m.present = l.present /\ m.status = l.status /\ m.fetch = "none"
  BY NeutralFields DEF Links
<1> HIDE DEF m
<1>2. Tended(m, l) /\ Tended(l, l)
  BY <1>1, ReleasedTends, NeutralReflexive
<1> QED BY <1>1, <1>2 DEF ScheduleRedial, m

LEMMA WaitReadyTends ==
  ASSUME NEW l \in Links, NEW c \in Clients, Sound(l), Settled(l)
  PROVE  /\ SameHolders(WaitReady(l, c), l) /\ Settled(WaitReady(l, c))
         /\ WaitReady(l, c).status = l.status
         /\ \/ WaitReady(l, c).resolved \subseteq l.resolved
            \/ WaitReady(l, c).status = "ready" /\ Connected(WaitReady(l, c))
<1> DEFINE y == [l EXCEPT !.resolved = @ \cup {c}]
           n == [l EXCEPT !.rejected = @ \cup {c}]
           w == [l EXCEPT !.tracked = TRUE, !.waiting = @ \cup {c}]
<1>1. CASE l.present /\ l.status = "ready" /\ Connected(l)
  <2>1. /\ y.status = l.status /\ y.waiting = l.waiting /\ y.tracked = l.tracked /\ y.closed = l.closed
        /\ y.fetch = l.fetch /\ y.retain = l.retain /\ y.watched = l.watched /\ y.present = l.present
    BY DEF Links
  <2> HIDE DEF y
  <2>2. SameHolders(y, l) /\ Settled(y) /\ y.status = "ready" /\ Connected(y)
    BY <1>1, <2>1 DEF SameHolders, Holds, Settled, Connected
  <2> QED BY <1>1, <2>2 DEF WaitReady, y
<1>2. CASE ~(l.present /\ l.status = "ready" /\ Connected(l)) /\ l.present /\ l.status = "error"
  <2>1. /\ n.status = l.status /\ n.waiting = l.waiting /\ n.tracked = l.tracked
        /\ n.resolved = l.resolved /\ n.retain = l.retain /\ n.watched = l.watched
    BY DEF Links
  <2> HIDE DEF n
  <2>2. SameHolders(n, l) /\ Settled(n) /\ n.status = l.status /\ n.resolved \subseteq l.resolved
    BY <1>2, <2>1 DEF SameHolders, Holds, Settled
  <2> QED BY <1>2, <2>2 DEF WaitReady, n
<1>3. CASE ~(l.present /\ l.status = "ready" /\ Connected(l)) /\ ~(l.present /\ l.status = "error")
  <2>1. /\ w.status = l.status /\ w.tracked /\ w.resolved = l.resolved /\ w.closed = l.closed
        /\ w.fetch = l.fetch /\ w.retain = l.retain /\ w.watched = l.watched /\ w.present = l.present
    BY DEF Links
  <2> HIDE DEF w
  <2>2. SameHolders(w, l) /\ w.resolved \subseteq l.resolved
    BY <2>1 DEF SameHolders, Holds
  <2>3. Settled(w)
    BY <1>3, <2>1 DEF Settled, Connected, Sound
  <2> QED BY <1>3, <2>1, <2>2, <2>3 DEF WaitReady, w
<1> QED BY <1>1, <1>2, <1>3

LEMMA ForgetTends ==
  ASSUME NEW l \in Links, NEW c \in Clients, Settled(l)
  PROVE  Tended(Forget(l, c), l) /\ Forget(l, c).status = l.status
<1> DEFINE m == Forget(l, c)
<1>1. /\ m.status = l.status /\ m.tracked = l.tracked /\ m.closed = l.closed /\ m.fetch = l.fetch
      /\ m.retain = l.retain /\ m.watched = l.watched /\ m.present = l.present
      /\ m.waiting \subseteq l.waiting /\ m.resolved \subseteq l.resolved
  BY DEF Forget, Links
<1> HIDE DEF m
<1> QED BY <1>1 DEF Tended, SameHolders, Holds, Settled, Connected, m
=============================================================================
