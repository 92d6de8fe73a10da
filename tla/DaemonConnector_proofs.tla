----------------------- MODULE DaemonConnector_proofs -----------------------
(***************************************************************************)
(* The connector's safety for any number of callers.  The inductive        *)
(* invariant is LinkSound with the types and with OneTurnAtATime (a turn   *)
(* that ends pops itself off a queue that is not empty); for the holders   *)
(* and the waiters it is joined by Held, which counts the holders of a     *)
(* tracked link and says whose waiters have been settled.                  *)
(***************************************************************************)
EXTENDS DaemonConnector, DaemonLink_proofs, FiniteSetTheorems, SequenceTheorems

IInv == TypeOK /\ LinkSound /\ OneTurnAtATime

LEMMA InitIInv == Init => IInv
<1> SUFFICES ASSUME Init PROVE IInv
  OBVIOUS
<1>1. link \in Links /\ Sound(link)
  <2>1. ASSUME NEW s \in Statuses
        PROVE  NewLink(s, Endpoint, Endpoint) \in Links /\ Sound(NewLink(s, Endpoint, Endpoint))
    BY NewLinkType, NewLinkSound DEF Endpoint
  <2>2. "asleep" \in Statuses /\ "error" \in Statuses /\ "connecting" \in Statuses
    BY DEF Statuses
  <2> QED BY <2>1, <2>2, ConnectType, ConnectSound DEF Init
<1>2. client \in [Clients -> ClientStates] /\ turns \in Seq(Clients)
  BY DEF Init, ClientStates
<1>3. OneTurnAtATime
  BY DEF Init, OneTurnAtATime
<1> QED BY <1>1, <1>2, <1>3 DEF IInv, TypeOK, LinkSound

LEMMA BecomeType ==
  ASSUME TypeOK, NEW c \in Clients, NEW s \in ClientStates, Become(c, s)
  PROVE  client' \in [Clients -> ClientStates] /\ client'[c] = s
         /\ \A d \in Clients : d # c => client'[d] = client[d]
BY DEF TypeOK, Become

LEMMA EndTurnKeeps ==
  ASSUME IInv, NEW c \in Clients, NEW l \in Links, Sound(l), EndTurn(c, l), Turn(c)
  PROVE  IInv'
<1>1. client' \in [Clients -> ClientStates] /\ client'[c] = "idle"
      /\ \A d \in Clients : d # c => client'[d] = client[d]
  BY BecomeType DEF IInv, EndTurn, ClientStates
<1>2. link' \in Links /\ Sound(link')
  BY ReleaseType, ReleaseKeeps, KeepsSound DEF EndTurn
<1>3. turns' \in Seq(Clients)
  BY DEF IInv, TypeOK, EndTurn, Turn
<1>4. OneTurnAtATime'
  BY <1>1 DEF IInv, OneTurnAtATime, Turn
<1> QED BY <1>1, <1>2, <1>3, <1>4 DEF IInv, TypeOK, LinkSound

\* A step that leaves the queue and its running turn alone.
LEMMA SameTurns ==
  ASSUME IInv, UNCHANGED turns, link' \in Links, Sound(link'),
         client' \in [Clients -> ClientStates],
         \A d \in Clients : client'[d] \in {"waking", "prompting"} => client[d] \in {"waking", "prompting"} \/ Turn(d)
  PROVE  IInv'
BY DEF IInv, TypeOK, LinkSound, OneTurnAtATime, Turn

LEMMA BecomeIdleOrAttach ==
  ASSUME IInv, NEW c \in Clients, NEW s \in ClientStates \ {"waking", "prompting"},
         Become(c, s), UNCHANGED turns, link' \in Links, Sound(link')
  PROVE  IInv'
<1>1. client' \in [Clients -> ClientStates] /\ client'[c] = s
      /\ \A d \in Clients : d # c => client'[d] = client[d]
  BY BecomeType DEF IInv
<1> QED BY <1>1, SameTurns

LEMMA StreamStep == IInv /\ StreamNext => IInv'
<1> SUFFICES ASSUME IInv, StreamNext PROVE IInv'
  OBVIOUS
<1>1. link \in Links /\ Sound(link)
  BY DEF IInv, TypeOK, LinkSound
<1>2. UNCHANGED <<client, turns>>
  BY DEF StreamNext, DialOpens, FrameArrives, SilenceTimeout, RedialTimer, IdleTimer,
         DialRefused, StreamBreaks, StreamCloses
<1>3. ASSUME NEW l \in Links, Sound(l), l.fetch # "none", NEW clean \in BOOLEAN
      PROVE  Ended(l, clean) \in Links /\ Sound(Ended(l, clean))
  BY <1>3, StreamEndedType, StreamEndedSound, ScheduleRedialType, ScheduleRedialSound DEF Ended
<1>4. [link EXCEPT !.stale = FALSE] \in Links /\ Sound([link EXCEPT !.stale = FALSE])
  BY <1>1 DEF Sound, Links
<1>5. link' \in Links /\ Sound(link')
  <2>1. CASE DialOpens
    BY <1>1, <2>1 DEF DialOpens, Sound, Links, Fetches, Drivable
  <2>2. CASE FrameArrives
    <3>1. Reading(link)
      BY <2>2 DEF FrameArrives, Reading
    <3>2. [link EXCEPT !.reset = TRUE] \in Links /\ Sound([link EXCEPT !.reset = TRUE])
      BY <1>1 DEF Sound, Links
    <3> QED BY <1>1, <2>2, <3>1, <3>2, OnHelloType, OnHelloSound, OnStateType, OnStateSound,
               OnReadyType, OnReadySound DEF FrameArrives
  <2>3. CASE SilenceTimeout
    BY <1>1, <2>3 DEF SilenceTimeout, Sound, Links, Fetches
  <2>4. CASE RedialTimer
    <3> DEFINE m == [link EXCEPT !.redial = FALSE]
    <3>1. /\ m \in Links /\ Sound(m) /\ m.fetch = "none" /\ ~m.redial
          /\ m.tracked /\ m.status = "reconnecting"
      BY <1>1, <2>4 DEF RedialTimer, Sound, Links
    <3>2. link' = IF m.closed \/ ~m.present THEN m ELSE Dial(m)
      BY <2>4 DEF RedialTimer
    <3> HIDE DEF m
    <3> QED BY <3>1, <3>2, DialType, DialSound
  <2>5. CASE IdleTimer
    <3>1. [link EXCEPT !.idle = FALSE] \in Links /\ Sound([link EXCEPT !.idle = FALSE])
      BY <1>1 DEF Sound, Links
    <3> QED BY <2>5, <3>1, DisconnectType, DisconnectSound DEF IdleTimer
  <2>6. ASSUME NEW own \in BOOLEAN, DialRefused(own) PROVE link' \in Links /\ Sound(link')
    <3>1. CASE ~own
      BY <1>4, <2>6, <3>1 DEF DialRefused, Heed
    <3>2. CASE own
      <4> DEFINE t == Transition(link, "error")
      <4>1. link.fetch = "pending" /\ link' = StreamEnded(t, FALSE)
        BY <2>6, <3>2 DEF DialRefused, Heed, Reports
      <4>2. ~link.redial /\ link.present /\ "error" \in Statuses
        BY <1>1, <4>1 DEF Sound, Statuses
      <4>3. t \in Links /\ t.fetch = "pending" /\ t.status = "error" /\ Keeps(t, link)
        BY <1>1, <4>1, <4>2, TransitionType, TransitionKeeps DEF Keeps
      <4> HIDE DEF t
      <4>4. StreamEnded(t, FALSE) \in Links
        BY <4>3, StreamEndedType
      <4>5. StreamEnded(t, FALSE) = [t EXCEPT !.fetch = "none", !.to = 0, !.tok = 0]
        BY <4>3 DEF StreamEnded, Links
      <4>6. Sound([t EXCEPT !.fetch = "none", !.to = 0, !.tok = 0])
        BY <1>1, <4>2, <4>3 DEF Sound, Keeps, Links
      <4> QED BY <4>1, <4>4, <4>5, <4>6
    <3> QED BY <3>1, <3>2
  <2>7. ASSUME NEW own \in BOOLEAN, StreamBreaks(own) PROVE link' \in Links /\ Sound(link')
    BY <1>1, <1>3, <1>4, <2>7 DEF StreamBreaks, Heed, Reports
  <2>8. ASSUME NEW own \in BOOLEAN, StreamCloses(own) PROVE link' \in Links /\ Sound(link')
    BY <1>1, <1>3, <1>4, <2>8 DEF StreamCloses, Heed, Reports
  <2> QED BY <2>1, <2>2, <2>3, <2>4, <2>5, <2>6, <2>7, <2>8 DEF StreamNext
<1>6. client' \in [Clients -> ClientStates]
  BY <1>2 DEF IInv, TypeOK
<1>7. \A d \in Clients : client'[d] \in {"waking", "prompting"} => client[d] \in {"waking", "prompting"}
  BY <1>2
<1> QED BY <1>2, <1>5, <1>6, <1>7, SameTurns

LEMMA AttachStep == ASSUME IInv, NEW c \in Clients, AttachNext(c) PROVE IInv'
<1>1. link \in Links /\ Sound(link)
  BY DEF IInv, TypeOK, LinkSound
<1>2. {"idle", "attaching", "opening", "attached"} \subseteq ClientStates \ {"waking", "prompting"}
  BY DEF ClientStates
<1>3. Forget(link, c) \in Links /\ Sound(Forget(link, c))
  BY <1>1, ForgetType, ForgetSound
<1>4. CASE Attach(c)
  <2> DEFINE w == Wake(link)
             g == [link EXCEPT !.waking = TRUE]
  <2>1. g \in Links /\ Sound(g)
    BY <1>1 DEF Sound, Links
  <2> HIDE DEF g
  <2>2. w \in Links /\ Sound(w)
    BY <1>1, <2>1, ConnectType, ConnectSound DEF Wake, g
  <2> HIDE DEF w
  <2>3. link' \in Links /\ Sound(link')
    BY <1>4, <2>2, WaitReadyType, WaitReadySound DEF Attach, w
  <2> QED BY <1>2, <1>4, <2>3, BecomeIdleOrAttach DEF Attach
<1>5. CASE AttachReady(c)
  <2>1. (IF link.present THEN "opening" ELSE "idle") \in ClientStates \ {"waking", "prompting"}
    BY <1>2
  <2> QED BY <1>3, <1>5, <2>1, BecomeIdleOrAttach DEF AttachReady
<1>6. CASE AttachFails(c)
  BY <1>2, <1>3, <1>6, BecomeIdleOrAttach DEF AttachFails
<1>7. CASE PipeOpens(c)
  BY <1>1, <1>2, <1>7, RetainType, RetainKeeps, KeepsSound, BecomeIdleOrAttach DEF PipeOpens
<1>8. CASE PipeFails(c)
  BY <1>1, <1>2, <1>8, BecomeIdleOrAttach DEF PipeFails
<1>9. CASE Detach(c)
  BY <1>1, <1>2, <1>9, ReleaseType, ReleaseKeeps, KeepsSound, BecomeIdleOrAttach DEF Detach
<1>10. CASE WaitTimeout(c)
  <2>1. link' \in Links /\ Sound(link')
    BY <1>1, <1>10 DEF WaitTimeout, Sound, Links
  <2>2. client' \in [Clients -> ClientStates] /\ client' = client
    BY <1>10 DEF WaitTimeout, IInv, TypeOK
  <2> QED BY <1>10, <2>1, <2>2, SameTurns DEF WaitTimeout
<1> QED BY <1>4, <1>5, <1>6, <1>7, <1>8, <1>9, <1>10 DEF AttachNext

LEMMA PromptStep == ASSUME IInv, NEW c \in Clients, PromptNext(c) PROVE IInv'
<1>1. link \in Links /\ Sound(link)
  BY DEF IInv, TypeOK, LinkSound
<1>2. {"queued", "waking", "prompting"} \subseteq ClientStates
  BY DEF ClientStates
<1>3. Forget(link, c) \in Links /\ Sound(Forget(link, c))
  BY <1>1, ForgetType, ForgetSound
<1>4. CASE Prompt(c)
  <2>1. client' \in [Clients -> ClientStates] /\ client'[c] = "queued"
        /\ \A d \in Clients : d # c => client'[d] = client[d]
    BY <1>2, <1>4, BecomeType DEF Prompt, IInv
  <2>2. turns' \in Seq(Clients) /\ (turns # <<>> => turns' # <<>> /\ Head(turns') = Head(turns))
    BY <1>4 DEF Prompt, IInv, TypeOK
  <2>3. link' = link
    BY <1>4 DEF Prompt
  <2>4. OneTurnAtATime'
    BY <2>1, <2>2 DEF IInv, OneTurnAtATime, Turn
  <2> QED BY <1>1, <2>1, <2>2, <2>3, <2>4 DEF IInv, TypeOK, LinkSound
<1>5. CASE PromptStarts(c)
  <2> DEFINE m == Retain(link)
  <2>1. m \in Links /\ Sound(m)
    BY <1>1, RetainType, RetainKeeps, KeepsSound
  <2> HIDE DEF m
  <2>2. link' \in Links /\ Sound(link')
    BY <1>5, <2>1, ConnectType, ConnectSound, WaitReadyType, WaitReadySound DEF PromptStarts, m
  <2>3. /\ client' \in [Clients -> ClientStates]
        /\ \A d \in Clients : d # c => client'[d] = client[d]
    BY <1>2, <1>5, BecomeType DEF PromptStarts, IInv
  <2>4. Turn(c) /\ UNCHANGED turns
    BY <1>5 DEF PromptStarts
  <2> QED BY <2>2, <2>3, <2>4, SameTurns
<1>6. CASE PromptSends(c)
  <2> DEFINE m == Ensure(Forget(link, c))
  <2>0. m \in Links /\ Sound(m)
    BY <1>3, EnsureType, EnsureSound
  <2>1. Turn(c)
    BY <1>6 DEF PromptSends, IInv, OneTurnAtATime
  <2>2. CASE m.present /\ Connected(m)
    <3>1. link' = m /\ Become(c, "prompting") /\ UNCHANGED turns
      BY <1>6, <2>2 DEF PromptSends
    <3>2. /\ client' \in [Clients -> ClientStates]
          /\ \A d \in Clients : d # c => client'[d] = client[d]
      BY <1>2, <3>1, BecomeType DEF IInv
    <3> QED BY <2>0, <2>1, <3>1, <3>2, SameTurns
  <2>3. CASE ~(m.present /\ Connected(m))
    BY <2>0, <1>6, <2>1, <2>3, EndTurnKeeps DEF PromptSends
  <2> QED BY <2>2, <2>3
<1>7. CASE PromptFails(c)
  BY <1>3, <1>7, EndTurnKeeps DEF PromptFails, IInv, OneTurnAtATime
<1>8. CASE PromptSettles(c)
  BY <1>1, <1>8, EndTurnKeeps DEF PromptSettles, IInv, OneTurnAtATime
<1> QED BY <1>4, <1>5, <1>6, <1>7, <1>8 DEF PromptNext

LEMMA FleetStep == IInv /\ FleetNext => IInv'
<1> SUFFICES ASSUME IInv, FleetNext PROVE IInv'
  OBVIOUS
<1>1. link \in Links /\ Sound(link) /\ client \in [Clients -> ClientStates] /\ turns \in Seq(Clients)
  BY DEF IInv, TypeOK, LinkSound
<1>2. ASSUME NEW closing \in BOOLEAN, ClosePipes(closing)
      PROVE  /\ client' \in [Clients -> ClientStates]
             /\ \A d \in Clients : client'[d] \in {"waking", "prompting"} => client[d] \in {"waking", "prompting"}
             /\ PipesClosed(closing) \in Links /\ Sound(PipesClosed(closing))
             /\ PipesClosed(closing).present = link.present
  <2>1. Cardinality(Attached) \in Nat
    <3>1. Attached \subseteq Clients
      BY DEF Attached
    <3> QED BY <3>1, ClientsFinite, FS_Subset, FS_CardinalityType
  <2>2. /\ PipesClosed(closing) \in Links /\ Sound(PipesClosed(closing))
        /\ PipesClosed(closing).present = link.present
    BY <1>1, <2>1, ReleaseTimesType, ReleaseTimesKeeps, KeepsSound DEF PipesClosed, Keeps
  <2>3. /\ client' \in [Clients -> ClientStates]
        /\ \A d \in Clients : client'[d] \in {"waking", "prompting"} => client[d] \in {"waking", "prompting"}
    BY <1>1, <1>2 DEF ClosePipes, ClientStates
  <2> QED BY <2>2, <2>3
<1>3. CASE BrowserOpens
  <2> DEFINE m == [link EXCEPT !.watching = TRUE]
  <2>1. m \in Links /\ Sound(m)
    BY <1>1 DEF Sound, Links
  <2>2. link' = IF m.present /\ m.status = "ready" THEN Connect(Watch(m)) ELSE m
    BY <1>3 DEF BrowserOpens
  <2> HIDE DEF m
  <2>3. link' \in Links /\ Sound(link')
    BY <2>1, <2>2, WatchType, WatchKeeps, KeepsSound, ConnectType, ConnectSound
  <2> QED BY <1>1, <1>3, <2>3, SameTurns DEF BrowserOpens
<1>4. CASE BrowserCloses
  <2>1. [link EXCEPT !.watching = FALSE] \in Links /\ Sound([link EXCEPT !.watching = FALSE])
    BY <1>1 DEF Sound, Links
  <2>2. link' \in Links /\ Sound(link')
    BY <1>4, <2>1, UnwatchType, UnwatchKeeps, KeepsSound DEF BrowserCloses
  <2> QED BY <1>1, <1>4, <2>2, SameTurns DEF BrowserCloses
<1>5. CASE OtherMutation
  BY <1>1, <1>5, RegistryChangedType, RegistryChangedSound, SameTurns DEF OtherMutation
<1>6. CASE FleetRestart
  <2>1. link' \in Links /\ Sound(link')
    BY <1>1, <1>6, BootType, BootSound DEF FleetRestart
  <2>2. client' \in [Clients -> ClientStates] /\ turns' \in Seq(Clients) /\ OneTurnAtATime'
    BY <1>6 DEF FleetRestart, ClientStates, OneTurnAtATime
  <2> QED BY <2>1, <2>2 DEF IInv, TypeOK, LinkSound
<1>7. ASSUME NEW closing \in BOOLEAN, Stop(closing) PROVE IInv'
  <2> DEFINE p == PipesClosed(closing)
             d == Disconnect(p)
  <2>1. p \in Links /\ Sound(p) /\ ClosePipes(closing) /\ UNCHANGED turns
    BY <1>2, <1>7 DEF Stop
  <2> HIDE DEF p
  <2>2. d \in Links /\ Sound(d) /\ Quiet(d) /\ link' = SetStatus(d, "asleep")
    BY <1>7, <2>1, DisconnectType, DisconnectSound DEF Stop, p
  <2> HIDE DEF d
  <2>3. link' \in Links /\ Keeps(link', d)
    BY <2>2, SetStatusType, SetStatusKeeps DEF Statuses
  <2>4. Sound(link')
    BY <2>2, <2>3 DEF Sound, Keeps, Quiet
  <2> QED BY <1>2, <2>1, <2>3, <2>4, SameTurns
<1>8. ASSUME NEW closing \in BOOLEAN, RemoveDaemon(closing) PROVE IInv'
  <2>1. ClosePipes(closing) /\ UNCHANGED turns /\ link' = Remove(Drop(PipesClosed(closing)))
    BY <1>8 DEF RemoveDaemon
  <2>2. link' \in Links /\ Sound(link')
    BY <1>2, <2>1, DropType, DropSound, RemoveType, RemoveSound
  <2> QED BY <1>2, <2>1, <2>2, SameTurns
<1> QED BY <1>3, <1>4, <1>5, <1>6, <1>7, <1>8 DEF FleetNext

LEMMA Stutter == IInv /\ UNCHANGED vars => IInv'
BY DEF IInv, TypeOK, LinkSound, OneTurnAtATime, Turn, vars

(* The link, the callers and the queue always have their types.            *)
THEOREM TypeCorrect == Spec => []TypeOK
<1>1. IInv /\ [Next]_vars => IInv'
  BY StreamStep, AttachStep, PromptStep, FleetStep, Stutter DEF Next
<1>2. IInv => TypeOK
  BY DEF IInv
<1> QED BY InitIInv, <1>1, <1>2, PTL DEF Spec

(* For any number of callers: one dial at a time, an intentional drop      *)
(* stays quiet, no drivable status on an open stream before its hello_ok,  *)
(* and an idle drop never over a holder (connector.ts).                    *)
THEOREM Safety == Spec => [](OneDial /\ ClosedIsQuiet /\ DrivableAfterHello /\ IdleSparesHeld)
<1>1. IInv /\ [Next]_vars => IInv'
  BY StreamStep, AttachStep, PromptStep, FleetStep, Stutter DEF Next
<1>2. IInv => OneDial /\ ClosedIsQuiet /\ DrivableAfterHello /\ IdleSparesHeld
  BY DEF IInv, LinkSound, Sound, OneDial, ClosedIsQuiet, DrivableAfterHello, IdleSparesHeld
<1> QED BY InitIInv, <1>1, <1>2, PTL DEF Spec

(* Two prompts of one daemon are never in flight together (fanout.ts).     *)
THEOREM TurnsAreSerial == Spec => []OneTurnAtATime
<1>1. IInv /\ [Next]_vars => IInv'
  BY StreamStep, AttachStep, PromptStep, FleetStep, Stutter DEF Next
<1>2. IInv => OneTurnAtATime
  BY DEF IInv
<1> QED BY InitIInv, <1>1, <1>2, PTL DEF Spec

-----------------------------------------------------------------------------
(* Holders and waiters: the count of a registered daemon, and nobody left  *)
(* waiting.  The steps' effects on resolved waiters and on "error" come    *)
(* out of the same case analysis.                                          *)

Held == (link.present => Holds(link, Holders)) /\ Settled(link)

ResolvesLive ==
  link'.resolved \subseteq link.resolved \/ (link'.status = "ready" /\ Connected(link'))

LeavesError == link.status = "error" => link'.status \in {"error", "connecting", "asleep"}

Tends == Held' /\ ResolvesLive /\ LeavesError

Holding == {c \in Clients : client[c] \in {"attached", "waking", "prompting"}}

LEMMA HoldersFinite == IsFiniteSet(Holding) /\ Holders = Cardinality(Holding) /\ Holders \in Nat
<1>1. Holding \subseteq Clients
  BY DEF Holding
<1>2. IsFiniteSet(Holding) /\ Cardinality(Holding) \in Nat
  BY <1>1, ClientsFinite, FS_Subset, FS_CardinalityType
<1> QED BY <1>2 DEF Holders, Holding

\* One caller starts to hold the daemon, or lets go of it.
LEMMA OneMoreHolder ==
  ASSUME NEW c \in Clients, c \notin Holding, Holding' = Holding \cup {c}
  PROVE  Holders' = Holders + 1
<1>1. Cardinality(Holding \cup {c}) = Cardinality(Holding) + 1
  BY HoldersFinite, FS_AddElement
<1>2. Holders' = Cardinality(Holding')
  BY DEF Holders, Holding
<1> QED BY <1>1, <1>2, HoldersFinite

LEMMA OneHolderLess ==
  ASSUME NEW c \in Clients, c \in Holding, Holding' = Holding \ {c}
  PROVE  Holders' = Holders - 1 /\ Holders >= 1
<1>1. Cardinality(Holding \ {c}) = Cardinality(Holding) - 1 /\ Cardinality(Holding \ {c}) \in Nat
  BY HoldersFinite, FS_RemoveElement, FS_CardinalityType
<1>2. Holders' = Cardinality(Holding')
  BY DEF Holders, Holding
<1> QED BY <1>1, <1>2, HoldersFinite

LEMMA SameHolding ==
  ASSUME Holding' = Holding
  PROVE  Holders' = Holders
BY HoldersFinite DEF Holders, Holding

\* A caller that changes state changes whether it holds, and no other does.
LEMMA BecomeHolding ==
  ASSUME TypeOK, NEW c \in Clients, NEW s \in ClientStates, Become(c, s)
  PROVE  Holding' = IF s \in {"attached", "waking", "prompting"} THEN Holding \cup {c} ELSE Holding \ {c}
BY BecomeType DEF Holding

\* A step after which the same callers hold the daemon.
LEMMA TendsSame ==
  ASSUME Held, Holding' = Holding, SameHolders(link', link), Settled(link'),
         link'.present => link.present, ResolvesLive, LeavesError
  PROVE  Tends
<1>1. Holders' = Holders /\ Holders \in Nat
  BY SameHolding, HoldersFinite
<1> QED BY <1>1 DEF Held, SameHolders, Tends, Settled, Connected

\* The operators that keep the entry registered or not.
LEMMA PresentKept ==
  ASSUME NEW l \in Links, ~l.present
  PROVE  /\ ~Connect(l).present /\ ~RegistryChanged(l).present
         /\ \A clean \in BOOLEAN : ~StreamEnded(l, clean).present
<1>1. ~Connect(l).present
  BY DEF Connect
<1>2. EndWake(l) \in Links /\ ~EndWake(l).present
  BY EndWakeType, EndWakeKeeps DEF Keeps
<1>3. ~RegistryChanged(l).present
  BY <1>2, UnwatchKeeps DEF RegistryChanged, Keeps
<1>4. ASSUME NEW clean \in BOOLEAN
      PROVE  ~StreamEnded(l, clean).present
  <2> DEFINE m == [l EXCEPT !.fetch = "none", !.to = 0, !.tok = 0]
  <2>1. ~m.present
    BY DEF Links
  <2> HIDE DEF m
  <2> QED BY <2>1 DEF StreamEnded, m
<1> QED BY <1>1, <1>3, <1>4

LEMMA EndedTends ==
  ASSUME NEW l \in Links, NEW clean \in BOOLEAN, Sound(l), Settled(l), l.fetch # "none"
  PROVE  Tended(Ended(l, clean), l) /\ (l.status = "error" => Ended(l, clean).status = "error")
<1> DEFINE e == StreamEnded(l, clean)
<1>1. /\ e \in Links /\ e.fetch = "none" /\ Tended(e, l)
      /\ l.status = "error" => e.status = "error"
  BY StreamEndedType, StreamEndedSound, StreamEndedTends
<1> HIDE DEF e
<1>2. Tended(ScheduleRedial(e), l) /\ ScheduleRedial(e).status = e.status
  BY <1>1, ScheduleRedialTends, TendedTransitive DEF Tended
<1> QED BY <1>1, <1>2 DEF Ended, e

LEMMA StreamTends == ASSUME IInv, Held, StreamNext PROVE Tends
<1>1. link \in Links /\ Sound(link) /\ Settled(link)
  BY DEF IInv, TypeOK, LinkSound, Held
<1>2. Holding' = Holding
  BY DEF StreamNext, DialOpens, FrameArrives, SilenceTimeout, RedialTimer, IdleTimer,
         DialRefused, StreamBreaks, StreamCloses, Holding
\* A request the connector holds belongs to a registered daemon.
<1>3. link.fetch # "none" => link.present
  BY <1>1 DEF Sound
<1>4. ASSUME Tended(link', link), LeavesError, link'.present => link.present
      PROVE  Tends
  BY <1>2, <1>4, TendsSame DEF Held, Tended, ResolvesLive
<1>5. ASSUME link' = [link EXCEPT !.stale = FALSE]
      PROVE  Tends
  <2>1. Neutral(link', link) /\ link'.present = link.present /\ link'.status = link.status
        /\ link'.fetch = link.fetch
    BY <1>1, <1>5, NeutralFields DEF Links
  <2>2. Tended(link', link)
    BY <1>1, <2>1, NeutralTends
  <2> QED BY <1>4, <2>1, <2>2 DEF LeavesError
<1>6. CASE DialOpens
  <2>1. /\ Neutral(link', link) /\ link'.status = link.status /\ link'.present = link.present
        /\ link.status \in {"connecting", "reconnecting"}
    BY <1>1, <1>6, NeutralFields DEF DialOpens, Links, Sound
  <2>2. Tended(link', link)
    BY <2>1 DEF Tended, Neutral, SameWaiters, Settled
  <2> QED BY <1>4, <2>1, <2>2 DEF LeavesError
<1>7. CASE FrameArrives
  <2>1. Reading(link)
    BY <1>7 DEF FrameArrives, Reading
  <2>2. Lively([link EXCEPT !.reset = TRUE], link)
    <3>1. [link EXCEPT !.reset = TRUE] \in Links
      BY <1>1 DEF Links
    <3> QED BY <1>1, <2>1, <3>1, NotedLively
  <2>3. Lively(link', link)
    BY <1>1, <1>7, <2>1, <2>2, OnHelloLively, OnStateLively, OnReadyLively DEF FrameArrives
  <2>4. link.present
    BY <1>3, <2>1 DEF Reading
  <2> QED BY <1>2, <2>3, <2>4, TendsSame DEF Held, Lively, ResolvesLive, LeavesError
<1>8. CASE SilenceTimeout
  <2>1. /\ Neutral(link', link) /\ link'.status = link.status /\ link'.present = link.present
        /\ (Connected(link') => Connected(link))
    BY <1>1, <1>8, NeutralFields DEF SilenceTimeout, Links, Connected
  <2>2. Tended(link', link)
    BY <1>1, <2>1 DEF Tended, Neutral, SameWaiters, Settled
  <2> QED BY <1>4, <2>1, <2>2 DEF LeavesError
<1>9. CASE RedialTimer
  <2> DEFINE m == [link EXCEPT !.redial = FALSE]
  <2>1. /\ m \in Links /\ m.present = link.present /\ m.status = link.status /\ m.fetch = link.fetch
        /\ Neutral(m, link) /\ link.status = "reconnecting"
    BY <1>1, <1>9, NeutralFields DEF RedialTimer, Sound, Links
  <2>2. link' = IF m.closed \/ ~m.present THEN m ELSE Dial(m)
    BY <1>9 DEF RedialTimer
  <2> HIDE DEF m
  <2>3. Tended(m, link)
    BY <1>1, <2>1, NeutralTends
  <2>4. Tended(Dial(m), link)
    BY <2>1, <2>3, DialTends, TendedTransitive DEF Tended
  <2> QED BY <1>4, <2>1, <2>2, <2>3, <2>4 DEF LeavesError
<1>10. CASE IdleTimer
  <2> DEFINE m == [link EXCEPT !.idle = FALSE]
  <2>1. /\ m \in Links /\ Sound(m) /\ m.present = link.present /\ m.status = link.status
        /\ m.fetch = link.fetch /\ Neutral(m, link)
    BY <1>1, NeutralFields DEF Sound, Links
  <2>2. link' = Disconnect(m)
    BY <1>10 DEF IdleTimer
  <2> HIDE DEF m
  <2>3. Tended(m, link)
    BY <1>1, <2>1, NeutralTends
  <2>4. Tended(link', link) /\ link'.status = link.status /\ link'.present = link.present
    BY <2>1, <2>2, <2>3, DisconnectTends, DisconnectSound, TendedTransitive DEF Tended
  <2> QED BY <1>4, <2>4 DEF LeavesError
<1>11. ASSUME NEW own \in BOOLEAN, DialRefused(own) PROVE Tends
  <2>1. CASE ~own
    BY <1>5, <1>11, <2>1 DEF DialRefused, Heed
  <2>2. CASE own
    <3> DEFINE t == Transition(link, "error")
    <3>1. link' = StreamEnded(t, FALSE) /\ link.present
      BY <1>3, <1>11, <2>2 DEF DialRefused, Heed, Reports
    <3>2. t \in Links /\ t.status = "error" /\ Tended(t, link)
      BY <1>1, <3>1, TransitionType, TransitionKeeps, TransitionTends DEF Statuses, Tended
    <3> HIDE DEF t
    <3>3. Tended(link', link) /\ link'.status = "error"
      BY <3>1, <3>2, StreamEndedTends, TendedTransitive DEF Tended
    <3> QED BY <1>4, <3>1, <3>3 DEF LeavesError
  <2> QED BY <2>1, <2>2
<1>12. ASSUME NEW clean \in BOOLEAN, link.fetch # "none", link' = Ended(link, clean) PROVE Tends
  BY <1>1, <1>3, <1>4, <1>12, EndedTends DEF LeavesError
<1>13. ASSUME NEW own \in BOOLEAN, StreamBreaks(own) \/ StreamCloses(own) PROVE Tends
  BY <1>5, <1>12, <1>13 DEF StreamBreaks, StreamCloses, Heed, Reports
<1> QED BY <1>6, <1>7, <1>8, <1>9, <1>10, <1>11, <1>13 DEF StreamNext

LEMMA AttachTends == ASSUME IInv, Held, NEW c \in Clients, AttachNext(c) PROVE Tends
<1>1. /\ link \in Links /\ Sound(link) /\ Settled(link) /\ TypeOK
      /\ {"idle", "attaching", "opening", "attached"} \subseteq ClientStates
  BY DEF IInv, TypeOK, LinkSound, Held, ClientStates
<1>2. ASSUME client[c] \notin {"attached", "waking", "prompting"},
             NEW s \in ClientStates \ {"attached", "waking", "prompting"}, Become(c, s)
      PROVE  Holding' = Holding
  BY <1>1, <1>2, BecomeHolding DEF Holding
<1>3. Tended(Forget(link, c), link) /\ Forget(link, c).status = link.status
      /\ Forget(link, c).present = link.present
  BY <1>1, ForgetTends DEF Forget, Links
<1>4. CASE Attach(c)
  <2> DEFINE g == [link EXCEPT !.waking = TRUE]
             w == Wake(link)
  <2>1. /\ g \in Links /\ Sound(g) /\ Neutral(g, link) /\ g.present = link.present
        /\ g.status = link.status /\ g.fetch = link.fetch
    BY <1>1, NeutralFields DEF Sound, Links
  <2> HIDE DEF g
  <2>2. Tended(g, link) /\ Tended(link, link)
    BY <1>1, <2>1, NeutralTends, NeutralReflexive
  <2>3. /\ w \in Links /\ Sound(w) /\ Tended(w, link)
        /\ w.status \in {link.status, "connecting", "error"}
    BY <1>1, <2>1, <2>2, ConnectType, ConnectSound, ConnectTends, TendedTransitive DEF Wake, Tended, g
  <2>4. link' = WaitReady(w, c) /\ link.present
    BY <1>4 DEF Attach
  <2> HIDE DEF w
  <2>5. /\ SameHolders(link', link) /\ Settled(link') /\ ResolvesLive
        /\ link'.status \in {link.status, "connecting", "error"}
    BY <2>3, <2>4, WaitReadyTends DEF Tended, SameHolders, ResolvesLive
  <2>6. Holding' = Holding
    BY <1>1, <1>2, <1>4 DEF Attach
  <2> QED BY <2>4, <2>5, <2>6, TendsSame DEF LeavesError
<1>5. CASE AttachReady(c) \/ AttachFails(c)
  <2>1. link' = Forget(link, c) /\ Holding' = Holding
    BY <1>1, <1>2, <1>5 DEF AttachReady, AttachFails
  <2> QED BY <1>3, <2>1, TendsSame DEF Tended, ResolvesLive, LeavesError
<1>6. CASE PipeOpens(c)
  <2>1. c \notin Holding /\ Holding' = Holding \cup {c}
    BY <1>1, <1>6, BecomeHolding DEF PipeOpens, Holding
  <2>2. Holders' = Holders + 1 /\ Holders \in Nat
    BY <2>1, OneMoreHolder, HoldersFinite
  <2>3. link' = Retain(link) /\ link'.present = link.present /\ link'.status = link.status
        /\ link'.fetch = link.fetch /\ Sound(link') /\ SameWaiters(link', link)
    BY <1>1, <1>6, RetainType, RetainKeeps, KeepsSound, RetainWaiters DEF PipeOpens, Keeps
  <2>4. link'.present => Holds(link', Holders')
    BY <1>1, <2>2, <2>3, RetainHolds DEF Held
  <2>5. Settled(link')
    BY <1>1, <2>3 DEF Settled, SameWaiters, Connected, Sound
  <2> QED BY <2>3, <2>4, <2>5 DEF Tends, Held, Settled, Connected, ResolvesLive, LeavesError, SameWaiters
<1>7. CASE PipeFails(c)
  <2>1. link' = link /\ Holding' = Holding
    BY <1>1, <1>2, <1>7 DEF PipeFails
  <2> QED BY <1>1, <2>1, TendsSame, NeutralReflexive
    DEF Neutral, ResolvesLive, LeavesError, SameHolders, Settled, Connected
<1>8. CASE Detach(c)
  <2>1. c \in Holding /\ Holding' = Holding \ {c}
    BY <1>1, <1>8, BecomeHolding DEF Detach, Holding
  <2>2. Holders' = Holders - 1 /\ Holders \in Nat /\ Holders >= 1
    BY <2>1, OneHolderLess, HoldersFinite
  <2>3. link' = ReleaseTimes(link, 1) /\ link'.present = link.present /\ link'.status = link.status
        /\ link'.fetch = link.fetch /\ Sound(link') /\ SameWaiters(link', link)
    BY <1>1, <1>8, ReleaseTimesType, ReleaseTimesKeeps, KeepsSound, ReleaseTimesWaiters
      DEF Detach, Release, Keeps
  <2>4. link'.present => Holds(link', Holders')
    BY <1>1, <2>2, <2>3, ReleaseTimesHolds DEF Held
  <2>5. Settled(link')
    BY <1>1, <2>3 DEF Settled, SameWaiters, Connected, Sound
  <2> QED BY <2>3, <2>4, <2>5 DEF Tends, Held, Settled, Connected, ResolvesLive, LeavesError, SameWaiters
<1>9. CASE WaitTimeout(c)
  <2>1. /\ link'.waiting \subseteq link.waiting /\ link'.resolved = link.resolved
        /\ link'.retain = link.retain /\ link'.watched = link.watched /\ link'.tracked = link.tracked
        /\ link'.present = link.present /\ link'.status = link.status /\ link'.closed = link.closed
        /\ link'.fetch = link.fetch
    BY <1>1, <1>9 DEF WaitTimeout, Links
  <2>2. SameHolders(link', link) /\ Settled(link')
    BY <1>1, <2>1 DEF SameHolders, Holds, Settled, Connected
  <2>3. Holding' = Holding
    BY <1>9 DEF WaitTimeout, Holding
  <2> QED BY <2>1, <2>2, <2>3, TendsSame DEF ResolvesLive, LeavesError
<1> QED BY <1>4, <1>5, <1>6, <1>7, <1>8, <1>9 DEF AttachNext

\* The turn ends: the prompt lets go of the daemon.
LEMMA EndTurnTends ==
  ASSUME IInv, Held, NEW c \in Clients, client[c] \in {"waking", "prompting"},
         NEW l \in Links, Sound(l), Tended(l, link), l.present = link.present, l.status = link.status,
         EndTurn(c, l)
  PROVE  Tends
<1>1. c \in Holding /\ Holding' = Holding \ {c}
  BY BecomeHolding DEF EndTurn, Holding, IInv, ClientStates
<1>2. Holders' = Holders - 1 /\ Holders \in Nat /\ Holders >= 1
  BY <1>1, OneHolderLess, HoldersFinite
<1>3. /\ link' = ReleaseTimes(l, 1) /\ link'.present = link.present /\ link'.status = link.status
      /\ link'.fetch = l.fetch /\ Sound(link') /\ SameWaiters(link', l)
  BY ReleaseTimesType, ReleaseTimesKeeps, KeepsSound, ReleaseTimesWaiters
    DEF EndTurn, Release, Keeps
<1>4. link'.present => Holds(link', Holders')
  BY <1>2, <1>3, ReleaseTimesHolds DEF Held, Tended, SameHolders
<1>5. Settled(link')
  BY <1>3 DEF Settled, SameWaiters, Connected, Sound, Tended
<1> QED BY <1>3, <1>4, <1>5 DEF Tends, Held, Settled, Connected, ResolvesLive, LeavesError, SameWaiters, Tended

LEMMA PromptTends == ASSUME IInv, Held, NEW c \in Clients, PromptNext(c) PROVE Tends
<1>1. /\ link \in Links /\ Sound(link) /\ Settled(link) /\ TypeOK
      /\ {"queued", "waking", "prompting"} \subseteq ClientStates
  BY DEF IInv, TypeOK, LinkSound, Held, ClientStates
<1> DEFINE f == Forget(link, c)
<1>2. /\ f \in Links /\ Sound(f) /\ Tended(f, link) /\ f.status = link.status
      /\ f.present = link.present
  <2>1. f.present = link.present
    BY <1>1 DEF Forget, Links
  <2> QED BY <1>1, <2>1, ForgetTends, ForgetType, ForgetSound
<1> HIDE DEF f
<1>3. CASE Prompt(c)
  <2>1. link' = link /\ Holding' = Holding
    BY <1>1, <1>3, BecomeHolding DEF Prompt, Holding
  <2> QED BY <1>1, <2>1, TendsSame, NeutralReflexive
    DEF Neutral, ResolvesLive, LeavesError, SameHolders, Settled, Connected
<1>4. CASE PromptStarts(c)
  <2> DEFINE m == Retain(link)
  <2>1. c \notin Holding /\ Holding' = Holding \cup {c}
    <3>1. Become(c, "prompting") \/ Become(c, "waking")
      BY <1>4 DEF PromptStarts
    <3> QED BY <1>1, <1>4, <3>1, BecomeHolding DEF PromptStarts, Holding
  <2>2. Holders' = Holders + 1 /\ Holders \in Nat
    BY <2>1, OneMoreHolder, HoldersFinite
  <2>3. /\ m \in Links /\ Sound(m) /\ m.present = link.present /\ m.status = link.status
        /\ m.fetch = link.fetch /\ SameWaiters(m, link)
    BY <1>1, RetainType, RetainKeeps, KeepsSound, RetainWaiters DEF Keeps
  <2>4. Settled(m) /\ (m.present => Holds(m, Holders'))
    BY <1>1, <2>2, <2>3, RetainHolds DEF Settled, SameWaiters, Connected, Sound, Held
  <2>5. link' = m \/ link' = WaitReady(Connect(m), c)
    BY <1>4 DEF PromptStarts
  <2> HIDE DEF m
  <2> DEFINE k == Connect(m)
             w == WaitReady(k, c)
  <2>6. /\ k \in Links /\ Sound(k) /\ Tended(k, m) /\ k.status \in {m.status, "connecting", "error"}
        /\ k.present => m.present
    BY <2>3, <2>4, ConnectType, ConnectSound, ConnectTends, PresentKept
  <2> HIDE DEF k
  <2>7. /\ SameHolders(w, k) /\ Settled(w) /\ w.status = k.status
        /\ w.resolved \subseteq k.resolved \/ (w.status = "ready" /\ Connected(w))
    BY <2>6, WaitReadyTends DEF Tended
  <2>8. w.present = k.present
    BY <2>6 DEF WaitReady, Links
  <2> HIDE DEF w
  <2>9. link' = w => Tends
    <3>1. ASSUME link' = w PROVE link'.present => Holds(link', Holders')
      BY <2>2, <2>4, <2>6, <2>7, <2>8, <3>1 DEF Tended, SameHolders
    <3>2. ASSUME link' = w PROVE ResolvesLive /\ LeavesError
      BY <2>3, <2>6, <2>7, <3>2 DEF ResolvesLive, LeavesError, Tended, SameWaiters
    <3> QED BY <2>7, <3>1, <3>2 DEF Tends, Held, Settled, Connected
  <2>10. link' = m => Tends
    BY <2>3, <2>4 DEF Tends, Held, Settled, Connected, ResolvesLive, LeavesError, SameWaiters
  <2> QED BY <2>5, <2>9, <2>10 DEF w, k
<1>5. CASE PromptSends(c)
  <2> DEFINE m == Ensure(f)
  <2>1. /\ m \in Links /\ Sound(m) /\ Neutral(m, f) /\ m.present = link.present
        /\ m.status = link.status /\ m.fetch = f.fetch
    BY <1>2, EnsureType, EnsureSound, EnsureNeutral DEF Ensure, Links
  <2>2. Tended(m, link)
    BY <1>2, <2>1, NeutralTends, TendedTransitive DEF Tended
  <2>3. \/ link' = m /\ Become(c, "prompting")
        \/ EndTurn(c, m)
    BY <1>5 DEF PromptSends, f
  <2> HIDE DEF m
  <2>4. CASE link' = m /\ Become(c, "prompting")
    <3>1. Holding' = Holding
      BY <1>1, <1>5, <2>4, BecomeHolding DEF PromptSends, Holding
    <3> QED BY <2>1, <2>2, <2>4, <3>1, TendsSame DEF Tended, ResolvesLive, LeavesError
  <2>5. CASE EndTurn(c, m)
    BY <1>5, <2>1, <2>2, <2>5, EndTurnTends DEF PromptSends
  <2> QED BY <2>3, <2>4, <2>5
<1>6. CASE PromptFails(c)
  BY <1>2, <1>6, EndTurnTends DEF PromptFails, f
<1>7. CASE PromptSettles(c)
  <2>1. Tended(link, link)
    BY <1>1, NeutralReflexive, NeutralTends
  <2> QED BY <1>1, <1>7, <2>1, EndTurnTends DEF PromptSettles
<1> QED BY <1>3, <1>4, <1>5, <1>6, <1>7 DEF PromptNext

\* The pipes closed with the daemon hold it no longer.
LEMMA ClosedPipesHold ==
  ASSUME IInv, Held, NEW closing \in BOOLEAN, ClosePipes(closing)
  PROVE  /\ PipesClosed(closing) \in Links /\ Sound(PipesClosed(closing))
         /\ PipesClosed(closing).present = link.present /\ PipesClosed(closing).status = link.status
         /\ SameWaiters(PipesClosed(closing), link) /\ Settled(PipesClosed(closing))
         /\ link.present => Holds(PipesClosed(closing), Holders')
         /\ Holders' \in Nat
<1>1. link \in Links /\ Sound(link) /\ Settled(link) /\ client \in [Clients -> ClientStates]
  BY DEF IInv, TypeOK, LinkSound, Held
<1>2. CASE ~closing
  <2>1. Holding' = Holding
    BY <1>2 DEF ClosePipes, Holding
  <2>2. Holders' = Holders /\ Holders \in Nat
    BY <2>1, SameHolding, HoldersFinite
  <2> QED BY <1>1, <1>2, <2>2 DEF PipesClosed, Held, SameWaiters
<1>3. CASE closing
  <2> DEFINE k == Cardinality(Attached)
             p == ReleaseTimes(link, k)
  <2>1. Attached \subseteq Holding /\ Holding' = Holding \ Attached
    BY <1>1, <1>3 DEF ClosePipes, Attached, Holding
  <2>2. IsFiniteSet(Attached) /\ k \in Nat /\ k <= Holders /\ Holders \in Nat
    BY <2>1, HoldersFinite, FS_Subset, FS_CardinalityType
  <2>3. Cardinality(Holding \ Attached) = Holders - k
    <3>1. Cardinality(Holding \ Attached) = Cardinality(Holding) - Cardinality(Holding \cap Attached)
      BY HoldersFinite, <2>2, FS_Difference
    <3>2. Holding \cap Attached = Attached
      BY <2>1
    <3> QED BY <3>1, <3>2, HoldersFinite
  <2>4. Holders' = Cardinality(Holding')
    BY DEF Holders, Holding
  <2>5. Holders' = Holders - k /\ k \in 0..Holders
    BY <2>1, <2>2, <2>3, <2>4
  <2> HIDE DEF k
  <2>6. /\ p \in Links /\ Sound(p) /\ p.present = link.present /\ p.status = link.status
        /\ p.fetch = link.fetch /\ SameWaiters(p, link)
    BY <1>1, <2>2, ReleaseTimesType, ReleaseTimesKeeps, KeepsSound, ReleaseTimesWaiters DEF Keeps
  <2>7. link.present => Holds(p, Holders')
    BY <1>1, <2>2, <2>5, ReleaseTimesHolds DEF Held
  <2> HIDE DEF p
  <2>8. Settled(p)
    BY <1>1, <2>6 DEF Settled, SameWaiters, Connected, Sound
  <2>9. PipesClosed(closing) = p
    BY <1>3 DEF PipesClosed, p, k
  <2> QED BY <2>2, <2>5, <2>6, <2>7, <2>8, <2>9
<1> QED BY <1>2, <1>3

LEMMA FleetTends == ASSUME IInv, Held, FleetNext PROVE Tends
<1>1. link \in Links /\ Sound(link) /\ Settled(link)
  BY DEF IInv, TypeOK, LinkSound, Held
<1>2. ASSUME UNCHANGED client, Tended(link', link), LeavesError, link'.present => link.present
      PROVE  Tends
  <2>1. Holding' = Holding
    BY <1>2 DEF Holding
  <2> QED BY <1>2, <2>1, TendsSame DEF Tended, ResolvesLive
<1>3. CASE BrowserOpens
  <2> DEFINE m == [link EXCEPT !.watching = TRUE]
             w == Watch(m)
  <2>1. /\ m \in Links /\ Sound(m) /\ Neutral(m, link) /\ m.present = link.present
        /\ m.status = link.status /\ m.fetch = link.fetch
    BY <1>1, NeutralFields DEF Sound, Links
  <2>2. link' = IF m.present /\ m.status = "ready" THEN Connect(w) ELSE m
    BY <1>3 DEF BrowserOpens
  <2> HIDE DEF m
  <2>3. Tended(m, link)
    BY <1>1, <2>1, NeutralTends
  <2>4. /\ w \in Links /\ Sound(w) /\ Tended(w, m) /\ w.present = m.present /\ w.status = m.status
    BY <2>1, <2>3, WatchType, WatchKeeps, KeepsSound, WatchNeutral, KeepsTends DEF Keeps, Tended
  <2> HIDE DEF w
  <2>5. Tended(Connect(w), link)
    BY <2>3, <2>4, ConnectTends, TendedTransitive DEF Tended
  <2>6. Tended(link', link) /\ (link.status = "error" => link'.status = "error")
    BY <2>1, <2>2, <2>3, <2>5
  <2>7. link'.present => link.present
    BY <2>1, <2>2
  <2> QED BY <1>2, <1>3, <2>6, <2>7 DEF BrowserOpens, LeavesError
<1>4. CASE BrowserCloses
  <2> DEFINE m == [link EXCEPT !.watching = FALSE]
  <2>1. /\ m \in Links /\ Sound(m) /\ Neutral(m, link) /\ m.present = link.present
        /\ m.status = link.status /\ m.fetch = link.fetch /\ link' = Unwatch(m)
    BY <1>1, <1>4, NeutralFields DEF BrowserCloses, Sound, Links
  <2> HIDE DEF m
  <2>2. Tended(m, link)
    BY <1>1, <2>1, NeutralTends
  <2>3. Tended(link', m) /\ link'.present = m.present /\ link'.status = m.status
    BY <2>1, <2>2, UnwatchKeeps, UnwatchNeutral, KeepsTends DEF Keeps, Tended
  <2> QED BY <1>2, <1>4, <2>1, <2>2, <2>3, TendedTransitive DEF BrowserCloses, LeavesError
<1>5. CASE OtherMutation
  <2>1. /\ link' = RegistryChanged(link) /\ Tended(link', link)
        /\ link.status # "ready" => link'.status = link.status
    BY <1>1, <1>5, RegistryChangedTends DEF OtherMutation
  <2>2. link'.present => link.present
    BY <1>1, <2>1, PresentKept
  <2> QED BY <1>2, <1>5, <2>1, <2>2 DEF OtherMutation, LeavesError
<1>6. CASE FleetRestart
  <2>1. /\ Settled(link') /\ link'.resolved = {} /\ (link'.present => Holds(link', 0))
        /\ link.status = "error" => link'.status = "error"
    BY <1>1, <1>6, BootTends DEF FleetRestart
  <2>2. Holding' = {}
    BY <1>6 DEF FleetRestart, Holding
  <2>3. Holders' = 0
    BY <2>2, FS_EmptySet DEF Holders, Holding
  <2> QED BY <2>1, <2>3 DEF Tends, Held, Settled, Connected, ResolvesLive, LeavesError
<1>7. ASSUME NEW closing \in BOOLEAN, Stop(closing) PROVE Tends
  <2> DEFINE p == PipesClosed(closing)
             d == Disconnect(p)
  <2>1. /\ p \in Links /\ Sound(p) /\ Settled(p) /\ SameWaiters(p, link)
        /\ Holds(p, Holders') /\ Holders' \in Nat /\ link' = SetStatus(d, "asleep")
    BY <1>7, ClosedPipesHold DEF Stop
  <2> HIDE DEF p
  <2>2. d \in Links /\ Neutral(d, p)
    BY <2>1, DisconnectType, DisconnectTends
  <2> HIDE DEF d
  <2>3. Neutral(link', p) /\ link'.status = "asleep"
    <3>1. "asleep" \in Statuses
      BY DEF Statuses
    <3>2. Neutral(SetStatus(d, "asleep"), d)
      BY <2>2, <3>1, SetStatusNeutral
    <3>3. SetStatus(d, "asleep").status = "asleep"
      BY <2>2, <3>1, SetStatusKeeps
    <3> QED BY <2>1, <2>2, <3>2, <3>3, NeutralTransitive
  <2>4. Holds(link', Holders') /\ link'.resolved = link.resolved
    BY <2>1, <2>3 DEF Neutral, SameWaiters, SameHolders
  <2> QED BY <2>3, <2>4 DEF Tends, Held, Settled, Connected, ResolvesLive, LeavesError
<1>8. ASSUME NEW closing \in BOOLEAN, RemoveDaemon(closing) PROVE Tends
  <2> DEFINE p == PipesClosed(closing)
             d == Drop(p)
  <2>1. /\ p \in Links /\ SameWaiters(p, link) /\ p.status = link.status /\ link' = Remove(d)
    BY <1>8, ClosedPipesHold DEF RemoveDaemon
  <2> HIDE DEF p
  <2>2. d \in Links /\ d.resolved = p.resolved /\ d.status = p.status
    BY <2>1, DropType, DropResolves
  <2> HIDE DEF d
  <2>3. ~link'.present /\ link'.resolved = link.resolved /\ link'.status = link.status
    BY <2>1, <2>2, RemoveResolves DEF SameWaiters
  <2> QED BY <2>3 DEF Tends, Held, Settled, Connected, ResolvesLive, LeavesError
<1> QED BY <1>3, <1>4, <1>5, <1>6, <1>7, <1>8 DEF FleetNext

LEMMA StutterTends == ASSUME Held, UNCHANGED vars PROVE Tends
<1>1. Holding' = Holding /\ link' = link
  BY DEF vars, Holding
<1> QED BY <1>1, SameHolding DEF Tends, Held, Settled, Connected, ResolvesLive, LeavesError

LEMMA InitHeld == Init => Held
<1> SUFFICES ASSUME Init PROVE Held
  OBVIOUS
<1>1. Holders = 0
  <2>1. {c \in Clients : client[c] \in {"attached", "waking", "prompting"}} = {}
    BY DEF Init
  <2> QED BY <2>1, FS_EmptySet DEF Holders
<1>2. ASSUME NEW s \in Statuses
      PROVE  /\ NewLink(s, Endpoint, Endpoint) \in Links /\ Sound(NewLink(s, Endpoint, Endpoint))
             /\ Holds(NewLink(s, Endpoint, Endpoint), 0) /\ Settled(NewLink(s, Endpoint, Endpoint))
  BY NewLinkType, NewLinkSound DEF NewLink, Holds, Settled, Endpoint
<1>3. Holds(link, 0) /\ Settled(link)
  BY <1>2, ConnectTends DEF Init, Statuses, Tended, SameHolders
<1> QED BY <1>1, <1>3 DEF Held

LEMMA StepTends == ASSUME IInv, Held, [Next]_vars PROVE Tends /\ IInv'
BY StreamStep, AttachStep, PromptStep, FleetStep, Stutter,
   StreamTends, AttachTends, PromptTends, FleetTends, StutterTends DEF Next

(* The count of a registered daemon is at all times the number of live     *)
(* pipes, of running prompts and of the activity watch, for any number of  *)
(* callers: no path of attach, prompt, stop, remove or restart forgets a   *)
(* release() or makes one too many (connector.ts retain, release).         *)
THEOREM HoldersBalance == Spec => []RetainBalanced
<1>1. IInv /\ Held /\ [Next]_vars => (IInv /\ Held)'
  BY StepTends DEF Tends
<1>2. Held => RetainBalanced
  BY DEF Held, Holds, RetainBalanced
<1> QED BY InitIInv, InitHeld, <1>1, <1>2, PTL DEF Spec

(* Nobody waits for a daemon that is ready on a live stream or in error:   *)
(* whoever asks is answered at once, and whoever waits is answered by the  *)
(* transition that settles it (#transition, waitReady).                    *)
THEOREM NobodyLeftWaiting == Spec => []NoWaiterLeftBehind
<1>1. IInv /\ Held /\ [Next]_vars => (IInv /\ Held)'
  BY StepTends DEF Tends
<1>2. Held => NoWaiterLeftBehind
  BY DEF Held, Settled, NoWaiterLeftBehind
<1> QED BY InitIInv, InitHeld, <1>1, <1>2, PTL DEF Spec

(* A step that resolves a waiter leaves the daemon ready on a live stream. *)
THEOREM ReadyIsLive == Spec => ReadyMeansLive
<1>1. IInv /\ Held /\ [Next]_vars => (IInv /\ Held)'
  BY StepTends DEF Tends
<1>2. IInv /\ Held /\ [Next]_vars =>
        [\A c \in Clients : c \in link'.resolved /\ c \notin link.resolved
           => link'.status = "ready" /\ Connected(link')]_vars
  BY StepTends DEF Tends, ResolvesLive
<1> QED BY InitIInv, InitHeld, <1>1, <1>2, PTL DEF Spec, ReadyMeansLive

(* "error" is left only by a fresh connect() or by a stop, whatever frame, *)
(* stream end or timer comes.                                              *)
THEOREM ErrorStays == Spec => ErrorIsTerminal
<1>1. IInv /\ Held /\ [Next]_vars => (IInv /\ Held)'
  BY StepTends DEF Tends
<1>2. IInv /\ Held /\ [Next]_vars =>
        [link.status = "error" => link'.status \in {"error", "connecting", "asleep"}]_vars
  BY StepTends DEF Tends, LeavesError
<1> QED BY InitIInv, InitHeld, <1>1, <1>2, PTL DEF Spec, ErrorIsTerminal
=============================================================================
