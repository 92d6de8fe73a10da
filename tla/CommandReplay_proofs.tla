------------------------- MODULE CommandReplay_proofs -------------------------
(***************************************************************************)
(* That a call runs at most once, for any number of calls, processes,      *)
(* posts and clock units, any Window and any delay of a post, as long as   *)
(* the last re-post arrives within Window of the first post.  The code     *)
(* lets a call that has no answer for a whole Window be re-posted up to    *)
(* the end of it, and so assumes that posts take no time (MaxDelay = 0).   *)
(*                                                                         *)
(* The argument is about the window that starts with the call's first      *)
(* post.  Nothing of the call is on its way outside it; inside it neither  *)
(* the daemon nor the edge may forget the call, whatever else they sweep.  *)
(***************************************************************************)
EXTENDS CommandReplay, TLAPS

\* The browser still re-posts the call.
InWindow(i) == now - call[i].first <= Window

\* A dead process can be followed by another one.
ProcLeft == ~daemon.alive => daemon.proc < MaxProcs

\* A re-post leaves early enough to arrive within the window.
RepostedInTime ==
  \A i \in Calls : Replay(i) => now + MaxDelay <= call[i].first + Window

\* What is on its way arrives within its call's window.
PostsInWindow ==
  \A m \in posts \cup forwards :
    /\ call[m.id].pc # "idle"
    /\ m.at <= now /\ now <= m.at + MaxDelay
    /\ m.at + MaxDelay <= call[m.id].first + Window

\* Only processes that exist have run a call, and only a call in their scope.
RunsInScope ==
  \A i \in Calls, p \in Procs :
    runs[i][p] > 0 =>
      p <= daemon.proc /\ call[i].pc # "idle" /\ call[i].scope \in {0, p}

\* The daemon's process remembers what it has run for as long as a re-post
\* can reach it.
DaemonRemembers ==
  \A i \in Calls :
    daemon.alive /\ runs[i][daemon.proc] > 0 /\ InWindow(i) =>
      \E s \in daemon.seen : s.id = i /\ s.at >= call[i].first

AtMostOnce == \A i \in Calls, p \in Procs : runs[i][p] <= 1

\* The edge's record of a call that is not answered names one process.
OneOrigin ==
  \A i \in Calls : \A o1, o2 \in Outstanding(i) : o1.token = o2.token

HasOrigin(i, p) == \E o \in Outstanding(i) : o.token = p /\ o.at >= call[i].first

\* The edge remembers which process of a spawned daemon a call it minds has
\* gone to or run in, for as long as a re-post can come.
EdgeRemembers ==
  daemon.spawned =>
    \A i \in minded : InWindow(i) =>
      /\ \A f \in forwards : f.id = i => HasOrigin(i, f.token)
      /\ \A p \in Procs : runs[i][p] > 0 => HasOrigin(i, p)

FirstIsPast == \A i \in Calls : call[i].first <= now

DaemonInv == FirstIsPast /\ PostsInWindow /\ RunsInScope /\ DaemonRemembers /\ AtMostOnce

EdgeInv == OneOrigin /\ EdgeRemembers /\ MindedRunsOnce

-----------------------------------------------------------------------------
(* Types.                                                                  *)

LEMMA InitTypes == Init => TypeOK /\ ProcLeft
<1> SUFFICES ASSUME Init
             PROVE  TypeOK /\ ProcLeft
  OBVIOUS
<1> USE ParametersAreNats
<1>1. call \in [Calls -> CallStates] /\ now \in Times
  BY DEF Init, CallStates, Times
<1>2. edge \in Edges
  BY DEF Init, Edges, Procs
<1>3. daemon \in Daemons /\ daemon.alive
  <2>1. PICK s \in BOOLEAN :
          daemon = [spawned |-> s, proc |-> 1, alive |-> TRUE, seen |-> {}, running |-> {},
                    answered |-> {}]
    BY DEF Init
  <2>2. 1 \in Procs
    BY DEF Procs
  <2> QED
    BY <2>1, <2>2 DEF Daemons
<1>4. runs \in [Calls -> [Procs -> Nat]]
  BY DEF Init
<1> QED
  BY <1>1, <1>2, <1>3, <1>4 DEF Init, TypeOK, ProcLeft

\* Sweeping and refreshing the edge's records keeps them records.
LEMMA OriginsTyped ==
  ASSUME TypeOK, NEW i \in Calls
  PROVE  /\ Fresh(edge.origins) \subseteq Origins
         /\ Remember(i) \subseteq Origins
<1>1. edge \in Edges /\ edge.origins \subseteq Origins /\ now \in Times
  BY DEF TypeOK, Edges
<1>2. ASSUME NEW o \in Origins
      PROVE  [o EXCEPT !.at = now] \in Origins
  BY <1>1 DEF Origins
<1>3. [id |-> i, generation |-> edge.generation, endpoint |-> edge.endpoint,
       token |-> edge.token, delivered |-> FALSE, at |-> now] \in Origins
  BY <1>1 DEF Origins, Edges
<1>4. Fresh(edge.origins) \subseteq Origins
      /\ Fresh({o \in edge.origins : o.id # i}) \subseteq Origins
  BY <1>1 DEF Fresh
<1>5. {IF o.id = i THEN [o EXCEPT !.at = now] ELSE o : o \in edge.origins} \subseteq Origins
  BY <1>1, <1>2
<1> QED
  BY <1>3, <1>4, <1>5 DEF Remember

LEMMA BrowserTypes ==
  ASSUME TypeOK, ProcLeft,
         \/ \E i \in Calls : Call(i) \/ Replay(i) \/ GiveUp(i)
         \/ \E n \in notices : Settle(n)
         \/ StreamDrops \/ StreamOpens \/ Attaches
  PROVE  TypeOK' /\ ProcLeft'
<1> USE ParametersAreNats
<1>1. ASSUME NEW i \in Calls, Call(i)
      PROVE  TypeOK' /\ ProcLeft'
  <2>1. PICK s \in 0..edge.generation :
          call' = [call EXCEPT ![i] = [pc |-> "pending", first |-> now, scope |-> s, outcome |-> "none"]]
    BY <1>1 DEF Call
  <2>2. s \in {0} \cup Procs
    BY DEF TypeOK, Edges, Procs
  <2>3. call' \in [Calls -> CallStates]
    BY <2>1, <2>2 DEF TypeOK, CallStates
  <2> QED
    BY <1>1, <2>3 DEF Call, TypeOK, ProcLeft
<1>2. ASSUME NEW i \in Calls, Replay(i)
      PROVE  TypeOK' /\ ProcLeft'
  BY <1>2 DEF Replay, TypeOK, ProcLeft
<1>3. ASSUME NEW i \in Calls, GiveUp(i)
      PROVE  TypeOK' /\ ProcLeft'
  <2>1. call' \in [Calls -> CallStates]
    BY <1>3 DEF GiveUp, TypeOK, CallStates
  <2> QED
    BY <1>3, <2>1 DEF GiveUp, TypeOK, ProcLeft
<1>4. ASSUME NEW n \in notices, Settle(n)
      PROVE  TypeOK' /\ ProcLeft'
  <2>1. call' \in [Calls -> CallStates]
    BY <1>4 DEF Settle, TypeOK, CallStates
  <2> QED
    BY <1>4, <2>1 DEF Settle, TypeOK, ProcLeft
<1>5. CASE StreamDrops \/ StreamOpens \/ Attaches
  BY <1>5 DEF StreamDrops, StreamOpens, Attaches, TypeOK, ProcLeft
<1> QED
  BY <1>1, <1>2, <1>3, <1>4, <1>5

LEMMA EdgeTypes ==
  ASSUME TypeOK, ProcLeft,
         \/ \E i \in Calls : RouteAnswer(i)
         \/ \E m \in posts : AnswerUnattached(m) \/ Refuse(m) \/ Forward(m)
         \/ OtherForwarded \/ PipeGreets \/ EdgeRestarts
  PROVE  TypeOK' /\ ProcLeft'
<1> USE ParametersAreNats
<1>1. ASSUME NEW i \in Calls, RouteAnswer(i)
      PROVE  TypeOK' /\ ProcLeft'
  <2>1. ASSUME NEW o \in Origins
        PROVE  [o EXCEPT !.delivered = TRUE] \in Origins
    BY DEF Origins
  <2>2. edge.origins \subseteq Origins
    BY DEF TypeOK, Edges
  <2>3. {IF o.id = i THEN [o EXCEPT !.delivered = TRUE] ELSE o : o \in edge.origins} \subseteq Origins
    BY <2>1, <2>2
  <2>4. edge' \in Edges
    BY <1>1, <2>3 DEF RouteAnswer, TypeOK, Edges
  <2> QED
    BY <1>1, <2>4 DEF RouteAnswer, TypeOK, ProcLeft, Outcomes
<1>2. ASSUME NEW m \in posts, AnswerUnattached(m)
      PROVE  TypeOK' /\ ProcLeft'
  BY <1>2 DEF AnswerUnattached, TypeOK, ProcLeft, Outcomes
<1>3. ASSUME NEW m \in posts, Refuse(m)
      PROVE  TypeOK' /\ ProcLeft'
  <2>1. edge' \in Edges
    BY <1>3 DEF Refuse, TypeOK, Edges
  <2> QED
    BY <1>3, <2>1 DEF Refuse, TypeOK, ProcLeft, Outcomes
<1>4. ASSUME NEW m \in posts, Forward(m)
      PROVE  TypeOK' /\ ProcLeft'
  <2>1. m.id \in Calls /\ m.at \in Times
    BY DEF TypeOK
  <2>2. edge' \in Edges
    BY <1>4, <2>1, OriginsTyped DEF Forward, TypeOK, Edges
  <2>3. forwards' \subseteq [id: Calls, to: Procs, token: Procs, at: Times]
    BY <1>4, <2>1 DEF Forward, TypeOK, Edges
  <2> QED
    BY <1>4, <2>2, <2>3 DEF Forward, TypeOK, ProcLeft
<1>5. CASE OtherForwarded
  <2>1. Fresh(edge.origins) \subseteq Origins
    BY DEF TypeOK, Edges, Fresh
  <2>2. edge' \in Edges
    BY <1>5, <2>1 DEF OtherForwarded, TypeOK, Edges
  <2> QED
    BY <1>5, <2>2 DEF OtherForwarded, TypeOK, ProcLeft
<1>6. CASE PipeGreets
  <2>1. edge' \in Edges
    BY <1>6 DEF PipeGreets, TypeOK, Edges, Daemons
  <2> QED
    BY <1>6, <2>1 DEF PipeGreets, TypeOK, ProcLeft
<1>7. CASE EdgeRestarts
  <2>1. edge' \in Edges
    BY <1>7 DEF EdgeRestarts, TypeOK, Edges
  <2> QED
    BY <1>7, <2>1 DEF EdgeRestarts, TypeOK, ProcLeft
<1> QED
  BY <1>1, <1>2, <1>3, <1>4, <1>5, <1>6, <1>7

\* A process runs a call once more.
LEMMA OneMoreRun ==
  ASSUME NEW r \in [Calls -> [Procs -> Nat]], NEW i \in Calls, NEW p \in Procs,
         NEW s, s = [r EXCEPT ![i][p] = @ + 1]
  PROVE  /\ s \in [Calls -> [Procs -> Nat]]
         /\ \A j \in Calls, q \in Procs :
              s[j][q] = IF j = i /\ q = p THEN r[i][p] + 1 ELSE r[j][q]
<1> DEFINE row == [r[i] EXCEPT ![p] = r[i][p] + 1]
<1>1. row \in [Procs -> Nat] /\ row[p] = r[i][p] + 1
      /\ \A q \in Procs : q # p => row[q] = r[i][q]
  <2>1. r[i] \in [Procs -> Nat] /\ r[i][p] \in Nat
    OBVIOUS
  <2> QED
    BY <2>1
<1>2. s = [r EXCEPT ![i] = row]
  OBVIOUS
<1> HIDE DEF row
<1>3. s \in [Calls -> [Procs -> Nat]]
  BY <1>1, <1>2
<1>4. s[i] = row /\ \A j \in Calls : j # i => s[j] = r[j]
  BY <1>2
<1> QED
  BY <1>1, <1>3, <1>4

LEMMA DispatchRuns ==
  ASSUME TypeOK, NEW f \in forwards, Dispatch(f)
  PROVE  /\ runs' \in [Calls -> [Procs -> Nat]]
         /\ \A j \in Calls, q \in Procs :
              runs'[j][q] = IF j = f.id /\ q = daemon.proc THEN runs[j][q] + 1 ELSE runs[j][q]
<1>1. f.id \in Calls /\ daemon.proc \in Procs /\ runs \in [Calls -> [Procs -> Nat]]
  BY DEF TypeOK, Daemons
<1>2. runs' = [runs EXCEPT ![f.id][daemon.proc] = @ + 1]
  BY DEF Dispatch
<1> QED
  BY <1>1, <1>2, OneMoreRun

LEMMA DaemonTypes ==
  ASSUME TypeOK, ProcLeft,
         \/ \E i \in Calls : Answer(i)
         \/ \E f \in forwards : Duplicate(f) \/ Dispatch(f) \/ OutOfScope(f)
         \/ OtherAnswered \/ Dies \/ Launch \/ Listens
  PROVE  TypeOK' /\ ProcLeft'
<1> USE ParametersAreNats
<1>1. daemon \in Daemons /\ Fresh(daemon.seen) \subseteq [id: Calls, at: Times]
  BY DEF TypeOK, Daemons, Fresh
<1>2. ASSUME NEW i \in Calls, Answer(i)
      PROVE  TypeOK' /\ ProcLeft'
  <2>1. daemon' \in Daemons /\ daemon'.alive = daemon.alive /\ daemon'.proc = daemon.proc
    BY <1>1, <1>2 DEF Answer, Daemons
  <2> QED
    BY <1>2, <2>1 DEF Answer, TypeOK, ProcLeft
<1>3. ASSUME NEW f \in forwards, Duplicate(f)
      PROVE  TypeOK' /\ ProcLeft'
  <2>1. daemon' \in Daemons /\ daemon'.alive = daemon.alive /\ daemon'.proc = daemon.proc
    BY <1>1, <1>3 DEF Duplicate, Daemons
  <2> QED
    BY <1>3, <2>1 DEF Duplicate, TypeOK, ProcLeft
<1>4. ASSUME NEW f \in forwards, Dispatch(f)
      PROVE  TypeOK' /\ ProcLeft'
  <2>1. f.id \in Calls /\ daemon.proc \in Procs /\ now \in Times
    BY <1>1 DEF TypeOK, Daemons
  <2>2. Noted(f.id) \subseteq [id: Calls, at: Times]
    BY <1>1, <2>1 DEF Noted
  <2>3. daemon' \in Daemons /\ daemon'.alive = daemon.alive /\ daemon'.proc = daemon.proc
    BY <1>1, <1>4, <2>1, <2>2 DEF Dispatch, Daemons
  <2>4. runs' \in [Calls -> [Procs -> Nat]]
    BY <1>4, DispatchRuns
  <2> QED
    BY <1>4, <2>3, <2>4 DEF Dispatch, TypeOK, ProcLeft
<1>5. ASSUME NEW f \in forwards, OutOfScope(f)
      PROVE  TypeOK' /\ ProcLeft'
  <2>1. f.id \in Calls /\ now \in Times
    BY <1>1 DEF TypeOK, Daemons
  <2>2. Noted(f.id) \subseteq [id: Calls, at: Times]
    BY <1>1, <2>1 DEF Noted
  <2>3. daemon' \in Daemons /\ daemon'.alive = daemon.alive /\ daemon'.proc = daemon.proc
    BY <1>1, <1>5, <2>1, <2>2 DEF OutOfScope, Daemons
  <2> QED
    BY <1>5, <2>1, <2>3 DEF OutOfScope, TypeOK, ProcLeft
<1>6. CASE OtherAnswered
  <2>1. daemon' \in Daemons /\ daemon'.alive = daemon.alive /\ daemon'.proc = daemon.proc
    BY <1>1, <1>6 DEF OtherAnswered, Daemons
  <2> QED
    BY <1>6, <2>1 DEF OtherAnswered, TypeOK, ProcLeft
<1>7. CASE Dies
  <2>1. daemon' = [daemon EXCEPT !.alive = FALSE, !.seen = {}, !.running = {}, !.answered = {}]
        /\ daemon.proc < MaxProcs
    BY <1>7 DEF Dies
  <2>2. daemon' \in Daemons /\ daemon'.proc = daemon.proc
    BY <1>1, <2>1 DEF Daemons
  <2> QED
    BY <1>7, <2>1, <2>2 DEF Dies, TypeOK, ProcLeft
<1>8. CASE Launch
  <2>1. daemon.proc + 1 \in Procs
    BY <1>1, <1>8 DEF Launch, ProcLeft, Daemons, Procs
  <2>2. daemon' = [daemon EXCEPT !.proc = daemon.proc + 1, !.alive = TRUE]
    BY <1>8 DEF Launch
  <2>3. daemon' \in Daemons /\ daemon'.alive
    BY <1>1, <2>1, <2>2 DEF Daemons
  <2>4. edge' \in Edges
    BY <1>8, <2>1 DEF Launch, TypeOK, Edges
  <2> QED
    BY <1>8, <2>3, <2>4 DEF Launch, TypeOK, ProcLeft
<1>9. CASE Listens
  <2>1. edge' \in Edges
    BY <1>1, <1>9 DEF Listens, TypeOK, Edges, Daemons
  <2> QED
    BY <1>9, <2>1 DEF Listens, TypeOK, ProcLeft
<1> QED
  BY <1>2, <1>3, <1>4, <1>5, <1>6, <1>7, <1>8, <1>9

LEMMA TypeStep == TypeOK /\ ProcLeft /\ [Next]_vars => TypeOK' /\ ProcLeft'
<1> SUFFICES ASSUME TypeOK, ProcLeft, [Next]_vars
             PROVE  TypeOK' /\ ProcLeft'
  OBVIOUS
<1>1. CASE Lose
  BY <1>1 DEF Lose, TypeOK, ProcLeft
<1>2. CASE Tick
  <2>1. now' \in Times
    BY <1>2, ParametersAreNats DEF Tick, TypeOK, Times
  <2> QED
    BY <1>2, <2>1 DEF Tick, TypeOK, ProcLeft
<1>3. CASE UNCHANGED vars
  BY <1>3 DEF vars, TypeOK, ProcLeft
<1> QED
  BY <1>1, <1>2, <1>3, BrowserTypes, EdgeTypes, DaemonTypes DEF Next

-----------------------------------------------------------------------------
(* The daemon's part: what is on its way, the processes and their memory.  *)

LEMMA InitDaemonInv == Init => DaemonInv
<1> SUFFICES ASSUME Init
             PROVE  DaemonInv
  OBVIOUS
<1>1. \A i \in Calls, p \in Procs : runs[i][p] = 0
  BY DEF Init
<1>2. daemon.proc \in Procs
  BY InitTypes DEF TypeOK, Daemons
<1> QED
  BY <1>1, <1>2 DEF Init, DaemonInv, FirstIsPast, PostsInWindow, RunsInScope, DaemonRemembers, AtMostOnce

\* The numbers the clock, the calls and the runs are.
LEMMA Numbers ==
  ASSUME TypeOK
  PROVE  /\ now \in Nat /\ Window \in Nat /\ MaxDelay \in Nat
         /\ \A m \in posts \cup forwards : m.id \in Calls /\ m.at \in Nat
         /\ \A i \in Calls : call[i].first \in Nat /\ call[i] \in CallStates
         /\ \A i \in Calls, p \in Procs : runs[i][p] \in Nat
         /\ daemon.proc \in Procs /\ daemon.proc \in Nat
         /\ \A s \in daemon.seen : s.id \in Calls /\ s.at \in Nat
         /\ \A o \in edge.origins : o \in Origins /\ o.at \in Nat
BY ParametersAreNats DEF TypeOK, CallStates, Times, Procs, Daemons, Edges, Origins

LEMMA ArrivesInWindow ==
  ASSUME TypeOK, DaemonInv, NEW m \in posts \cup forwards
  PROVE  m.id \in Calls /\ InWindow(m.id) /\ call[m.id].pc # "idle"
BY Numbers DEF DaemonInv, PostsInWindow, InWindow

\* A step that sends no post, sweeps no memory of the daemon and runs nothing.
QuietForDaemon ==
  /\ now' = now /\ runs' = runs
  /\ posts' \cup forwards' \subseteq posts \cup forwards
  /\ \A i \in Calls :
       /\ call'[i].first = call[i].first /\ call'[i].scope = call[i].scope
       /\ call[i].pc # "idle" => call'[i].pc # "idle"
  /\ daemon'.proc = daemon.proc /\ daemon'.alive = daemon.alive /\ daemon'.seen = daemon.seen

LEMMA QuietKeepsDaemonInv ==
  ASSUME TypeOK, DaemonInv, QuietForDaemon
  PROVE  DaemonInv'
<1>1. PostsInWindow'
  <2>1. \A m \in posts \cup forwards : m.id \in Calls
    BY DEF TypeOK
  <2> QED
    BY <2>1 DEF DaemonInv, PostsInWindow, QuietForDaemon, InWindow
<1>2. FirstIsPast' /\ RunsInScope' /\ AtMostOnce'
  BY DEF DaemonInv, FirstIsPast, RunsInScope, AtMostOnce, QuietForDaemon
<1>3. DaemonRemembers'
  BY DEF DaemonInv, DaemonRemembers, QuietForDaemon, InWindow
<1> QED
  BY <1>1, <1>2, <1>3 DEF DaemonInv

LEMMA QuietForDaemonSteps ==
  ASSUME TypeOK,
         \/ \E i \in Calls : GiveUp(i) \/ RouteAnswer(i) \/ Answer(i)
         \/ \E n \in notices : Settle(n)
         \/ \E m \in posts : AnswerUnattached(m) \/ Refuse(m)
         \/ StreamDrops \/ StreamOpens \/ Attaches
         \/ OtherForwarded \/ PipeGreets \/ EdgeRestarts
         \/ OtherAnswered \/ Listens \/ Lose \/ UNCHANGED vars
  PROVE  QuietForDaemon
<1>1. ASSUME NEW i \in Calls, GiveUp(i)
      PROVE  QuietForDaemon
  BY <1>1 DEF GiveUp, QuietForDaemon, TypeOK, CallStates
<1>2. ASSUME NEW n \in notices, Settle(n)
      PROVE  QuietForDaemon
  BY <1>2 DEF Settle, QuietForDaemon, TypeOK, CallStates
<1>3. ASSUME NEW i \in Calls, Answer(i)
      PROVE  QuietForDaemon
  BY <1>3 DEF Answer, QuietForDaemon, TypeOK, Daemons
<1>4. CASE OtherAnswered
  BY <1>4 DEF OtherAnswered, QuietForDaemon, TypeOK, Daemons
<1>5. ASSUME NEW i \in Calls, RouteAnswer(i)
      PROVE  QuietForDaemon
  BY <1>5 DEF RouteAnswer, QuietForDaemon
<1>6. ASSUME NEW m \in posts, AnswerUnattached(m) \/ Refuse(m)
      PROVE  QuietForDaemon
  BY <1>6 DEF AnswerUnattached, Refuse, QuietForDaemon
<1>7. CASE StreamDrops \/ StreamOpens \/ Attaches \/ OtherForwarded \/ PipeGreets
           \/ EdgeRestarts \/ Listens
  BY <1>7 DEF StreamDrops, StreamOpens, Attaches, OtherForwarded, PipeGreets, EdgeRestarts,
       Listens, QuietForDaemon
<1>8. CASE Lose
  BY <1>8 DEF Lose, QuietForDaemon
<1>9. CASE UNCHANGED vars
  BY <1>9 DEF vars, QuietForDaemon
<1> QED
  BY <1>1, <1>2, <1>3, <1>4, <1>5, <1>6, <1>7, <1>8, <1>9

\* A post under a fresh id or again, or one passed on.
LEMMA SentKeepsDaemonInv ==
  ASSUME MaxDelay <= Window, RepostedInTime, TypeOK, DaemonInv,
         \/ \E i \in Calls : Call(i) \/ Replay(i)
         \/ \E m \in posts : Forward(m)
  PROVE  DaemonInv'
<1> USE Numbers
<1>1. ASSUME NEW i \in Calls, Call(i)
      PROVE  DaemonInv'
  <2>1. PICK s : call' = [call EXCEPT ![i] = [pc |-> "pending", first |-> now, scope |-> s, outcome |-> "none"]]
    BY <1>1 DEF Call
  <2>2. /\ call[i].pc = "idle" /\ call'[i].pc = "pending" /\ call'[i].first = now
        /\ \A j \in Calls : j # i => call'[j] = call[j]
        /\ now' = now /\ runs' = runs /\ daemon' = daemon /\ forwards' = forwards
        /\ posts' = posts \cup {[id |-> i, at |-> now]}
    BY <1>1, <2>1 DEF Call, TypeOK
  <2>3. \A p \in Procs : runs[i][p] = 0
    BY <2>2 DEF DaemonInv, RunsInScope
  <2>4. \A m \in posts \cup forwards : m.id \in Calls /\ m.id # i
    BY <2>2 DEF DaemonInv, PostsInWindow, TypeOK
  <2>5. PostsInWindow'
    BY <2>2, <2>4 DEF DaemonInv, PostsInWindow, InWindow
  <2>6. FirstIsPast' /\ RunsInScope' /\ DaemonRemembers' /\ AtMostOnce'
    BY <2>2, <2>3 DEF DaemonInv, FirstIsPast, RunsInScope, DaemonRemembers, AtMostOnce, InWindow
  <2> QED
    BY <2>5, <2>6 DEF DaemonInv
<1>2. ASSUME NEW i \in Calls, Replay(i)
      PROVE  DaemonInv'
  <2>1. PostsInWindow'
    BY <1>2 DEF Replay, RepostedInTime, DaemonInv, PostsInWindow
  <2>2. FirstIsPast' /\ RunsInScope' /\ DaemonRemembers' /\ AtMostOnce'
    BY <1>2 DEF Replay, DaemonInv, FirstIsPast, RunsInScope, DaemonRemembers, AtMostOnce, InWindow
  <2> QED
    BY <2>1, <2>2 DEF DaemonInv
<1>3. ASSUME NEW m \in posts, Forward(m)
      PROVE  DaemonInv'
  <2>1. PostsInWindow'
    BY <1>3 DEF Forward, DaemonInv, PostsInWindow, InWindow
  <2>2. FirstIsPast' /\ RunsInScope' /\ DaemonRemembers' /\ AtMostOnce'
    BY <1>3 DEF Forward, DaemonInv, FirstIsPast, RunsInScope, DaemonRemembers, AtMostOnce, InWindow
  <2> QED
    BY <2>1, <2>2 DEF DaemonInv
<1> QED
  BY <1>1, <1>2, <1>3

\* Sweeping its memory, the daemon keeps what a re-post can still ask for.
LEMMA SweepKeeps ==
  ASSUME TypeOK, NEW i \in Calls, InWindow(i),
         NEW s \in daemon.seen, s.id = i, s.at >= call[i].first
  PROVE  s \in Fresh(daemon.seen)
BY Numbers DEF InWindow, Fresh

\* A post the daemon does not know finds that its process has not run it.
LEMMA UnseenHasNotRun ==
  ASSUME TypeOK, DaemonInv, NEW f \in forwards, Reaches(f), ~Seen(f.id)
  PROVE  runs[f.id][daemon.proc] = 0
<1>1. f.id \in Calls /\ InWindow(f.id) /\ daemon.alive
  BY ArrivesInWindow DEF Reaches
<1>2. ASSUME runs[f.id][daemon.proc] > 0
      PROVE  FALSE
  <2>1. PICK s \in daemon.seen : s.id = f.id /\ s.at >= call[f.id].first
    BY <1>1, <1>2 DEF DaemonInv, DaemonRemembers
  <2>2. s \in Fresh(daemon.seen)
    BY <1>1, <2>1, SweepKeeps
  <2> QED
    BY <2>1, <2>2 DEF Seen
<1> QED
  BY <1>1, <1>2, Numbers

\* What the daemon does with a post that reaches it.
LEMMA ReceivedKeepsDaemonInv ==
  ASSUME TypeOK, DaemonInv, NEW f \in forwards,
         Duplicate(f) \/ Dispatch(f) \/ OutOfScope(f)
  PROVE  DaemonInv'
<1> USE Numbers
<1>1. f.id \in Calls /\ InWindow(f.id) /\ call[f.id].pc # "idle" /\ daemon.alive
  BY ArrivesInWindow DEF Reaches, Duplicate, Dispatch, OutOfScope
<1>2. /\ now' = now /\ call' = call /\ posts' = posts /\ forwards' \subseteq forwards
      /\ daemon'.proc = daemon.proc /\ daemon'.alive = daemon.alive
      /\ Fresh(daemon.seen) \subseteq daemon'.seen
  BY DEF Duplicate, Dispatch, OutOfScope, TypeOK, Daemons, Noted
<1>3. PostsInWindow' /\ FirstIsPast'
  BY <1>2 DEF DaemonInv, FirstIsPast, PostsInWindow, InWindow
<1>4. \A i \in Calls :
        daemon.alive /\ runs[i][daemon.proc] > 0 /\ InWindow(i) =>
          \E s \in daemon'.seen : s.id = i /\ s.at >= call[i].first
  BY <1>2, SweepKeeps DEF DaemonInv, DaemonRemembers
<1>5. CASE Duplicate(f) \/ OutOfScope(f)
  <2>1. runs' = runs
    BY <1>5 DEF Duplicate, OutOfScope
  <2> QED
    BY <1>2, <1>3, <1>4, <2>1
      DEF DaemonInv, RunsInScope, DaemonRemembers, AtMostOnce, InWindow
<1>6. CASE Dispatch(f)
  <2>1. \A j \in Calls, q \in Procs :
          runs'[j][q] = IF j = f.id /\ q = daemon.proc THEN runs[j][q] + 1 ELSE runs[j][q]
    BY <1>6, DispatchRuns
  <2>2. runs[f.id][daemon.proc] = 0
    BY <1>6, UnseenHasNotRun DEF Dispatch
  <2>3. call[f.id].scope \in {0, daemon.proc}
    BY <1>6 DEF Dispatch, InScope
  <2>4. RunsInScope' /\ AtMostOnce'
    BY <1>1, <1>2, <2>1, <2>2, <2>3 DEF DaemonInv, RunsInScope, AtMostOnce
  <2>5. [id |-> f.id, at |-> now] \in daemon'.seen
    BY <1>6 DEF Dispatch, Noted, TypeOK, Daemons
  <2>6. now >= call[f.id].first
    BY <1>1 DEF DaemonInv, FirstIsPast
  <2>7. DaemonRemembers'
    BY <1>1, <1>2, <1>4, <2>1, <2>5, <2>6 DEF DaemonRemembers, InWindow
  <2> QED
    BY <1>3, <2>4, <2>7 DEF DaemonInv
<1> QED
  BY <1>5, <1>6

\* The process dies, and the next one starts with no runs and no memory.
LEMMA ProcessKeepsDaemonInv ==
  ASSUME TypeOK, ProcLeft, DaemonInv, Dies \/ Launch
  PROVE  DaemonInv'
<1> USE Numbers
<1>1. CASE Dies
  <2>1. daemon'.alive = FALSE /\ daemon'.proc = daemon.proc
    BY <1>1 DEF Dies, TypeOK, Daemons
  <2> QED
    BY <1>1, <2>1 DEF Dies, DaemonInv, FirstIsPast, PostsInWindow, RunsInScope, DaemonRemembers,
         AtMostOnce, InWindow
<1>2. CASE Launch
  <2>1. daemon'.proc = daemon.proc + 1
    BY <1>2 DEF Launch, TypeOK, Daemons
  <2>2. daemon'.proc > daemon.proc
    BY <2>1
  <2>3. RunsInScope'
    BY <1>2, <2>2 DEF Launch, DaemonInv, RunsInScope, Procs
  <2>4. daemon'.proc \in Procs
    <3>1. TypeOK'
      BY <1>2, DaemonTypes
    <3> QED
      BY <3>1 DEF TypeOK, Daemons
  <2>5. \A i \in Calls : ~(runs'[i][daemon'.proc] > 0)
    BY <1>2, <2>2, <2>4 DEF Launch, DaemonInv, RunsInScope
  <2>6. DaemonRemembers'
    BY <2>5 DEF DaemonRemembers
  <2> QED
    BY <1>2, <2>3, <2>6 DEF Launch, DaemonInv, FirstIsPast, PostsInWindow, AtMostOnce, InWindow
<1> QED
  BY <1>1, <1>2

\* The clock does not pass the instant by which a post must have arrived.
LEMMA TickKeepsDaemonInv ==
  ASSUME TypeOK, DaemonInv, Tick
  PROVE  DaemonInv'
<1> USE Numbers
<1>1. now' = now + 1 /\ call' = call /\ runs' = runs /\ daemon' = daemon
      /\ posts' = posts /\ forwards' = forwards
  BY DEF Tick
<1>2. PostsInWindow'
  BY <1>1 DEF Tick, DaemonInv, PostsInWindow
<1>3. \A i \in Calls : InWindow(i)' => InWindow(i)
  BY <1>1 DEF InWindow
<1> QED
  BY <1>1, <1>2, <1>3
    DEF DaemonInv, FirstIsPast, RunsInScope, DaemonRemembers, AtMostOnce

LEMMA DaemonStep ==
  ASSUME MaxDelay <= Window, TypeOK, ProcLeft, DaemonInv, [Next]_vars, [RepostedInTime]_vars
  PROVE  DaemonInv'
<1>1. CASE QuietForDaemon
  BY <1>1, QuietKeepsDaemonInv
<1>2. CASE ~UNCHANGED vars
  BY <1>1, <1>2, QuietForDaemonSteps, SentKeepsDaemonInv, ReceivedKeepsDaemonInv,
     ProcessKeepsDaemonInv, TickKeepsDaemonInv DEF Next
<1> QED
  BY <1>1, <1>2, QuietForDaemonSteps

\* The invariants of the daemon's part, of the edge's part as they hold in
\* every behaviour whose re-posts arrive in time.
LEMMA AlwaysDaemonInv ==
  ASSUME MaxDelay <= Window
  PROVE  Spec /\ [][RepostedInTime]_vars => [](TypeOK /\ ProcLeft /\ DaemonInv)
<1>1. Init => TypeOK /\ ProcLeft /\ DaemonInv
  BY InitTypes, InitDaemonInv
<1>2. TypeOK /\ ProcLeft /\ DaemonInv /\ [Next]_vars /\ [RepostedInTime]_vars =>
        (TypeOK /\ ProcLeft /\ DaemonInv)'
  BY TypeStep, DaemonStep
<1> QED
  BY <1>1, <1>2, PTL DEF Spec

(* A call runs at most once in each process, and a call that carries a     *)
(* scope only in the process it names, whatever is posted again, lost or   *)
(* restarted (the dedup of POST /command), and however long posts take, if *)
(* its re-posts arrive within Window of its first post.                    *)
THEOREM AtMostOneRun ==
  ASSUME MaxDelay <= Window
  PROVE  Spec /\ [][RepostedInTime]_vars => []RunsOnce
<1>1. TypeOK /\ DaemonInv => RunsOnce
  BY Numbers DEF DaemonInv, AtMostOnce, RunsInScope, RunsOnce
<1> QED
  BY <1>1, AlwaysDaemonInv, PTL

-----------------------------------------------------------------------------
(* The edge's part: its records of the calls it has forwarded.             *)

LEMMA InitEdgeInv == Init => EdgeInv
<1> SUFFICES ASSUME Init
             PROVE  EdgeInv
  OBVIOUS
<1>1. \A i \in Calls, p \in Procs : ~(runs[i][p] > 0)
  BY DEF Init
<1>2. edge.origins = {} /\ forwards = {} /\ minded = Calls
  BY DEF Init
<1> QED
  BY <1>1, <1>2 DEF EdgeInv, OneOrigin, EdgeRemembers, MindedRunsOnce, Outstanding

\* A step that neither forwards a call, touches a record nor runs anything.
QuietForEdge ==
  /\ now' = now /\ runs' = runs /\ daemon'.spawned = daemon.spawned
  /\ edge'.origins = edge.origins
  /\ forwards' \subseteq forwards /\ minded' \subseteq minded
  /\ \A i \in Calls : call'[i].first = call[i].first

LEMMA QuietKeepsEdgeInv ==
  ASSUME TypeOK, EdgeInv, QuietForEdge
  PROVE  EdgeInv'
<1>1. \A i : Outstanding(i)' = Outstanding(i)
  BY DEF QuietForEdge, Outstanding
<1>2. OneOrigin' /\ MindedRunsOnce'
  BY <1>1 DEF EdgeInv, OneOrigin, MindedRunsOnce, QuietForEdge
<1>3. EdgeRemembers'
  <2>1. minded \subseteq Calls
    BY DEF TypeOK
  <2> QED
    BY <1>1, <2>1 DEF EdgeInv, EdgeRemembers, HasOrigin, InWindow, QuietForEdge
<1> QED
  BY <1>2, <1>3 DEF EdgeInv

LEMMA QuietForEdgeSteps ==
  ASSUME TypeOK,
         \/ \E i \in Calls : Replay(i) \/ GiveUp(i) \/ Answer(i)
         \/ \E n \in notices : Settle(n)
         \/ \E m \in posts : AnswerUnattached(m)
         \/ \E f \in forwards : Duplicate(f) \/ OutOfScope(f)
         \/ StreamDrops \/ StreamOpens \/ Attaches \/ PipeGreets
         \/ OtherAnswered \/ Dies \/ Launch \/ Listens \/ Lose \/ UNCHANGED vars
  PROVE  QuietForEdge
<1>1. ASSUME NEW i \in Calls, GiveUp(i)
      PROVE  QuietForEdge
  BY <1>1 DEF GiveUp, QuietForEdge, TypeOK, CallStates
<1>2. ASSUME NEW n \in notices, Settle(n)
      PROVE  QuietForEdge
  BY <1>2 DEF Settle, QuietForEdge, TypeOK, CallStates
<1>3. ASSUME NEW i \in Calls, Answer(i) \/ Replay(i)
      PROVE  QuietForEdge
  BY <1>3 DEF Answer, Replay, QuietForEdge, TypeOK, Daemons
<1>4. CASE OtherAnswered \/ Dies \/ Launch
  BY <1>4 DEF OtherAnswered, Dies, Launch, QuietForEdge, TypeOK, Daemons, Edges
<1>5. ASSUME NEW m \in posts, AnswerUnattached(m)
      PROVE  QuietForEdge
  BY <1>5 DEF AnswerUnattached, QuietForEdge
<1>6. ASSUME NEW f \in forwards, Duplicate(f) \/ OutOfScope(f)
      PROVE  QuietForEdge
  BY <1>6 DEF Duplicate, OutOfScope, QuietForEdge, TypeOK, Daemons
<1>7. CASE StreamDrops \/ StreamOpens \/ Attaches \/ PipeGreets \/ Listens
  BY <1>7 DEF StreamDrops, StreamOpens, Attaches, PipeGreets, Listens, QuietForEdge, TypeOK, Edges
<1>8. CASE Lose
  BY <1>8 DEF Lose, QuietForEdge
<1>9. CASE UNCHANGED vars
  BY <1>9 DEF vars, QuietForEdge
<1> QED
  BY <1>1, <1>2, <1>3, <1>4, <1>5, <1>6, <1>7, <1>8, <1>9

\* A call that is posted for the first time has been forwarded nowhere.
LEMMA CallKeepsEdgeInv ==
  ASSUME TypeOK, DaemonInv, EdgeInv, NEW i \in Calls, Call(i)
  PROVE  EdgeInv'
<1> USE Numbers
<1>1. PICK s : call' = [call EXCEPT ![i] = [pc |-> "pending", first |-> now, scope |-> s, outcome |-> "none"]]
  BY DEF Call
<1>2. /\ call[i].pc = "idle" /\ \A j \in Calls : j # i => call'[j] = call[j]
      /\ now' = now /\ runs' = runs /\ daemon' = daemon /\ forwards' = forwards
      /\ edge' = edge /\ minded' = minded
  BY <1>1 DEF Call, TypeOK
<1>3. \A p \in Procs : ~(runs[i][p] > 0)
  BY <1>2 DEF DaemonInv, RunsInScope
<1>4. \A f \in forwards : f.id # i
  BY <1>2 DEF DaemonInv, PostsInWindow
<1>5. \A j : Outstanding(j)' = Outstanding(j)
  BY <1>2 DEF Outstanding
<1>6. EdgeRemembers'
  <2>1. minded \subseteq Calls
    BY DEF TypeOK
  <2> QED
    BY <1>2, <1>3, <1>4, <1>5, <2>1 DEF EdgeInv, EdgeRemembers, HasOrigin, InWindow
<1> QED
  BY <1>2, <1>5, <1>6 DEF EdgeInv, OneOrigin, MindedRunsOnce

\* Sweeping its records, the edge keeps those of the calls in their window.
LEMMA SweepKeepsOrigin ==
  ASSUME TypeOK, NEW i \in Calls, InWindow(i),
         NEW o \in edge.origins, o.id = i, o.at >= call[i].first
  PROVE  o \in Fresh(edge.origins)
BY Numbers DEF InWindow, Fresh

LEMMA OtherForwardedKeepsEdgeInv ==
  ASSUME TypeOK, EdgeInv, OtherForwarded
  PROVE  EdgeInv'
<1>1. /\ edge'.origins = Fresh(edge.origins)
      /\ now' = now /\ runs' = runs /\ daemon' = daemon /\ forwards' = forwards
      /\ call' = call /\ minded' = minded
  BY DEF OtherForwarded, TypeOK, Edges
<1>2. \A i \in Calls : \A p : InWindow(i) /\ HasOrigin(i, p) => HasOrigin(i, p)'
  BY <1>1, SweepKeepsOrigin DEF HasOrigin, Outstanding
<1>3. OneOrigin'
  BY <1>1 DEF EdgeInv, OneOrigin, Outstanding, Fresh
<1>4. EdgeRemembers'
  <2>1. minded \subseteq Calls
    BY DEF TypeOK
  <2>2. \A i : InWindow(i)' <=> InWindow(i)
    BY <1>1 DEF InWindow
  <2> QED
    BY <1>1, <1>2, <2>1, <2>2 DEF EdgeInv, EdgeRemembers
<1> QED
  BY <1>1, <1>3, <1>4 DEF EdgeInv, MindedRunsOnce

\* The edge no longer minds a call whose record it closes or drops.
LEMMA ClosedKeepsEdgeInv ==
  ASSUME TypeOK, EdgeInv,
         \/ \E i \in Calls : RouteAnswer(i)
         \/ \E m \in posts : Refuse(m)
         \/ EdgeRestarts
  PROVE  EdgeInv'
<1>1. ASSUME NEW i \in Calls,
             now' = now, runs' = runs, daemon' = daemon, forwards' = forwards, call' = call,
             minded' = minded \ {i}, Outstanding(i)' \subseteq Outstanding(i),
             \A j \in Calls : j # i => Outstanding(j)' = Outstanding(j)
      PROVE  EdgeInv'
  <2>1. minded \subseteq Calls
    BY DEF TypeOK
  <2>2. OneOrigin' /\ MindedRunsOnce'
    BY <1>1 DEF EdgeInv, OneOrigin, MindedRunsOnce
  <2>3. EdgeRemembers'
    BY <1>1, <2>1 DEF EdgeInv, EdgeRemembers, HasOrigin, InWindow
  <2> QED
    BY <2>2, <2>3 DEF EdgeInv
<1>2. ASSUME NEW i \in Calls, RouteAnswer(i)
      PROVE  EdgeInv'
  <2>1. CASE \E o \in edge.origins : o.id = i /\ o.delivered
    <3>1. QuietForEdge
      BY <1>2, <2>1 DEF RouteAnswer, QuietForEdge
    <3> QED
      BY <3>1, QuietKeepsEdgeInv
  <2>2. CASE ~\E o \in edge.origins : o.id = i /\ o.delivered
    <3>1. /\ edge'.origins = {IF o.id = i THEN [o EXCEPT !.delivered = TRUE] ELSE o : o \in edge.origins}
          /\ minded' = minded \ {i}
          /\ now' = now /\ runs' = runs /\ daemon' = daemon /\ forwards' = forwards /\ call' = call
      BY <1>2, <2>2 DEF RouteAnswer, TypeOK, Edges
    <3>2. ASSUME NEW o \in edge.origins, o.id = i
          PROVE  [o EXCEPT !.delivered = TRUE].delivered /\ [o EXCEPT !.delivered = TRUE].id = i
      BY <3>2 DEF TypeOK, Edges, Origins
    <3>3. \A o \in edge'.origins : o.id = i => o.delivered
      BY <3>1, <3>2
    <3>4. Outstanding(i)' \subseteq Outstanding(i)
      BY <3>3 DEF Outstanding
    <3>5. \A j \in Calls : j # i => Outstanding(j)' = Outstanding(j)
      BY <3>1, <3>2 DEF Outstanding
    <3> QED
      BY <1>1, <3>1, <3>4, <3>5
  <2> QED
    BY <2>1, <2>2
<1>3. ASSUME NEW m \in posts, Refuse(m)
      PROVE  EdgeInv'
  <2>1. PICK o \in Outstanding(m.id) : edge' = [edge EXCEPT !.origins = @ \ {o}]
    BY <1>3 DEF Refuse
  <2>2. edge'.origins = edge.origins \ {o} /\ o.id = m.id /\ m.id \in Calls
    BY <2>1 DEF TypeOK, Edges, Outstanding
  <2>3. /\ Outstanding(m.id)' \subseteq Outstanding(m.id)
        /\ \A j \in Calls : j # m.id => Outstanding(j)' = Outstanding(j)
    BY <2>2 DEF Outstanding
  <2>4. /\ minded' = minded \ {m.id}
        /\ now' = now /\ runs' = runs /\ daemon' = daemon /\ forwards' = forwards /\ call' = call
    BY <1>3 DEF Refuse
  <2> QED
    BY <1>1, <2>2, <2>3, <2>4
<1>4. CASE EdgeRestarts
  BY <1>4 DEF EdgeRestarts, TypeOK, Edges, EdgeInv, OneOrigin, Outstanding, EdgeRemembers,
       MindedRunsOnce
<1> QED
  BY <1>2, <1>3, <1>4

\* A forward leaves a record that names the process it goes to, and closes none.
LEMMA ForwardKeepsEdgeInv ==
  ASSUME TypeOK, DaemonInv, EdgeInv, NEW m \in posts, Forward(m)
  PROVE  EdgeInv'
<1> USE Numbers
<1>1. m.id \in Calls /\ now >= call[m.id].first
  BY DEF TypeOK, DaemonInv, FirstIsPast
<1>2. /\ edge'.origins = Remember(m.id)
      /\ forwards' = forwards \cup
           {[id |-> m.id, to |-> edge.endpoint, token |-> edge.token, at |-> m.at]}
      /\ now' = now /\ runs' = runs /\ daemon' = daemon /\ call' = call /\ minded' = minded
  BY DEF Forward, TypeOK, Edges
<1>3. \A o \in Outstanding(m.id) : o.token = edge.token
  BY DEF Forward, Replaced
<1>4. /\ OneOrigin' /\ \A p : p = edge.token => HasOrigin(m.id, p)'
      /\ \A i \in Calls : \A p : InWindow(i) /\ HasOrigin(i, p) => HasOrigin(i, p)'
  <2>1. CASE Outstanding(m.id) # {}
    <3> DEFINE renewed(o) == IF o.id = m.id THEN [o EXCEPT !.at = now] ELSE o
    <3>1. edge'.origins = {renewed(o) : o \in edge.origins}
      BY <1>2, <2>1 DEF Remember
    <3>2. \A o \in edge.origins :
            /\ renewed(o).id = o.id /\ renewed(o).token = o.token
            /\ renewed(o).delivered = o.delivered
            /\ renewed(o).at = IF o.id = m.id THEN now ELSE o.at
      BY DEF Origins
    <3> HIDE DEF renewed
    <3>3. \A i : Outstanding(i)' = {renewed(o) : o \in Outstanding(i)}
      BY <3>1, <3>2 DEF Outstanding
    <3>4. \A i : \A o \in Outstanding(i) : o \in edge.origins /\ o.id = i
      BY DEF Outstanding
    <3>5. OneOrigin'
      BY <3>2, <3>3, <3>4 DEF EdgeInv, OneOrigin
    <3>6. ASSUME NEW i \in Calls, NEW o \in Outstanding(i), o.at >= call[i].first \/ i = m.id
          PROVE  HasOrigin(i, o.token)'
      <4>1. renewed(o) \in Outstanding(i)'
        BY <3>3
      <4>2. renewed(o).token = o.token /\ renewed(o).at >= call'[i].first
        BY <1>1, <1>2, <3>2, <3>4, <3>6
      <4> QED
        BY <4>1, <4>2 DEF HasOrigin
    <3>7. \A p : p = edge.token => HasOrigin(m.id, p)'
      BY <1>1, <1>3, <2>1, <3>6
    <3>8. \A i \in Calls : \A p : HasOrigin(i, p) => HasOrigin(i, p)'
      BY <3>6 DEF HasOrigin
    <3> QED
      BY <3>5, <3>7, <3>8
  <2>2. CASE Outstanding(m.id) = {}
    <3> DEFINE new == [id |-> m.id, generation |-> edge.generation, endpoint |-> edge.endpoint,
                       token |-> edge.token, delivered |-> FALSE, at |-> now]
    <3>1. edge'.origins = {new} \cup Fresh({o \in edge.origins : o.id # m.id})
      BY <1>2, <2>2 DEF Remember
    <3>2. new.id = m.id /\ new.token = edge.token /\ ~new.delivered /\ new.at = now
      OBVIOUS
    <3> HIDE DEF new
    <3>3. OneOrigin'
      BY <3>1, <3>2 DEF EdgeInv, OneOrigin, Outstanding, Fresh
    <3>4. \A p : p = edge.token => HasOrigin(m.id, p)'
      BY <1>1, <1>2, <3>1, <3>2 DEF HasOrigin, Outstanding
    <3>5. ASSUME NEW i \in Calls, NEW p, InWindow(i), HasOrigin(i, p)
          PROVE  HasOrigin(i, p)'
      <4>1. PICK o \in Outstanding(i) : o.token = p /\ o.at >= call[i].first
        BY <3>5 DEF HasOrigin
      <4>2. i # m.id
        BY <2>2, <4>1
      <4>3. o \in Fresh({q \in edge.origins : q.id # m.id})
        BY <3>5, <4>1, <4>2 DEF Outstanding, Fresh, InWindow
      <4> QED
        BY <1>2, <3>1, <4>1, <4>3 DEF HasOrigin, Outstanding
    <3> QED
      BY <3>3, <3>4, <3>5
  <2> QED
    BY <2>1, <2>2
<1>5. EdgeRemembers'
  <2>1. minded \subseteq Calls /\ \A i : InWindow(i)' <=> InWindow(i)
    BY <1>2 DEF TypeOK, InWindow
  <2>2. \A f \in forwards' : f \in forwards \/ (f.id = m.id /\ f.token = edge.token)
    BY <1>2
  <2>3. \A i \in minded : InWindow(i) /\ daemon.spawned =>
          \A f \in forwards' : f.id = i => HasOrigin(i, f.token)'
    BY <1>4, <2>1, <2>2 DEF EdgeInv, EdgeRemembers
  <2> QED
    BY <1>2, <1>4, <2>1, <2>3 DEF EdgeInv, EdgeRemembers
<1> QED
  BY <1>2, <1>4, <1>5 DEF EdgeInv, MindedRunsOnce

\* The process that runs a call is the one the edge has on record for it.
LEMMA DispatchKeepsEdgeInv ==
  ASSUME TypeOK, DaemonInv, EdgeInv, NEW f \in forwards, Dispatch(f)
  PROVE  EdgeInv'
<1> USE Numbers
<1>1. /\ f.id \in Calls /\ InWindow(f.id)
      /\ daemon.spawned => f.token = daemon.proc
  BY ArrivesInWindow DEF Dispatch, Reaches
<1>2. /\ edge' = edge /\ forwards' \subseteq forwards /\ now' = now /\ call' = call
      /\ minded' = minded /\ daemon'.spawned = daemon.spawned
  BY DEF Dispatch, TypeOK, Daemons
<1>3. \A i \in Calls, p \in Procs :
        runs'[i][p] > 0 => runs[i][p] > 0 \/ (i = f.id /\ p = daemon.proc)
  BY DispatchRuns
<1>4. \A i : Outstanding(i)' = Outstanding(i)
  BY <1>2 DEF Outstanding
<1>5. /\ \A i, p : HasOrigin(i, p)' <=> HasOrigin(i, p)
      /\ \A i : InWindow(i)' <=> InWindow(i)
  BY <1>2, <1>4 DEF HasOrigin, InWindow
<1>6. minded \subseteq Calls
  BY DEF TypeOK
<1>7. daemon.spawned /\ f.id \in minded => HasOrigin(f.id, daemon.proc)
  BY <1>1 DEF EdgeInv, EdgeRemembers
<1>8. EdgeRemembers'
  <2>1. ASSUME daemon.spawned, NEW i \in minded, InWindow(i)
        PROVE  /\ \A g \in forwards' : g.id = i => HasOrigin(i, g.token)
               /\ \A p \in Procs : runs'[i][p] > 0 => HasOrigin(i, p)
    BY <1>2, <1>3, <1>6, <1>7, <2>1 DEF EdgeInv, EdgeRemembers
  <2> QED
    BY <1>2, <1>5, <2>1 DEF EdgeRemembers
<1>9. ASSUME daemon.spawned, NEW i \in minded, NEW p \in Procs, NEW q \in Procs,
             runs'[i][p] > 0, runs'[i][q] > 0
      PROVE  p = q
  <2>1. CASE i = f.id
    <3>1. HasOrigin(i, p) /\ HasOrigin(i, q)
      BY <1>1, <1>3, <1>6, <1>7, <1>9, <2>1 DEF EdgeInv, EdgeRemembers
    <3> QED
      BY <1>6, <3>1 DEF EdgeInv, OneOrigin, HasOrigin
  <2>2. CASE i # f.id
    BY <1>3, <1>6, <1>9, <2>2 DEF EdgeInv, MindedRunsOnce
  <2> QED
    BY <2>1, <2>2
<1>10. MindedRunsOnce'
  BY <1>2, <1>9 DEF MindedRunsOnce
<1> QED
  BY <1>4, <1>8, <1>10 DEF EdgeInv, OneOrigin

LEMMA TickKeepsEdgeInv ==
  ASSUME TypeOK, EdgeInv, Tick
  PROVE  EdgeInv'
<1> USE Numbers
<1>1. now' = now + 1 /\ call' = call /\ runs' = runs /\ daemon' = daemon /\ edge' = edge
      /\ forwards' = forwards /\ minded' = minded /\ minded \subseteq Calls
  BY DEF Tick, TypeOK
<1>2. \A i \in Calls : InWindow(i)' => InWindow(i)
  BY <1>1 DEF InWindow
<1>3. \A i, p : HasOrigin(i, p)' <=> HasOrigin(i, p)
  BY <1>1 DEF HasOrigin, Outstanding
<1> QED
  BY <1>1, <1>2, <1>3 DEF EdgeInv, OneOrigin, Outstanding, EdgeRemembers, MindedRunsOnce

LEMMA EdgeStep ==
  ASSUME TypeOK, DaemonInv, EdgeInv, [Next]_vars
  PROVE  EdgeInv'
<1>1. CASE QuietForEdge
  BY <1>1, QuietKeepsEdgeInv
<1> QED
  BY <1>1, QuietForEdgeSteps, CallKeepsEdgeInv, OtherForwardedKeepsEdgeInv, ClosedKeepsEdgeInv,
     ForwardKeepsEdgeInv, DispatchKeepsEdgeInv, TickKeepsEdgeInv DEF Next

(* No call runs in two processes of a spawned daemon while the edge has    *)
(* told the browser nothing about it and has not restarted, whether or not *)
(* the call carries a scope (#recordForwardOrigin, forwardOriginReplaced), *)
(* if re-posts arrive in time.                                             *)
THEOREM OneProcessWhileMinded ==
  ASSUME MaxDelay <= Window
  PROVE  Spec /\ [][RepostedInTime]_vars => []MindedRunsOnce
<1>1. Init => EdgeInv
  BY InitEdgeInv
<1>2. TypeOK /\ DaemonInv /\ EdgeInv /\ [Next]_vars => EdgeInv'
  BY EdgeStep
<1>3. EdgeInv => MindedRunsOnce
  BY DEF EdgeInv
<1> QED
  BY <1>1, <1>2, <1>3, AlwaysDaemonInv, PTL DEF Spec
=============================================================================
