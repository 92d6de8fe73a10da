---------------------------- MODULE CommandReplay ----------------------------
(***************************************************************************)
(* A browser's calls to a session daemon through the fleet's edge, and the *)
(* re-posts that recover a lost answer: apps/web/store/transport.ts (the   *)
(* browser), #forwardCommand and #routeAnswer of apps/fleet/edge.ts, and   *)
(* POST /command of apps/session/index.ts.                                 *)
(*                                                                         *)
(* A call is posted once and then again every few seconds under the same   *)
(* id until it is answered.  Three memories keep it from running twice:    *)
(* the daemon remembers the ids of the last Window, the edge remembers     *)
(* which process it forwarded an unanswered id to, and the call itself     *)
(* carries the process whose state frame the browser saw last.             *)
(*                                                                         *)
(* One daemon, spawned (each process has its own token and endpoint) or    *)
(* dial-in (a new process answers at the old address with the old token).  *)
(* Messages overtake each other and get lost; a post takes at most         *)
(* MaxDelay.  Time is counted in units of no particular length.  What      *)
(* commands not in Calls do to the memories is in OtherForwarded and       *)
(* OtherAnswered.  The cap on remembered ids, callback pipes and a switch  *)
(* to another daemon are left out.                                         *)
(*                                                                         *)
(* ReplacedByPid and DispatchUnnoted are slips of the operator each stands *)
(* before, for the mutants.                                                *)
(***************************************************************************)
EXTENDS Naturals, FiniteSets

CONSTANTS
  Calls,     \* the ids of the calls
  Window,    \* COMMAND_DEDUP_WINDOW_MS
  MaxDelay,  \* how long a post may take from the browser to the daemon
  MaxTime,   \* bound on the clock
  MaxProcs,  \* bound on the processes of the daemon
  MaxPosts   \* bound on the posts under way

ASSUME ParametersAreNats ==
  Window \in Nat /\ MaxDelay \in Nat /\ MaxTime \in Nat /\ MaxProcs \in Nat \ {0} /\ MaxPosts \in Nat

VARIABLES
  now,
  call,      \* the browser's calls: pendingCalls and what became of them
  page,      \* its stream at the edge: down, up, or attached (with a pipe)
  posts,     \* POST /command on their way to the edge
  edge,      \* forwardOrigins, the daemon's generation and registry entry
  forwards,  \* POST /command on their way from the edge to the daemon
  daemon,    \* the daemon's process and its memories
  answers,   \* ids of the answers on their way to the edge
  notices,   \* what is on its way from the edge to the browser
  runs,      \* history: how often each process has run each call
  minded     \* history: calls the edge has minded since their first forward

vars == <<now, call, page, posts, edge, forwards, daemon, answers, notices, runs, minded>>

Times == 0..MaxTime
Procs == 1..MaxProcs

Outcomes == {"answer", "refused", "unattached"}

(* scope: the process whose state frame the call's scope was taken from, 0 *)
(* if the browser has not seen one.                                        *)
CallStates ==
  [pc: {"idle", "pending", "done"}, first: Times, scope: {0} \cup Procs,
   outcome: {"none"} \cup Outcomes]

Origins ==
  [id: Calls, generation: {0} \cup Procs, endpoint: Procs, token: Procs,
   delivered: BOOLEAN, at: Times]

Edges ==
  [origins: SUBSET Origins, generation: {0} \cup Procs, endpoint: Procs, token: Procs]

(* proc: the latest process.  seen: commandDedup; answered: commandAnswers. *)
Daemons ==
  [spawned: BOOLEAN, proc: Procs, alive: BOOLEAN, seen: SUBSET [id: Calls, at: Times],
   running: SUBSET Calls, answered: SUBSET Calls]

TypeOK ==
  /\ now \in Times
  /\ call \in [Calls -> CallStates]
  /\ page \in {"down", "up", "attached"}
  /\ posts \subseteq [id: Calls, at: Times]
  /\ edge \in Edges
  /\ forwards \subseteq [id: Calls, to: Procs, token: Procs, at: Times]
  /\ daemon \in Daemons
  /\ answers \subseteq Calls
  /\ notices \subseteq [id: Calls, outcome: Outcomes]
  /\ runs \in [Calls -> [Procs -> Nat]]
  /\ minded \subseteq Calls

Init ==
  /\ now = 0
  /\ call = [i \in Calls |-> [pc |-> "idle", first |-> 0, scope |-> 0, outcome |-> "none"]]
  /\ page = "attached"
  /\ edge = [origins |-> {}, generation |-> 1, endpoint |-> 1, token |-> 1]
  /\ daemon \in {[spawned |-> s, proc |-> 1, alive |-> TRUE, seen |-> {}, running |-> {},
                  answered |-> {}] : s \in BOOLEAN}
  /\ posts = {} /\ forwards = {} /\ answers = {} /\ notices = {}
  /\ runs = [i \in Calls |-> [p \in Procs |-> 0]]
  /\ minded = Calls

Fresh(memory) == {m \in memory : now - m.at <= Window}

Posted == Cardinality(posts) + Cardinality(forwards)

-----------------------------------------------------------------------------
(* The browser.                                                            *)

(* call(): any process that ever greeted this browser's pipe may be the    *)
(* one it saw last.                                                        *)
Call(i) ==
  /\ call[i].pc = "idle" /\ Posted < MaxPosts
  /\ \E s \in 0..edge.generation :
       call' = [call EXCEPT ![i] = [pc |-> "pending", first |-> now, scope |-> s, outcome |-> "none"]]
  /\ posts' = posts \cup {[id |-> i, at |-> now]}
  /\ UNCHANGED <<now, page, edge, forwards, daemon, answers, notices, runs, minded>>

\* The replay timer: no re-post later than Window after the first post.
Replay(i) ==
  /\ call[i].pc = "pending" /\ now - call[i].first <= Window /\ Posted < MaxPosts
  /\ posts' = posts \cup {[id |-> i, at |-> now]}
  /\ UNCHANGED <<now, call, page, edge, forwards, daemon, answers, notices, runs, minded>>

Settle(n) ==
  /\ n \in notices
  /\ notices' = notices \ {n}
  /\ call' = IF call[n.id].pc = "pending"
             THEN [call EXCEPT ![n.id].pc = "done", ![n.id].outcome = n.outcome]
             ELSE call
  /\ UNCHANGED <<now, page, posts, edge, forwards, daemon, answers, runs, minded>>

\* Its deadline, a failed first post, a switch to another session.
GiveUp(i) ==
  /\ call[i].pc = "pending"
  /\ call' = [call EXCEPT ![i].pc = "done"]
  /\ UNCHANGED <<now, page, posts, edge, forwards, daemon, answers, notices, runs, minded>>

\* The stream drops, is opened again, and the page attaches again.
StreamDrops ==
  /\ page' = "down"
  /\ UNCHANGED <<now, call, posts, edge, forwards, daemon, answers, notices, runs, minded>>

StreamOpens ==
  /\ page = "down"
  /\ page' = "up"
  /\ UNCHANGED <<now, call, posts, edge, forwards, daemon, answers, notices, runs, minded>>

Attaches ==
  /\ page = "up"
  /\ page' = "attached"
  /\ UNCHANGED <<now, call, posts, edge, forwards, daemon, answers, notices, runs, minded>>

-----------------------------------------------------------------------------
(* The edge.                                                               *)

\* failNotAttached: the stream has no pipe yet.
AnswerUnattached(m) ==
  /\ m \in posts /\ page = "up"
  /\ posts' = posts \ {m}
  /\ notices' = notices \cup {[id |-> m.id, outcome |-> "unattached"]}
  /\ UNCHANGED <<now, call, page, edge, forwards, daemon, answers, runs, minded>>

Outstanding(i) == {o \in edge.origins : o.id = i /\ ~o.delivered}

ReplacedByPid(o) ==
  o.generation # 0 /\ edge.generation # 0 /\ o.generation # edge.generation

\* Each of the three differs only if another process serves the entry.
Replaced(o) ==
  \/ o.generation # 0 /\ edge.generation # 0 /\ o.generation # edge.generation
  \/ o.endpoint # edge.endpoint
  \/ o.token # edge.token

Refuse(m) ==
  /\ m \in posts /\ page = "attached"
  /\ \E o \in Outstanding(m.id) : Replaced(o) /\ edge' = [edge EXCEPT !.origins = @ \ {o}]
  /\ posts' = posts \ {m}
  /\ notices' = notices \cup {[id |-> m.id, outcome |-> "refused"]}
  /\ minded' = minded \ {m.id}
  /\ UNCHANGED <<now, call, page, forwards, daemon, answers, runs>>

\* #recordForwardOrigin: a re-post refreshes its record, a first post sweeps
\* the old ones and makes one.
Remember(i) ==
  IF Outstanding(i) # {}
  THEN {IF o.id = i THEN [o EXCEPT !.at = now] ELSE o : o \in edge.origins}
  ELSE {[id |-> i, generation |-> edge.generation, endpoint |-> edge.endpoint,
         token |-> edge.token, delivered |-> FALSE, at |-> now]}
       \cup Fresh({o \in edge.origins : o.id # i})

Forward(m) ==
  /\ m \in posts /\ page = "attached"
  /\ \A o \in Outstanding(m.id) : ~Replaced(o)
  /\ posts' = posts \ {m}
  /\ edge' = [edge EXCEPT !.origins = Remember(m.id)]
  /\ forwards' = forwards \cup
       {[id |-> m.id, to |-> edge.endpoint, token |-> edge.token, at |-> m.at]}
  /\ UNCHANGED <<now, call, page, daemon, answers, notices, runs, minded>>

\* The first post of another command sweeps the records.
OtherForwarded ==
  /\ edge' = [edge EXCEPT !.origins = Fresh(@)]
  /\ UNCHANGED <<now, call, page, posts, forwards, daemon, answers, notices, runs, minded>>

\* #routeAnswer, for any browser's pipe: the first answer goes to the browser
\* that called, copies do not.
RouteAnswer(i) ==
  /\ i \in answers /\ page # "down"
  /\ answers' = answers \ {i}
  /\ IF \E o \in edge.origins : o.id = i /\ o.delivered
     THEN UNCHANGED <<edge, notices, minded>>
     ELSE /\ edge' = [edge EXCEPT !.origins =
                        {IF o.id = i THEN [o EXCEPT !.delivered = TRUE] ELSE o : o \in @}]
          /\ notices' = notices \cup {[id |-> i, outcome |-> "answer"]}
          /\ minded' = minded \ {i}
  /\ UNCHANGED <<now, call, page, posts, forwards, daemon, runs>>

\* The hello_ok of any browser's pipe names the process behind it.
PipeGreets ==
  /\ daemon.alive
  /\ daemon.spawned => edge.endpoint = daemon.proc /\ edge.token = daemon.proc
  /\ edge' = [edge EXCEPT !.generation = daemon.proc]
  /\ UNCHANGED <<now, call, page, posts, forwards, daemon, answers, notices, runs, minded>>

EdgeRestarts ==
  /\ edge' = [edge EXCEPT !.origins = {}, !.generation = 0]
  /\ page' = "down"
  /\ minded' = {}
  /\ UNCHANGED <<now, call, posts, forwards, daemon, answers, notices, runs>>

-----------------------------------------------------------------------------
(* The daemon.                                                             *)

\* Whether a forwarded post finds the process: elsewhere it is refused.
Reaches(f) ==
  /\ daemon.alive
  /\ daemon.spawned => f.to = daemon.proc /\ f.token = daemon.proc

Seen(i) == \E s \in Fresh(daemon.seen) : s.id = i

\* commandSeenRecently finds it: the recorded answer is sent again, if any.
Duplicate(f) ==
  /\ f \in forwards /\ Reaches(f) /\ Seen(f.id)
  /\ forwards' = forwards \ {f}
  /\ daemon' = [daemon EXCEPT !.seen = Fresh(@)]
  /\ answers' = IF f.id \in daemon.answered THEN answers \cup {f.id} ELSE answers
  /\ UNCHANGED <<now, call, page, posts, edge, notices, runs, minded>>

InScope(i) == call[i].scope \in {0, daemon.proc}

Noted(i) == Fresh(daemon.seen) \cup {[id |-> i, at |-> now]}

DispatchUnnoted(f) ==
  /\ f \in forwards /\ Reaches(f) /\ ~Seen(f.id) /\ InScope(f.id)
  /\ forwards' = forwards \ {f}
  /\ daemon' = [daemon EXCEPT !.running = @ \cup {f.id}]
  /\ runs' = [runs EXCEPT ![f.id][daemon.proc] = @ + 1]
  /\ UNCHANGED <<now, call, page, posts, edge, answers, notices, minded>>

\* handleCommand starts the call.
Dispatch(f) ==
  /\ f \in forwards /\ Reaches(f) /\ ~Seen(f.id) /\ InScope(f.id)
  /\ forwards' = forwards \ {f}
  /\ daemon' = [daemon EXCEPT !.seen = Noted(f.id), !.running = @ \cup {f.id}]
  /\ runs' = [runs EXCEPT ![f.id][daemon.proc] = @ + 1]
  /\ UNCHANGED <<now, call, page, posts, edge, answers, notices, minded>>

\* "Stale session attachment": answered with the error.
OutOfScope(f) ==
  /\ f \in forwards /\ Reaches(f) /\ ~Seen(f.id) /\ ~InScope(f.id)
  /\ forwards' = forwards \ {f}
  /\ daemon' = [daemon EXCEPT !.seen = Noted(f.id), !.answered = @ \cup {f.id}]
  /\ answers' = answers \cup {f.id}
  /\ UNCHANGED <<now, call, page, posts, edge, notices, runs, minded>>

\* The call returns or throws: answerCommand.
Answer(i) ==
  /\ i \in daemon.running
  /\ daemon' = [daemon EXCEPT !.running = @ \ {i}, !.answered = @ \cup {i}]
  /\ answers' = answers \cup {i}
  /\ UNCHANGED <<now, call, page, posts, edge, forwards, notices, runs, minded>>

\* The answer to another command pushes recorded ones out, by age or by cap.
OtherAnswered ==
  /\ daemon.alive
  /\ \E kept \in SUBSET daemon.answered : daemon' = [daemon EXCEPT !.answered = kept]
  /\ UNCHANGED <<now, call, page, posts, edge, forwards, answers, notices, runs, minded>>

Dies ==
  /\ daemon.alive /\ daemon.proc < MaxProcs
  /\ daemon' = [daemon EXCEPT !.alive = FALSE, !.seen = {}, !.running = {}, !.answered = {}]
  /\ UNCHANGED <<now, call, page, posts, edge, forwards, answers, notices, runs, minded>>

\* The supervisor launches a process with a new token, and learns where it
\* listens later; a dial-in daemon is started again by somebody else.
Launch ==
  /\ ~daemon.alive
  /\ daemon' = [daemon EXCEPT !.proc = @ + 1, !.alive = TRUE]
  /\ edge' = IF daemon.spawned THEN [edge EXCEPT !.token = daemon.proc + 1] ELSE edge
  /\ UNCHANGED <<now, call, page, posts, forwards, answers, notices, runs, minded>>

Listens ==
  /\ daemon.spawned /\ daemon.alive
  /\ edge' = [edge EXCEPT !.endpoint = daemon.proc]
  /\ UNCHANGED <<now, call, page, posts, forwards, daemon, answers, notices, runs, minded>>

-----------------------------------------------------------------------------
(* The network and the clock.                                              *)

Lose ==
  /\ \/ \E m \in posts : posts' = posts \ {m} /\ UNCHANGED <<forwards, answers, notices>>
     \/ \E f \in forwards : forwards' = forwards \ {f} /\ UNCHANGED <<posts, answers, notices>>
     \/ \E i \in answers : answers' = answers \ {i} /\ UNCHANGED <<posts, forwards, notices>>
     \/ \E n \in notices : notices' = notices \ {n} /\ UNCHANGED <<posts, forwards, answers>>
  /\ UNCHANGED <<now, call, page, edge, daemon, runs, minded>>

Tick ==
  /\ now < MaxTime
  /\ \A m \in posts \cup forwards : now - m.at < MaxDelay
  /\ now' = now + 1
  /\ UNCHANGED <<call, page, posts, edge, forwards, daemon, answers, notices, runs, minded>>

-----------------------------------------------------------------------------

Next ==
  \/ \E i \in Calls : Call(i) \/ Replay(i) \/ GiveUp(i) \/ RouteAnswer(i) \/ Answer(i)
  \/ \E n \in notices : Settle(n)
  \/ \E m \in posts : AnswerUnattached(m) \/ Refuse(m) \/ Forward(m)
  \/ \E f \in forwards : Duplicate(f) \/ Dispatch(f) \/ OutOfScope(f)
  \/ StreamDrops \/ StreamOpens \/ Attaches
  \/ OtherForwarded \/ PipeGreets \/ EdgeRestarts
  \/ OtherAnswered \/ Dies \/ Launch \/ Listens
  \/ Lose \/ Tick

Spec == Init /\ [][Next]_vars

-----------------------------------------------------------------------------
(* Properties.                                                             *)

\* However often it is posted, lost or answered, and whatever restarts, a
\* call that carries a scope runs at most once, and one without a scope at
\* most once in each process (transport.ts: "never re-dispatching").
RunsOnce ==
  \A i \in Calls, p \in Procs :
    /\ runs[i][p] <= 1
    /\ runs[i][p] = 1 /\ call[i].scope # 0 => call[i].scope = p

\* The edge alone keeps a call from running in two processes of a spawned
\* daemon, scope or not, for as long as it has sent nothing to the browser
\* about it and has not been restarted itself (#recordForwardOrigin).
MindedRunsOnce ==
  daemon.spawned =>
    \A i \in minded : \A p, q \in Procs : runs[i][p] > 0 /\ runs[i][q] > 0 => p = q

-----------------------------------------------------------------------------
(* What a comment of the source says and the code does not do.             *)

\* transport.ts, CALL_REPLAY_INTERVAL_MS: a replay cannot "report a different
\* outcome": a call that the browser is told was not attached did not run.
ReplayKeepsOutcome ==
  \A i \in Calls : call[i].outcome = "unattached" => \A p \in Procs : runs[i][p] = 0
=============================================================================
