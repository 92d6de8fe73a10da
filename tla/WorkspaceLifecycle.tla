------------------------- MODULE WorkspaceLifecycle -------------------------
(***************************************************************************)
(* One clone workspace: fleet/workspace-lifecycle.ts creates, starts,      *)
(* stops, deletes and reconciles it, BwrapProvider runs its sandboxes, and *)
(* the enrollments of fleet/daemon-transport.ts decide which sandbox may   *)
(* call back.                                                              *)
(*                                                                         *)
(* Every operation of the service is an asynchronous function: it runs to  *)
(* its next await in one step, and whatever else is in flight goes on      *)
(* meanwhile.  An operation that awaits the provider is two more steps,    *)
(* what the provider does and what the operation makes of the answer.      *)
(* Operations are slots; the boot reconciliation has one of its own.       *)
(*                                                                         *)
(* The registry's entry, the provider's files and the sandboxes live on    *)
(* when the fleet dies.  What the transcripts say is reduced to whether    *)
(* the volume is ahead of the store.  Operations are numbered, and one     *)
(* makes at most one credential and one sandbox, which carry its number;   *)
(* 0 is no credential, no generation, no sandbox.                          *)
(***************************************************************************)
EXTENDS BwrapProvider, FiniteSets

CONSTANTS
  Slots,       \* the operations that can be in flight at once
  Clients,     \* slots for operations somebody asks for
  Boot,        \* the slot of the boot reconciliation
  MaxFaults    \* bound: restarts of the fleet, failures and deaths of sandboxes in all

ASSUME SlotsAreClientsAndBoot == Boot \notin Clients /\ Slots = Clients \cup {Boot}
ASSUME MaxFaultsIsNatural == MaxFaults \in Nat

VARIABLES
  entry,    \* the registry's entry: durable
  creds,    \* the transport's credential of each generation, 0 if revoked or none
  paired,   \* the sandbox whose pair is up
  ops,      \* the operations in flight
  gate,     \* #deleting: "free", "held", or "dropped" by an error nobody caught, which the
            \* code does not tell from free
  watcher,  \* the pair watcher: "off", "on", "inspecting", or the answer it got
  ahead,    \* the volume holds transcripts the store does not
  patient,  \* clients wait until nothing is in flight; nothing in the code makes them
  revoked,  \* history: credentials that were revoked
  used      \* what the bounds count

credVars == <<creds, paired, revoked>>
runVars  == <<box, pidfile, lock>>
vars == <<entry, credVars, ops, gate, watcher, providerVars, ahead, patient, used>>

Idle == [kind |-> "none", pc |-> "idle", num |-> 0, auth |-> 0, bind |-> Unbound,
         desired |-> "stopped", gen |-> 0, tok |-> 0, reply |-> "none"]

NoEntry == [exists |-> FALSE, auth |-> 0, desired |-> "stopped", enr |-> Unbound,
            deletion |-> "none", status |-> "asleep", stage |-> "none"]

Kinds == {"none", "create", "start", "stop", "delete", "reconcile"}
Awaiting == {"look", "inspect", "replace", "ensure", "stop", "quiesce", "destroy"}
Places == {"idle", "prepare", "verify", "remove"} \cup Awaiting
GateStates == {"free", "held", "dropped"}
Answers == {"running", "stopped", "missing", "failed"}

TypeOK ==
  /\ ProviderTypeOK
  /\ entry \in [exists: BOOLEAN, auth: {0} \cup Gens, desired: {"running", "stopped"},
                enr: Bindings, deletion: {"none", "deleting", "retry"},
                status: {"asleep", "ready", "error"},
                stage: {"none", "preparation", "runtime", "callback", "ready", "failed"}]
  /\ creds \in [Gens -> {0} \cup Toks] /\ paired \in {0} \cup Boxes /\ revoked \subseteq Toks
  /\ ops \in [Slots -> [kind: Kinds, pc: Places, num: {0} \cup Boxes, auth: {0} \cup Gens,
                        bind: Bindings, desired: {"running", "stopped"}, gen: {0} \cup Gens,
                        tok: {0} \cup Toks, reply: {"none"} \cup Answers]]
  /\ gate \in GateStates /\ watcher \in {"off", "on", "inspecting"} \cup Answers
  /\ ahead \in BOOLEAN /\ patient \in BOOLEAN
  /\ used \in [calls: 0..MaxOps, restarts: 0..MaxFaults, failures: 0..MaxFaults, deaths: 0..MaxFaults]

Init ==
  /\ ProviderInit
  /\ entry = NoEntry
  /\ creds = [g \in Gens |-> 0] /\ paired = 0 /\ revoked = {}
  /\ ops = [o \in Slots |-> Idle]
  /\ gate = "free" /\ watcher = "off"
  /\ ahead = FALSE /\ patient \in BOOLEAN
  /\ used = [calls |-> 0, restarts |-> 0, failures |-> 0, deaths |-> 0]

Enrolled == {g \in Gens : creds[g] # 0}

Quiet == \A o \in Slots : ops[o] = Idle

-----------------------------------------------------------------------------
(* Steps that operations share.                                            *)

\* revokeEnrollment of some generations: their credentials and their pairs.
Revoke(gens) ==
  /\ creds' = [g \in Gens |-> IF g \in gens THEN 0 ELSE creds[g]]
  /\ revoked' = revoked \cup {creds[g] : g \in gens \cap Enrolled}
  /\ paired' = IF paired # 0 /\ box[paired].gen \in gens THEN 0 ELSE paired

\* The credential goes and the generation stays.
ClearedInPart(e, g) == IF e.enr.gen = g THEN [e EXCEPT !.enr.tok = 0] ELSE e

\* clearWorkspaceEnrollment: only a binding of that generation.
Cleared(e, g) == IF e.enr.gen = g THEN [e EXCEPT !.enr = Unbound] ELSE e

Put(o, rec) == ops' = [ops EXCEPT ![o] = rec]
End(o) == Put(o, Idle)
Await(o, rec, pc) == Put(o, [rec EXCEPT !.pc = pc, !.reply = "none"])

Answered(o, pc) == ops[o].pc = pc /\ ops[o].reply # "none"

OneMoreOp == used.calls + used.restarts < MaxOps
OneMoreFault == used.restarts + used.failures + used.deaths < MaxFaults

\* A client asks for an operation.
Asked(o) ==
  /\ o \in Clients /\ ops[o] = Idle
  /\ patient => Quiet
  /\ OneMoreOp
  /\ used' = [used EXCEPT !.calls = @ + 1]

\* What an operation takes down of the entry before it awaits.
Snapshot(kind) ==
  [Idle EXCEPT !.kind = kind, !.num = used.calls + used.restarts + 1,
               !.auth = entry.auth, !.bind = entry.enr, !.desired = entry.desired]

\* Provider calls, preparations and checks of the gate can fail.
OneMoreFailure == OneMoreFault /\ used' = [used EXCEPT !.failures = @ + 1]

-----------------------------------------------------------------------------
(* #ensure, for createClone, ensureCloneRunning and reconcile.             *)

\* A start that throws: only createClone catches it and says so in the entry.
Failed(e, kind) ==
  IF kind = "create" /\ e.exists THEN [e EXCEPT !.stage = "failed", !.desired = "stopped"] ELSE e

GiveUp(o, e) == entry' = Failed(e, ops[o].kind) /\ End(o) /\ UNCHANGED <<credVars, handover>>

\* Enroll generation gen with credential tok, write both down, and ask the
\* provider.  A bump revokes the snapshot's generation first.  A generation
\* that has another credential is refused outside the try, and so is an entry
\* that is gone: what was revoked stays revoked, nothing else is undone.
Enroll(o, rec, e, gen, tok) ==
  LET bumped == IF rec.auth # 0 /\ gen > rec.auth THEN {rec.auth} ELSE {}
      base   == IF bumped = {} THEN e ELSE Cleared(e, rec.auth)
      taken  == creds[gen] \notin {0, tok}
      binds  == e.exists /\ ~taken
  IN /\ revoked' = revoked \cup {creds[g] : g \in bumped \cap Enrolled}
     /\ paired' = IF paired # 0 /\ box[paired].gen \in bumped THEN 0 ELSE paired
     /\ creds' = [g \in Gens |-> IF g \in bumped THEN 0
                                 ELSE IF g = gen /\ ~taken /\ (e.exists \/ bumped = {}) THEN tok
                                 ELSE creds[g]]
     /\ IF binds
        THEN /\ handover' = [gen |-> gen, tok |-> tok]
             /\ entry' = [base EXCEPT !.enr = handover']
             /\ Await(o, [rec EXCEPT !.gen = gen, !.tok = tok], "ensure")
        ELSE /\ entry' = IF e.exists THEN Failed(base, rec.kind) ELSE e
             /\ End(o)
             /\ UNCHANGED handover

\* The start of #ensure: a workspace that never ran has nothing to inspect.
Ensure(o, rec) ==
  LET e == [entry EXCEPT !.stage = "runtime"] IN
  IF rec.auth = 0 THEN Enroll(o, rec, e, 1, rec.num)
  ELSE entry' = e /\ Await(o, rec, "inspect") /\ UNCHANGED <<credVars, handover>>

\* The binding the snapshot has and the token of the file are of the
\* snapshot's generation.
Reusable(rec) == rec.bind.gen = rec.auth /\ handover.gen = rec.auth

\* What inspect found: a sandbox to take back, one to replace, or none.
Inspected(o) ==
  LET rec == ops[o] IN
  /\ Answered(o, "inspect")
  /\ CASE rec.reply = "running" /\ Reusable(rec) -> Enroll(o, rec, entry, rec.auth, handover.tok)
       [] rec.reply = "running" /\ ~Reusable(rec) /\ entry.exists ->
            Await(o, rec, "replace") /\ UNCHANGED <<entry, credVars, handover>>
       [] rec.reply \in {"stopped", "missing"} -> Enroll(o, rec, entry, rec.auth + 1, rec.num)
       [] OTHER -> GiveUp(o, entry)
  /\ UNCHANGED <<gate, watcher, runVars, ahead, patient, used>>

\* The stop that comes before the place of a running sandbox is taken.
Replaced(o) ==
  LET rec == ops[o] IN
  /\ Answered(o, "replace")
  /\ IF rec.reply = "failed" THEN GiveUp(o, entry)
     ELSE Enroll(o, rec, entry, rec.auth + 1, rec.num)
  /\ UNCHANGED <<gate, watcher, runVars, ahead, patient, used>>

\* The answer to ensure-running.  An entry removed meanwhile makes the update
\* throw, and the catch revokes.
Ensured(o) ==
  LET rec == ops[o] IN
  /\ Answered(o, "ensure")
  /\ End(o)
  /\ IF rec.reply = "running" /\ entry.exists
     THEN /\ entry' = [entry EXCEPT !.auth = rec.gen, !.desired = "running",
                                    !.status = "ready", !.stage = "callback"]
          /\ watcher' = IF watcher = "off" THEN "on" ELSE watcher
          /\ UNCHANGED credVars
     ELSE /\ Revoke({rec.gen})
          /\ entry' = Failed(Cleared(entry, rec.gen), rec.kind)
          /\ UNCHANGED watcher
  /\ UNCHANGED <<gate, providerVars, ahead, patient, used>>

-----------------------------------------------------------------------------
(* createClone, ensureCloneRunning, stopClone.                             *)

\* The entry is durable before the pin is resolved and the checkout made.
Create(o) ==
  /\ Asked(o) /\ used.calls = 0
  /\ \E desired \in {"running", "stopped"} :
       /\ entry' = [NoEntry EXCEPT !.exists = TRUE, !.desired = desired, !.stage = "preparation"]
       /\ Put(o, [Snapshot("create") EXCEPT !.pc = "prepare", !.desired = desired])
  /\ UNCHANGED <<credVars, gate, watcher, providerVars, ahead, patient>>

Prepared(o) ==
  LET rec == ops[o]
      starts == rec.desired = "running"
  IN /\ rec.pc = "prepare" /\ entry.exists
     /\ IF starts /\ entry.deletion = "none"
        THEN Ensure(o, [rec EXCEPT !.auth = entry.auth, !.bind = entry.enr])
        ELSE GiveUp(o, IF starts THEN entry ELSE [entry EXCEPT !.stage = "none"])
     /\ UNCHANGED <<gate, watcher, runVars, ahead, patient, used>>

\* The pin or the checkout cannot be had: entry and volume go.
NotPrepared(o) ==
  /\ ops[o].pc = "prepare" /\ entry.exists
  /\ OneMoreFailure
  /\ entry' = NoEntry /\ ahead' = FALSE
  /\ End(o)
  /\ UNCHANGED <<credVars, gate, watcher, providerVars, patient>>

\* Somebody removed what was being prepared.
PreparedInVain(o) ==
  /\ ops[o].pc = "prepare" /\ ~entry.exists
  /\ End(o)
  /\ UNCHANGED <<entry, credVars, gate, watcher, providerVars, ahead, patient, used>>

\* Without the admission barrier.
StartDeleted(o) ==
  /\ Asked(o) /\ entry.exists
  /\ Ensure(o, Snapshot("start"))
  /\ UNCHANGED <<gate, watcher, runVars, ahead, patient>>

Start(o) ==
  /\ Asked(o) /\ entry.exists /\ entry.deletion = "none"
  /\ Ensure(o, Snapshot("start"))
  /\ UNCHANGED <<gate, watcher, runVars, ahead, patient>>

Parked(e) == [e EXCEPT !.desired = "stopped", !.status = "asleep", !.stage = "none"]

\* A workspace that never ran is parked at once.
Stop(o) ==
  /\ Asked(o) /\ entry.exists /\ entry.deletion = "none"
  /\ IF entry.auth # 0
     THEN Await(o, Snapshot("stop"), "stop") /\ UNCHANGED entry
     ELSE entry' = Parked(entry) /\ UNCHANGED ops
  /\ UNCHANGED <<credVars, gate, watcher, providerVars, ahead, patient>>

\* Revoked, but still in the entry.
StoppedStillBound(o) ==
  LET rec == ops[o] IN
  /\ Answered(o, "stop")
  /\ End(o)
  /\ IF rec.reply = "failed" \/ ~entry.exists
     THEN UNCHANGED <<entry, credVars>>
     ELSE entry' = Parked(entry) /\ Revoke({rec.auth})
  /\ UNCHANGED <<gate, watcher, providerVars, ahead, patient, used>>

\* The generation revoked is the one the entry had when the stop was asked for.
Stopped(o) ==
  LET rec == ops[o] IN
  /\ Answered(o, "stop")
  /\ End(o)
  /\ IF rec.reply = "failed" \/ ~entry.exists
     THEN UNCHANGED <<entry, credVars>>
     ELSE entry' = Cleared(Parked(entry), rec.auth) /\ Revoke({rec.auth})
  /\ UNCHANGED <<gate, watcher, providerVars, ahead, patient, used>>

-----------------------------------------------------------------------------
(* The verified delete gate.                                               *)

\* A gate that fails writes why, and lets the next one try.
Blocked(o) ==
  /\ entry' = IF entry.exists THEN [entry EXCEPT !.deletion = "retry"] ELSE entry
  /\ gate' = "free"
  /\ End(o)

\* What a boot, or the next delete, makes of a deletion that was cut short.
Interrupted == IF entry.deletion = "deleting" THEN "retry" ELSE entry.deletion

\* Ready, and wanted or able to call back.
LooksLive == entry.status = "ready" /\ (entry.desired = "running" \/ Enrolled # {} \/ paired # 0)

\* Durable "deleting", then the enrollment the entry names, then the compute.
Delete(o) ==
  /\ Asked(o) /\ entry.exists /\ gate # "held" /\ ~LooksLive
  /\ gate' = "held"
  /\ entry' = [entry EXCEPT !.deletion = "deleting", !.enr = Unbound]
  /\ Revoke({entry.enr.gen})
  /\ Await(o, Snapshot("delete"), IF entry.auth # 0 THEN "quiesce" ELSE "verify")
  /\ UNCHANGED <<watcher, providerVars, ahead, patient>>

\* A workspace that looks live is refused.  All that changes is what an earlier
\* gate left as "deleting".
DeleteRefused(o) ==
  /\ Asked(o) /\ entry.exists /\ gate # "held" /\ LooksLive
  /\ entry.deletion = "deleting"
  /\ entry' = [entry EXCEPT !.deletion = Interrupted]
  /\ UNCHANGED <<credVars, ops, gate, watcher, providerVars, ahead, patient>>

Quiesced(o) ==
  LET rec == ops[o] IN
  /\ Answered(o, "quiesce")
  /\ IF rec.reply = "failed" \/ ~entry.exists
     THEN Blocked(o)
     ELSE entry' = Parked(entry) /\ Await(o, rec, "verify") /\ UNCHANGED gate
  /\ UNCHANGED <<credVars, watcher, providerVars, ahead, patient, used>>

\* The git guard, the store's own check, the volume against the store: a volume
\* that is ahead of the store blocks.
Verified(o) ==
  LET rec == ops[o] IN
  /\ rec.pc = "verify"
  /\ IF ahead \/ ~entry.exists
     THEN Blocked(o)
     ELSE /\ Await(o, [rec EXCEPT !.gen = entry.auth], IF rec.auth # 0 THEN "destroy" ELSE "remove")
          /\ UNCHANGED <<entry, gate>>
  /\ UNCHANGED <<credVars, watcher, providerVars, ahead, patient, used>>

\* Uncommitted work, a stash, a store that does not verify, a volume that cannot
\* be removed.
GateFails(o) ==
  /\ ops[o].pc \in {"verify", "remove"}
  /\ OneMoreFailure
  /\ Blocked(o)
  /\ UNCHANGED <<credVars, watcher, providerVars, ahead, patient>>

\* git that cannot be run, a file that cannot be read, a store that cannot be
\* made read-only: nothing catches the error, and the entry stays "deleting".
GateThrows(o) ==
  /\ ops[o].pc = "verify"
  /\ OneMoreFailure
  /\ gate' = "dropped"
  /\ End(o)
  /\ UNCHANGED <<entry, credVars, watcher, providerVars, ahead, patient>>

Destroyed(o) ==
  LET rec == ops[o] IN
  /\ Answered(o, "destroy")
  /\ IF rec.reply = "failed" THEN UNCHANGED credVars ELSE Revoke({rec.gen})
  /\ IF rec.reply = "failed" \/ ~entry.exists
     THEN Blocked(o)
     ELSE entry' = Cleared(entry, rec.gen) /\ Await(o, rec, "remove") /\ UNCHANGED gate
  /\ UNCHANGED <<watcher, providerVars, ahead, patient, used>>

\* The volume goes, and then the entry, which stops nothing.
Removed(o) ==
  /\ ops[o].pc = "remove"
  /\ entry' = NoEntry /\ ahead' = FALSE
  /\ gate' = "free"
  /\ End(o)
  /\ UNCHANGED <<credVars, watcher, providerVars, patient, used>>

-----------------------------------------------------------------------------
(* A fleet that dies and comes back.                                       *)

\* Whether a boot inspects the workspace: not one whose deletion it only marks,
\* nor one that the entry says never ran.
Reconciles == entry.exists /\ entry.auth # 0 /\ entry.deletion # "deleting"

\* A boot that enrolls what is bound and leaves the deletion as told.  What the
\* provider was asked and has not begun is not done any more.
RestartWith(bound, deletion) ==
  /\ OneMoreOp /\ OneMoreFault /\ used' = [used EXCEPT !.restarts = @ + 1]
  /\ entry' = [entry EXCEPT !.deletion = deletion]
  /\ ops' = [o \in Slots |-> IF o = Boot /\ Reconciles
                             THEN [Snapshot("reconcile") EXCEPT !.pc = "look"] ELSE Idle]
  /\ creds' = [g \in Gens |-> IF g = bound.gen THEN bound.tok ELSE 0]
  /\ gate' = "free" /\ watcher' = "off" /\ paired' = 0
  /\ UNCHANGED <<providerVars, ahead, patient, revoked>>

RestartForgetting == RestartWith(Unbound, Interrupted)
RestartDeleting == RestartWith(entry.enr, entry.deletion)

\* Boot: the persisted binding is enrolled again, a deletion cut short is marked
\* for a retry.
Restart == RestartWith(entry.enr, Interrupted)

\* reconcile: a running sandbox is taken back whatever was desired, one that is
\* wanted and gone is ensured, any other is left.
Looked ==
  LET rec == ops[Boot] IN
  /\ Answered(Boot, "look")
  /\ CASE ~entry.exists -> GiveUp(Boot, entry)
       [] entry.exists /\ rec.reply = "running" ->
            GiveUp(Boot, [entry EXCEPT !.status = "ready", !.stage = "ready"])
       [] entry.exists /\ rec.reply \in {"stopped", "missing"} ->
            IF rec.desired = "running" /\ entry.deletion = "none"
            THEN Ensure(Boot, [rec EXCEPT !.auth = entry.auth, !.bind = entry.enr])
            ELSE GiveUp(Boot, entry)
       [] OTHER -> GiveUp(Boot, entry)
  /\ UNCHANGED <<gate, watcher, runVars, ahead, patient, used>>

-----------------------------------------------------------------------------
(* The pair watcher.                                                       *)

\* A tick: nothing to watch any more, a pair, or one of every tenth that ask.
Tick ==
  /\ watcher = "on"
  /\ CASE ~entry.exists \/ entry.desired # "running" -> watcher' = "off" /\ UNCHANGED entry
       [] OTHER -> IF paired # 0 /\ Enrolled # {}
                   THEN watcher' = "off" /\ entry' = [entry EXCEPT !.stage = "ready"]
                   ELSE watcher' = "inspecting" /\ UNCHANGED entry
  /\ UNCHANGED <<credVars, ops, gate, providerVars, ahead, patient, used>>

\* Any answer but an error leaves it watching.
TickPatient ==
  /\ watcher \in Answers
  /\ watcher' = "on"
  /\ UNCHANGED <<entry, credVars, ops, gate, providerVars, ahead, patient, used>>

\* The answer, whatever happened to the workspace meanwhile.
TickAnswered ==
  /\ watcher \in Answers
  /\ IF watcher \in {"running", "failed"}
     THEN watcher' = "on" /\ UNCHANGED entry
     ELSE /\ watcher' = "off"
          /\ entry' = IF entry.exists THEN [entry EXCEPT !.stage = "failed", !.status = "error"] ELSE entry
  /\ UNCHANGED <<credVars, ops, gate, providerVars, ahead, patient, used>>

-----------------------------------------------------------------------------
(* runProviderOp: what a request does, and its answer.                     *)

Reply(o, answer) == ops' = [ops EXCEPT ![o].reply = answer]
Asks(o, places) == ops[o].pc \in places /\ ops[o].reply = "none"

\* A pair ends with its sandbox.
PairsOfLive == paired' = IF paired # 0 /\ box'[paired].state # "live" THEN 0 ELSE paired

Inspects(o) ==
  /\ Asks(o, {"look", "inspect"})
  /\ Reply(o, Observed)
  /\ UNCHANGED <<entry, credVars, gate, watcher, providerVars, ahead, patient, used>>

InspectsForWatcher ==
  /\ watcher = "inspecting" /\ watcher' = Observed
  /\ UNCHANGED <<entry, credVars, ops, gate, providerVars, ahead, patient, used>>

Stops(o) ==
  /\ Asks(o, {"replace", "stop", "quiesce"})
  /\ StopRecorded /\ PairsOfLive
  /\ Reply(o, "stopped")
  /\ UNCHANGED <<entry, creds, revoked, gate, watcher, handover, pidfile, lock, ahead, patient, used>>

Deletes(o) ==
  /\ Asks(o, {"destroy"})
  /\ ClearState /\ PairsOfLive
  /\ Reply(o, "missing")
  /\ UNCHANGED <<entry, creds, revoked, gate, watcher, ahead, patient, used>>

MayEnsure(o) == Asks(o, {"ensure"}) /\ box[ops[o].num].state = "unborn"

EnsuresNothing(o) ==
  /\ MayEnsure(o) /\ lock = 0 /\ NothingToSpawn(ops[o].gen)
  /\ Reply(o, NothingSpawned(ops[o].gen))
  /\ UNCHANGED <<entry, credVars, gate, watcher, providerVars, ahead, patient, used>>

Spawns(o) ==
  /\ MayEnsure(o)
  /\ Spawn(ops[o].num, ops[o].gen)
  /\ UNCHANGED <<entry, credVars, ops, gate, watcher, ahead, patient, used>>

EnsuresBehindLock(o) ==
  /\ MayEnsure(o) /\ lock # 0 /\ SpawnSettled(lock)
  /\ Reply(o, AnswerOfWait)
  /\ UNCHANGED <<entry, credVars, gate, watcher, providerVars, ahead, patient, used>>

Spawned(o) ==
  /\ Asks(o, {"ensure"}) /\ ~MayEnsure(o)
  /\ SpawnSettled(ops[o].num)
  /\ Reply(o, AnswerOfWait)
  /\ Unlock(ops[o].num)
  /\ UNCHANGED <<entry, credVars, gate, watcher, handover, box, pidfile, ahead, patient, used>>

\* The spawner that a dead fleet left behind.
SpawnedForNobody ==
  /\ lock # 0 /\ \A o \in Slots : ops[o].num # lock
  /\ SpawnSettled(lock) /\ Unlock(lock)
  /\ UNCHANGED <<entry, credVars, ops, gate, watcher, handover, box, pidfile, ahead, patient, used>>

\* No answer, or none of use, whether or not what was asked for was done.  A
\* provider is not killed while its supervisor starts a sandbox.
ProviderFails(o) ==
  /\ ops[o].pc \in Awaiting /\ ops[o].reply # "failed"
  /\ lock = 0 \/ lock # ops[o].num
  /\ OneMoreFailure
  /\ Reply(o, "failed")
  /\ UNCHANGED <<entry, credVars, gate, watcher, providerVars, ahead, patient>>

-----------------------------------------------------------------------------
(* Sandboxes.                                                              *)

BoxStarts(b) ==
  /\ entry.exists
  /\ Launched(b)
  /\ UNCHANGED <<entry, credVars, ops, gate, watcher, ahead, patient, used>>

BoxDies(b) ==
  /\ OneMoreFault /\ used' = [used EXCEPT !.deaths = @ + 1]
  /\ Died(b) /\ PairsOfLive
  /\ UNCHANGED <<entry, creds, revoked, ops, gate, watcher, ahead, patient>>

\* There is no volume to start on.
BoxFindsNothing(b) ==
  /\ ~entry.exists /\ box[b].state = "starting"
  /\ Died(b)
  /\ UNCHANGED <<entry, credVars, ops, gate, watcher, ahead, patient, used>>

\* A request of the daemon is let in: enrolled, and not superseded.
Pair(b) ==
  /\ IsLive(b) /\ paired # b
  /\ box[b].gen \in Enrolled /\ creds[box[b].gen] = box[b].tok
  /\ \A g \in Enrolled : g <= box[b].gen
  /\ paired' = b
  /\ UNCHANGED <<entry, creds, revoked, ops, gate, watcher, providerVars, ahead, patient, used>>

Write(b) ==
  /\ IsLive(b) /\ entry.exists /\ ~ahead
  /\ ahead' = TRUE
  /\ UNCHANGED <<entry, credVars, ops, gate, watcher, providerVars, patient, used>>

\* What LogMirror shows of the stream of a paired daemon.
Mirror ==
  /\ paired # 0 /\ ahead
  /\ ahead' = FALSE
  /\ UNCHANGED <<entry, credVars, ops, gate, watcher, providerVars, patient, used>>

-----------------------------------------------------------------------------
Continue(o) ==
  \/ Inspected(o) \/ Replaced(o) \/ Ensured(o) \/ Prepared(o) \/ PreparedInVain(o)
  \/ Stopped(o) \/ Quiesced(o) \/ Verified(o) \/ Destroyed(o) \/ Removed(o)

Provide(o) ==
  \/ Inspects(o) \/ Stops(o) \/ Deletes(o)
  \/ EnsuresNothing(o) \/ Spawns(o) \/ EnsuresBehindLock(o) \/ Spawned(o)

Next ==
  \/ \E o \in Slots :
       \/ Create(o) \/ Start(o) \/ Stop(o) \/ Delete(o) \/ DeleteRefused(o)
       \/ Continue(o) \/ Provide(o)
       \/ NotPrepared(o) \/ GateFails(o) \/ GateThrows(o) \/ ProviderFails(o)
  \/ \E b \in Boxes : BoxStarts(b) \/ BoxDies(b) \/ BoxFindsNothing(b) \/ Pair(b) \/ Write(b)
  \/ Mirror \/ Tick \/ TickAnswered \/ InspectsForWatcher \/ Looked \/ Restart \/ SpawnedForNobody

Spec == Init /\ [][Next]_vars

\* Promises settle, timers fire, providers answer, supervisors start their
\* sandboxes and daemons dial.  Nobody has to ask for anything, and nothing has
\* to go wrong.
FairSpec ==
  /\ Spec
  /\ \A o \in Slots : WF_vars(Continue(o)) /\ WF_vars(Provide(o))
  /\ \A b \in Boxes : WF_vars(BoxStarts(b)) /\ WF_vars(BoxFindsNothing(b)) /\ WF_vars(Pair(b))
  /\ WF_vars(Tick) /\ WF_vars(TickAnswered) /\ WF_vars(InspectsForWatcher) /\ WF_vars(Looked)
  /\ WF_vars(SpawnedForNobody)

-----------------------------------------------------------------------------
(* Safety.                                                                 *)

\* However starts, stops, restarts and failures interleave, two sandboxes never
\* write one volume; nor once a deletion begins, if clients wait for one another.
OneWriter ==
  patient \/ (entry.exists /\ entry.deletion = "none") =>
    \A b, c \in Boxes : IsLive(b) /\ IsLive(c) => b = c

\* A credential that was revoked is not accepted again, after a restart either,
\* as long as clients wait for one another.
RevokedStaysRevoked == patient => \A g \in Enrolled : creds[g] \notin revoked

\* Nothing overlaps, every provider answers, and no spawner of a fleet that died
\* is in the way of a sandbox that has to be replaced.
Orderly == patient /\ used.failures = 0 /\ 0 \in {used.restarts, used.deaths}

\* When all is orderly, a clone shown ready that runs has the credential the
\* fleet accepts, whatever was started, stopped, taken back and replaced before:
\* it can call back.
ReadyIsReachable ==
  /\ Orderly /\ Quiet
  /\ entry.exists /\ entry.deletion = "none" /\ entry.status = "ready" /\ IsLive(pidfile)
  => creds[box[pidfile].gen] = box[pidfile].tok

\* The admission barrier: once a deletion has begun nothing is enrolled any
\* more, as long as clients wait for one another.
DeletionFences ==
  [][patient /\ entry.exists /\ entry'.exists /\ entry.deletion # "none" =>
       \A g \in Gens : creds'[g] \in {0, creds[g]}]_vars

\* The gate reads a volume nobody writes: what is removed is in the store.
RemovedIsStored == [][patient /\ entry.exists /\ ~entry'.exists => ~ahead]_vars

\* A parked workspace can be started: the generation its next start takes has no
\* credential yet.
NextStartCanEnroll ==
  patient /\ Quiet /\ entry.exists /\ entry.deletion = "none" /\ ~IsLive(pidfile)
  /\ entry.auth < MaxOps => creds[entry.auth + 1] = 0

-----------------------------------------------------------------------------
(* Liveness.                                                               *)

\* A deletion that is under way, or that a boot found under way, is finished or
\* left for a retry, through restarts and whatever else is in flight, unless its
\* gate ends in an error nobody catches; and so is the one that is begun next.
DeletionSettles ==
  entry.deletion = "deleting" /\ gate # "dropped" ~> entry.deletion # "deleting" \/ gate = "dropped"

\* With clients that wait and a provider that answers, a clone does not stay at
\* the callback stage: it pairs, or is found dead, or moves on.
CallbackSettles ==
  Orderly /\ entry.stage = "callback" ~> entry.stage # "callback" \/ ~Orderly

-----------------------------------------------------------------------------
(* What a comment of the source says and the code does not do; see README. *)

\* "Any failure before verification persists delete-pending-retry with a typed
\* error" (workspace-lifecycle.ts:923, #deleteGate): a deletion that was begun
\* does not stay "deleting".
DeletionNeverStays == entry.deletion = "deleting" ~> entry.deletion # "deleting"
=============================================================================
