---------------------------- MODULE BwrapProvider ----------------------------
(***************************************************************************)
(* fleet/bwrap-provider.ts for one workspace: what its four operations do  *)
(* to the sandboxes and to the files of the state directory.  The fleet's  *)
(* side, which asks and reads the answers, is WorkspaceLifecycle's.        *)
(*                                                                         *)
(* A sandbox has a number, the generation it was started for and the       *)
(* credential it found in the hand-over.  Its supervisor is detached, and  *)
(* neither the provider processes nor the sandboxes die with the fleet.    *)
(***************************************************************************)
EXTENDS Naturals

CONSTANT MaxOps  \* bound: operations of the fleet, each of which may start a sandbox

ASSUME MaxOpsIsNatural == MaxOps \in Nat

VARIABLES
  handover, \* callback-env.json: the generation and the credential it names
  box,      \* the sandboxes
  pidfile,  \* the sandbox the launch record names, 0 for none
  lock      \* the sandbox whose spawner holds the spawn lock, 0 for nobody

providerVars == <<handover, box, pidfile, lock>>

Boxes == 1..MaxOps
Toks  == Boxes
Gens  == Boxes

Unbound  == [gen |-> 0, tok |-> 0]
Bindings == {Unbound} \cup [gen: Gens, tok: Toks]
Unborn   == [state |-> "unborn", gen |-> 0, tok |-> 0]

ProviderTypeOK ==
  /\ handover \in Bindings
  /\ box \in [Boxes -> [state: {"unborn", "starting", "live", "dead"}, gen: {0} \cup Gens, tok: {0} \cup Toks]]
  /\ pidfile \in {0} \cup Boxes
  /\ lock \in {0} \cup Boxes

ProviderInit ==
  /\ handover = Unbound
  /\ box = [b \in Boxes |-> Unborn]
  /\ pidfile = 0 /\ lock = 0

\* The identity check: the recorded process, not merely its pid, is alive.
IsLive(b) == b # 0 /\ box[b].state = "live"

Become(b, state) == box' = [box EXCEPT ![b].state = state]

-----------------------------------------------------------------------------
(* inspect, stop, delete.                                                  *)

Observed == IF pidfile = 0 THEN "missing" ELSE IF IsLive(pidfile) THEN "running" ELSE "stopped"

\* stopAndProve: the recorded process, of whatever generation, is killed.  No
\* record of a live one is proof enough.
StopRecorded == IF IsLive(pidfile) THEN Become(pidfile, "dead") ELSE UNCHANGED box

\* delete: the same, and the state directory goes, the lock file with it.
ClearState ==
  /\ StopRecorded
  /\ handover' = Unbound /\ pidfile' = 0 /\ lock' = 0

-----------------------------------------------------------------------------
(* ensure-running.                                                         *)

\* Under the lock, nothing to spawn: the sandbox runs, or another generation's
\* does, or the hand-over names another generation.
NothingToSpawn(gen) == IsLive(pidfile) \/ handover.gen \notin {0, gen}
NothingSpawned(gen) == IF IsLive(pidfile) /\ box[pidfile].gen = gen THEN "running" ELSE "failed"

\* The provider forgets to look for a sandbox that runs.
SpawnBeside(b, gen) ==
  /\ lock = 0 /\ lock' = b
  /\ handover.gen \in {0, gen}
  /\ box' = [box EXCEPT ![b] = [state |-> "starting", gen |-> gen, tok |-> handover.tok]]
  /\ pidfile' = IF pidfile # 0 /\ box[pidfile].gen # gen THEN 0 ELSE pidfile
  /\ UNCHANGED handover

\* spawnSupervisor, after a stale record of another generation is removed.
Spawn(b, gen) ==
  /\ lock = 0 /\ lock' = b
  /\ ~NothingToSpawn(gen)
  /\ box' = [box EXCEPT ![b] = [state |-> "starting", gen |-> gen, tok |-> handover.tok]]
  /\ pidfile' = IF pidfile # 0 /\ box[pidfile].gen # gen THEN 0 ELSE pidfile
  /\ UNCHANGED handover

\* The supervisor gives its sandbox up long before the provider stops waiting.
SpawnSettled(b) == IsLive(pidfile) \/ box[b].state = "dead"

\* waitForLiveRecord, after a spawn or while another process holds the lock: what
\* is recorded and lives, of any generation, or nothing in time.
AnswerOfWait == IF IsLive(pidfile) THEN "running" ELSE "failed"

Unlock(b) == lock' = IF lock = b THEN 0 ELSE lock

-----------------------------------------------------------------------------
(* The supervisor.                                                         *)

\* It finds the sandboxed command and writes the launch record.
Launched(b) == box[b].state = "starting" /\ Become(b, "live") /\ pidfile' = b /\ UNCHANGED <<handover, lock>>

\* The sandbox fails to start, or dies; its record stays.
Died(b) == box[b].state \in {"starting", "live"} /\ Become(b, "dead") /\ UNCHANGED <<handover, pidfile, lock>>
=============================================================================
