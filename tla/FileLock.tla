------------------------------ MODULE FileLock ------------------------------
(***************************************************************************)
(* The pidfile locks of lib/platform/file-lock.ts: several processes call  *)
(* acquireFileLock and release on one lock path, and may die anywhere.     *)
(* One action per system call that touches the path, so that the calls of  *)
(* two processes interleave.  A dead process stays dead, and its pid is    *)
(* not given to another one.                                               *)
(*                                                                         *)
(* Unlinking goes by name: it takes whatever file stands at the path.      *)
(* Writing goes to the file that was created, at the path or not.          *)
(*                                                                         *)
(* OpenTruncating, BreakForever and BreakOnceMore are slips of the action  *)
(* each stands before, for the mutants.                                    *)
(***************************************************************************)
EXTENDS Naturals

CONSTANTS
  Procs,       \* processes, and their pids
  Nobody,      \* no pid
  MaxAttempts  \* MAX_ATTEMPTS

ASSUME NobodyIsNoProcess == Nobody \notin Procs
ASSUME AttemptsArePositive == MaxAttempts \in Nat \ {0}

VARIABLES
  file,      \* the creator of the file at the path, and whether its pid is in it
  pc,        \* where each process is in acquireFileLock, or whether it holds
  attempt,   \* its attempts so far
  holderPid, \* the pid it read in a file that stood in its way
  blind      \* history: somebody took a file with no pid to read for a stale one

vars == <<file, pc, attempt, holderPid, blind>>

NoFile == [by |-> Nobody, written |-> FALSE]

Locations == {"idle", "opening", "created", "blocked", "checking", "breaking", "holding", "dead"}

TypeOK ==
  /\ file \in [by: Procs \cup {Nobody}, written: BOOLEAN]
  /\ pc \in [Procs -> Locations]
  /\ attempt \in [Procs -> 0..MaxAttempts]
  /\ holderPid \in [Procs -> Procs \cup {Nobody}]
  /\ blind \in BOOLEAN

Init ==
  /\ file = NoFile
  /\ pc = [p \in Procs |-> "idle"]
  /\ attempt = [p \in Procs |-> 0]
  /\ holderPid = [p \in Procs |-> Nobody]
  /\ blind = FALSE

Goto(p, location) == pc' = [pc EXCEPT ![p] = location]

-----------------------------------------------------------------------------
(* acquireFileLock.                                                        *)

Call(p) ==
  /\ pc[p] = "idle"
  /\ Goto(p, "opening")
  /\ attempt' = [attempt EXCEPT ![p] = 0]
  /\ UNCHANGED <<file, holderPid, blind>>

\* openSync(lockPath, "w"): creates, and truncates what is there.
OpenTruncating(p) ==
  /\ pc[p] = "opening"
  /\ file' = [by |-> p, written |-> FALSE]
  /\ Goto(p, "created")
  /\ UNCHANGED <<attempt, holderPid, blind>>

\* openSync(lockPath, "wx").
Open(p) ==
  /\ pc[p] = "opening"
  /\ IF file = NoFile
     THEN file' = [by |-> p, written |-> FALSE] /\ Goto(p, "created")
     ELSE Goto(p, "blocked") /\ UNCHANGED file
  /\ UNCHANGED <<attempt, holderPid, blind>>

Write(p) ==
  /\ pc[p] = "created"
  /\ file' = IF file.by = p THEN [file EXCEPT !.written = TRUE] ELSE file
  /\ Goto(p, "holding")
  /\ UNCHANGED <<attempt, holderPid, blind>>

\* The disk is full: clean up and throw.
WriteFails(p) ==
  /\ pc[p] = "created"
  /\ file' = NoFile
  /\ Goto(p, "idle")
  /\ UNCHANGED <<attempt, holderPid, blind>>

\* readFileSync: no file, or a file without its pid yet, reads as garbage.
Read(p) ==
  /\ pc[p] = "blocked"
  /\ holderPid' = [holderPid EXCEPT ![p] = IF file.written THEN file.by ELSE Nobody]
  /\ Goto(p, IF file.written THEN "checking" ELSE "breaking")
  /\ blind' = (blind \/ ~file.written)
  /\ UNCHANGED <<file, attempt>>

\* kill(pid, 0): a live holder ends the call with LockHeldError.
Check(p) ==
  /\ pc[p] = "checking"
  /\ Goto(p, IF pc[holderPid[p]] = "dead" THEN "breaking" ELSE "idle")
  /\ UNCHANGED <<file, attempt, holderPid, blind>>

\* Break without counting the attempt.
BreakForever(p) ==
  /\ pc[p] = "breaking"
  /\ file' = NoFile
  /\ Goto(p, "opening")
  /\ UNCHANGED <<attempt, holderPid, blind>>

\* One attempt more than MAX_ATTEMPTS.
BreakOnceMore(p) ==
  /\ pc[p] = "breaking"
  /\ file' = NoFile
  /\ attempt' = [attempt EXCEPT ![p] = @ + 1]
  /\ Goto(p, IF attempt[p] = MaxAttempts THEN "idle" ELSE "opening")
  /\ UNCHANGED <<holderPid, blind>>

\* unlinkSync, then the next attempt or the error after the last one.
Break(p) ==
  /\ pc[p] = "breaking"
  /\ file' = NoFile
  /\ attempt' = [attempt EXCEPT ![p] = @ + 1]
  /\ Goto(p, IF attempt[p] + 1 = MaxAttempts THEN "idle" ELSE "opening")
  /\ UNCHANGED <<holderPid, blind>>

Release(p) ==
  /\ pc[p] = "holding"
  /\ file' = NoFile
  /\ Goto(p, "idle")
  /\ UNCHANGED <<attempt, holderPid, blind>>

Die(p) ==
  /\ pc[p] # "dead"
  /\ Goto(p, "dead")
  /\ UNCHANGED <<file, attempt, holderPid, blind>>

-----------------------------------------------------------------------------

Step(p) == Open(p) \/ Write(p) \/ WriteFails(p) \/ Read(p) \/ Check(p) \/ Break(p)

Next == \E p \in Procs : Call(p) \/ Step(p) \/ Release(p) \/ Die(p)

Spec == Init /\ [][Next]_vars

\* A running process goes on with the call it is in.
FairSpec == Spec /\ \A p \in Procs : WF_vars(Step(p))

-----------------------------------------------------------------------------
(* Properties.                                                             *)

Dead == {p \in Procs : pc[p] = "dead"}

Holders == {p \in Procs : pc[p] = "holding"}

Alone == \A p, q \in Holders : p = q

\* Mutual exclusion, as far as it goes: as long as nobody died and nobody
\* broke a file it could read no pid in, at most one process holds the lock.
MutualExclusion == Dead = {} /\ ~blind => Alone

\* And its file is at the path, so that the next caller will find it.
HolderIsSeen ==
  Dead = {} /\ ~blind => \A p \in Holders : file = [by |-> p, written |-> TRUE]

\* Every call returns or throws, whoever keeps taking the lock or dying.
CallsEnd ==
  \A p \in Procs : pc[p] = "opening" ~> pc[p] \in {"holding", "idle", "dead"}

-----------------------------------------------------------------------------
(* What comments of the source say and the code does not do.               *)

\* file-lock.ts: two waiters can both get the lock "when the holder is dead".
AloneUnlessOneDied == Dead = {} => Alone
=============================================================================
