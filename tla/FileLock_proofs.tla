-------------------------- MODULE FileLock_proofs --------------------------
(***************************************************************************)
(* That the lock of FileLock is exclusive, for any number of processes and *)
(* attempts, as long as nobody has died and nobody has broken a file it    *)
(* could read no pid in.                                                   *)
(***************************************************************************)
EXTENDS FileLock, TLAPS

\* A call that goes on has an attempt left.
AttemptsLeft ==
  \A p \in Procs :
    pc[p] \in {"opening", "blocked", "checking", "breaking"} => attempt[p] < MaxAttempts

\* A pid that is being checked is a process's, and a file with a pid in it
\* has a creator.
PidsRead ==
  /\ \A p \in Procs : pc[p] = "checking" => holderPid[p] \in Procs
  /\ file.written => file.by \in Procs

\* Whoever has created or holds the lock owns the file at the path, and
\* nobody is about to break it.
Owned ==
  Dead = {} /\ ~blind =>
    /\ \A p \in Procs : pc[p] \in {"created", "holding"} => file.by = p
    /\ \A p \in Procs : pc[p] = "holding" => file.written
    /\ \A p \in Procs : pc[p] # "breaking"

IInv == TypeOK /\ AttemptsLeft /\ PidsRead /\ Owned

\* What can stand at the path.
LEMMA FilesTyped ==
  /\ NoFile \in [by: Procs \cup {Nobody}, written: BOOLEAN]
  /\ \A p \in Procs : [by |-> p, written |-> FALSE] \in [by: Procs \cup {Nobody}, written: BOOLEAN]
  /\ NoFile.by = Nobody /\ ~NoFile.written
  BY DEF NoFile

\* The initial state has no file and no call.
LEMMA InitEstablishes == Init => IInv
<1> SUFFICES ASSUME Init
             PROVE  IInv
  OBVIOUS
<1>1. /\ pc \in [Procs -> Locations]
      /\ holderPid \in [Procs -> Procs \cup {Nobody}]
  BY DEF Init, Locations
<1>2. attempt \in [Procs -> 0..MaxAttempts]
  BY AttemptsArePositive DEF Init
<1>3. TypeOK
  BY <1>1, <1>2, FilesTyped DEF Init, TypeOK
<1>4. AttemptsLeft /\ PidsRead /\ Owned
  BY FilesTyped DEF Init, AttemptsLeft, PidsRead, Owned
<1> QED
  BY <1>3, <1>4 DEF IInv

\* Types, action by action.
LEMMA TypeStep == TypeOK /\ AttemptsLeft /\ [Next]_vars => TypeOK'
<1> USE NobodyIsNoProcess, AttemptsArePositive
<1> SUFFICES ASSUME TypeOK, AttemptsLeft, [Next]_vars
             PROVE  TypeOK'
  OBVIOUS
<1>1. CASE UNCHANGED vars
  BY <1>1 DEF TypeOK, vars
<1>2. ASSUME NEW p \in Procs, Call(p)
      PROVE  TypeOK'
  BY <1>2 DEF TypeOK, Call, Goto, Locations
<1>3. ASSUME NEW p \in Procs, Open(p)
      PROVE  TypeOK'
  <2>1. file' = file \/ file' = [by |-> p, written |-> FALSE]
    BY <1>3 DEF Open
  <2>2. file' \in [by: Procs \cup {Nobody}, written: BOOLEAN]
    BY <2>1, FilesTyped DEF TypeOK
  <2>3. pc' \in [Procs -> Locations]
    BY <1>3 DEF TypeOK, Open, Goto, Locations
  <2> QED
    BY <1>3, <2>2, <2>3 DEF TypeOK, Open
<1>4. ASSUME NEW p \in Procs, Write(p)
      PROVE  TypeOK'
  BY <1>4 DEF TypeOK, Write, Goto, Locations
<1>5. ASSUME NEW p \in Procs, WriteFails(p) \/ Release(p)
      PROVE  TypeOK'
  BY <1>5, FilesTyped DEF TypeOK, WriteFails, Release, Goto, Locations
<1>6. ASSUME NEW p \in Procs, Read(p)
      PROVE  TypeOK'
  BY <1>6 DEF TypeOK, Read, Goto, Locations
<1>7. ASSUME NEW p \in Procs, Check(p)
      PROVE  TypeOK'
  BY <1>7 DEF TypeOK, Check, Goto, Locations
<1>8. ASSUME NEW p \in Procs, Break(p)
      PROVE  TypeOK'
  <2>1. attempt[p] \in 0..MaxAttempts /\ attempt[p] < MaxAttempts
    BY <1>8 DEF TypeOK, AttemptsLeft, Break
  <2>2. attempt[p] + 1 \in 0..MaxAttempts
    BY <2>1
  <2>3. attempt' \in [Procs -> 0..MaxAttempts]
    BY <1>8, <2>2 DEF TypeOK, Break
  <2>4. pc' \in [Procs -> Locations]
    BY <1>8 DEF TypeOK, Break, Goto, Locations
  <2> QED
    BY <1>8, <2>3, <2>4, FilesTyped DEF TypeOK, Break
<1>9. ASSUME NEW p \in Procs, Die(p)
      PROVE  TypeOK'
  BY <1>9 DEF TypeOK, Die, Goto, Locations
<1> QED
  BY <1>1, <1>2, <1>3, <1>4, <1>5, <1>6, <1>7, <1>8, <1>9 DEF Next, Step

\* The last attempt ends the call.
LEMMA AttemptsStep == TypeOK /\ AttemptsLeft /\ [Next]_vars => AttemptsLeft'
<1> SUFFICES ASSUME TypeOK, AttemptsLeft, [Next]_vars
             PROVE  AttemptsLeft'
  OBVIOUS
<1> USE AttemptsArePositive DEF TypeOK, AttemptsLeft, Goto
<1>1. CASE UNCHANGED vars
  BY <1>1 DEF vars
<1>2. ASSUME NEW p \in Procs, Call(p)
      PROVE  AttemptsLeft'
  BY <1>2 DEF Call
<1>3. ASSUME NEW p \in Procs,
             Open(p) \/ Write(p) \/ WriteFails(p) \/ Read(p) \/ Check(p) \/ Release(p) \/ Die(p)
      PROVE  AttemptsLeft'
  BY <1>3 DEF Open, Write, WriteFails, Read, Check, Release, Die
<1>4. ASSUME NEW p \in Procs, Break(p)
      PROVE  AttemptsLeft'
  <2>1. attempt[p] \in 0..MaxAttempts /\ attempt[p] < MaxAttempts
    BY <1>4 DEF Break
  <2>2. pc'[p] = "opening" => attempt'[p] < MaxAttempts
    BY <1>4, <2>1 DEF Break
  <2>3. pc'[p] \in {"idle", "opening"}
    BY <1>4 DEF Break
  <2>4. \A q \in Procs \ {p} : pc'[q] = pc[q] /\ attempt'[q] = attempt[q]
    BY <1>4 DEF Break
  <2> QED
    BY <2>2, <2>3, <2>4
<1> QED
  BY <1>1, <1>2, <1>3, <1>4 DEF Next, Step

\* A pid that is being checked was read in a file that had one.
LEMMA PidsStep == TypeOK /\ PidsRead /\ [Next]_vars => PidsRead'
<1> SUFFICES ASSUME TypeOK, PidsRead, [Next]_vars
             PROVE  PidsRead'
  OBVIOUS
<1> USE DEF TypeOK, PidsRead, Goto
<1>1. CASE UNCHANGED vars
  BY <1>1 DEF vars
<1>2. ASSUME NEW p \in Procs, Call(p) \/ Open(p) \/ Write(p) \/ Die(p)
      PROVE  PidsRead'
  BY <1>2 DEF Call, Open, Write, Die
<1>3. ASSUME NEW p \in Procs, WriteFails(p) \/ Release(p) \/ Break(p)
      PROVE  PidsRead'
  BY <1>3 DEF WriteFails, Release, Break, NoFile
<1>4. ASSUME NEW p \in Procs, Read(p) \/ Check(p)
      PROVE  PidsRead'
  BY <1>4 DEF Read, Check
<1> QED
  BY <1>1, <1>2, <1>3, <1>4 DEF Next, Step

\* The dead stay dead and a blind break stays known, so that a state where
\* Owned says something comes from one where it did.
LEMMA HypothesisStands ==
  TypeOK /\ [Next]_vars /\ Dead' = {} /\ ~blind' => Dead = {} /\ ~blind
<1> SUFFICES ASSUME TypeOK, [Next]_vars, Dead' = {}, ~blind'
             PROVE  Dead = {} /\ ~blind
  OBVIOUS
<1>1. ~blind
  BY DEF Next, Step, vars, Call, Open, Write, WriteFails, Read, Check, Break, Release, Die
<1>2. ASSUME NEW p \in Procs, pc[p] = "dead"
      PROVE  pc'[p] = "dead"
  BY <1>2 DEF TypeOK, Next, Step, vars, Goto, Call, Open, Write, WriteFails, Read, Check, Break,
              Release, Die
<1> QED
  BY <1>1, <1>2 DEF Dead

\* The file stays with the process that created it.
LEMMA OwnedStep == IInv /\ [Next]_vars => Owned'
<1> SUFFICES ASSUME IInv, [Next]_vars, Dead' = {}, ~blind'
             PROVE  /\ \A p \in Procs : pc'[p] \in {"created", "holding"} => file'.by = p
                    /\ \A p \in Procs : pc'[p] = "holding" => file'.written
                    /\ \A p \in Procs : pc'[p] # "breaking"
  BY DEF Owned
<1>1. Dead = {} /\ ~blind
  BY HypothesisStands DEF IInv
<1>2. /\ \A p \in Procs : pc[p] \in {"created", "holding"} => file.by = p
      /\ \A p \in Procs : pc[p] = "holding" => file.written
      /\ \A p \in Procs : pc[p] # "breaking"
      /\ \A p \in Procs : pc[p] # "dead"
  BY <1>1 DEF IInv, Owned, Dead
<1> USE <1>2 DEF IInv, TypeOK, PidsRead, Goto
<1>3. CASE UNCHANGED vars
  BY <1>3 DEF vars
<1>4. ASSUME NEW p \in Procs, Call(p) \/ Die(p)
      PROVE  /\ \A q \in Procs : pc'[q] \in {"created", "holding"} => file'.by = q
             /\ \A q \in Procs : pc'[q] = "holding" => file'.written
             /\ \A q \in Procs : pc'[q] # "breaking"
  BY <1>4 DEF Call, Die
<1>5. ASSUME NEW p \in Procs, Open(p)
      PROVE  /\ \A q \in Procs : pc'[q] \in {"created", "holding"} => file'.by = q
             /\ \A q \in Procs : pc'[q] = "holding" => file'.written
             /\ \A q \in Procs : pc'[q] # "breaking"
  <2>1. CASE file = NoFile
    <3>1. \A q \in Procs : pc[q] \notin {"created", "holding"}
      BY <2>1, NobodyIsNoProcess DEF NoFile
    <3> QED
      BY <1>5, <2>1, <3>1 DEF Open
  <2>2. CASE file # NoFile
    BY <1>5, <2>2 DEF Open
  <2> QED
    BY <2>1, <2>2
<1>6. ASSUME NEW p \in Procs, Write(p)
      PROVE  /\ \A q \in Procs : pc'[q] \in {"created", "holding"} => file'.by = q
             /\ \A q \in Procs : pc'[q] = "holding" => file'.written
             /\ \A q \in Procs : pc'[q] # "breaking"
  BY <1>6 DEF Write
<1>7. ASSUME NEW p \in Procs, WriteFails(p) \/ Release(p)
      PROVE  /\ \A q \in Procs : pc'[q] \in {"created", "holding"} => file'.by = q
             /\ \A q \in Procs : pc'[q] = "holding" => file'.written
             /\ \A q \in Procs : pc'[q] # "breaking"
  <2>1. \A q \in Procs : pc[q] \in {"created", "holding"} => q = p
    BY <1>7 DEF WriteFails, Release
  <2> QED
    BY <1>7, <2>1 DEF WriteFails, Release
<1>8. ASSUME NEW p \in Procs, Read(p)
      PROVE  /\ \A q \in Procs : pc'[q] \in {"created", "holding"} => file'.by = q
             /\ \A q \in Procs : pc'[q] = "holding" => file'.written
             /\ \A q \in Procs : pc'[q] # "breaking"
  BY <1>8 DEF Read
<1>9. ASSUME NEW p \in Procs, Check(p)
      PROVE  /\ \A q \in Procs : pc'[q] \in {"created", "holding"} => file'.by = q
             /\ \A q \in Procs : pc'[q] = "holding" => file'.written
             /\ \A q \in Procs : pc'[q] # "breaking"
  BY <1>9 DEF Check
<1>10. ASSUME NEW p \in Procs, Break(p)
       PROVE  FALSE
  BY <1>10 DEF Break
<1> QED
  BY <1>3, <1>4, <1>5, <1>6, <1>7, <1>8, <1>9, <1>10 DEF Next, Step

\* The strengthened invariant.
THEOREM Invariant == Spec => []IInv
<1>1. IInv /\ [Next]_vars => IInv'
  BY TypeStep, AttemptsStep, PidsStep, OwnedStep DEF IInv
<1> QED
  BY InitEstablishes, <1>1, PTL DEF Spec

\* Every variable stays in its type.
THEOREM TypeCorrect == Spec => []TypeOK
<1>1. IInv => TypeOK
  BY DEF IInv
<1> QED
  BY Invariant, <1>1, PTL

\* acquireFileLock gives the lock to one process at a time, and leaves that
\* process's pid at the path, while nobody dies or breaks a file blindly.
THEOREM Exclusive == Spec => [](MutualExclusion /\ HolderIsSeen)
<1>1. IInv => MutualExclusion
  BY DEF IInv, Owned, MutualExclusion, Alone, Holders
<1>2. IInv => HolderIsSeen
  BY DEF IInv, TypeOK, Owned, HolderIsSeen, Holders
<1> QED
  BY Invariant, <1>1, <1>2, PTL
=============================================================================
