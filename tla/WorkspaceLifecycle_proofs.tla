---------------------- MODULE WorkspaceLifecycle_proofs ----------------------
(***************************************************************************)
(* The safety of a clone workspace, proved of WorkspaceLifecycle for any   *)
(* set of clients and every bound on operations and faults.                *)
(*                                                                         *)
(* The inductive invariant is in layers, each kept by a step that keeps    *)
(* the ones before it.                                                     *)
(*                                                                         *)
(* Typed: the types, and why the numbers stay within MaxOps: operations    *)
(* have numbers of their own (Apart), and no generation exceeds the count  *)
(* of those that are over (Counted).  Fenced: while nothing is deleted no  *)
(* operation is at the delete gate, and what starts has the spawn lock and *)
(* what lives the launch record (Guarded).  These hold whatever overlaps.  *)
(*                                                                         *)
(* The rest holds if clients wait for one another (patient): one operation *)
(* is in flight (Alone), one sandbox is up (Single), the entry is still    *)
(* what that operation took it for (Current), and the credential of the    *)
(* entry's binding is the only one, and not revoked (Vouched).  Reached,   *)
(* last, is what the operation in flight has heard of the sandboxes when   *)
(* nothing failed.                                                         *)
(*                                                                         *)
(* A lemma named ...Is says what an action does, in terms of the records   *)
(* that it puts; ...Typed, ...Acts, ...Settled and ...Knows carry the      *)
(* layers through it.                                                      *)
(***************************************************************************)
EXTENDS WorkspaceLifecycle, FiniteSetTheorems, TLAPS

-----------------------------------------------------------------------------
(* Types and numbers.                                                      *)

Entries == [exists: BOOLEAN, auth: {0} \cup Gens, desired: {"running", "stopped"},
            enr: Bindings, deletion: {"none", "deleting", "retry"},
            status: {"asleep", "ready", "error"},
            stage: {"none", "preparation", "runtime", "callback", "ready", "failed"}]
Recs == [kind: Kinds, pc: Places, num: {0} \cup Boxes, auth: {0} \cup Gens, bind: Bindings,
         desired: {"running", "stopped"}, gen: {0} \cup Gens, tok: {0} \cup Toks,
         reply: {"none"} \cup Answers]

\* Operations so far, and those of them that are over.
Issued == used.calls + used.restarts
Over == (1..Issued) \ {ops[o].num : o \in Slots}
Past == Cardinality(Over)

Placed == \A o \in Slots : ops[o] = Idle \/ (ops[o].pc # "idle" /\ ops[o].num \in 1..Issued)
Apart == \A o, p \in Slots : ops[o].num = ops[p].num /\ ops[o].num # 0 => o = p

\* An operation that is over raised the generation by one at most.
Counted ==
  /\ entry.auth <= Past
  /\ \A o \in Slots : ops[o].auth <= Past /\ ops[o].gen <= Past + 1
                      /\ (ops[o].pc = "inspect" => ops[o].auth # 0)

Numbered == Issued <= MaxOps /\ Placed /\ Apart /\ Counted

Typed == TypeOK /\ Numbered

LEMMA BoundsInNat == MaxOps \in Nat /\ MaxFaults \in Nat
BY MaxOpsIsNatural, MaxFaultsIsNatural

LEMMA TypeNames ==
  ASSUME TypeOK
  PROVE  /\ entry \in Entries /\ ops \in [Slots -> Recs]
         /\ handover \in Bindings /\ creds \in [Gens -> {0} \cup Toks] /\ revoked \subseteq Toks
         /\ Issued \in Nat /\ used.calls \in Nat /\ used.restarts \in Nat
         /\ box \in [Boxes -> [state: {"unborn", "starting", "live", "dead"},
                               gen: {0} \cup Gens, tok: {0} \cup Toks]]
         /\ pidfile \in {0} \cup Boxes /\ lock \in {0} \cup Boxes /\ paired \in {0} \cup Boxes
<1>1. used.calls \in Nat /\ used.restarts \in Nat
  BY BoundsInNat DEF TypeOK
<1> QED BY <1>1 DEF TypeOK, ProviderTypeOK, Entries, Recs, Issued

LEMMA IdleIsRec == Idle \in Recs /\ NoEntry \in Entries /\ Unbound \in Bindings
BY BoundsInNat DEF Idle, NoEntry, Recs, Entries, Kinds, Places, Bindings

LEMMA CountOfPart ==
  ASSUME NEW n \in Nat, NEW S \in SUBSET (1..n)
  PROVE  IsFiniteSet(S) /\ Cardinality(S) \in Nat /\ Cardinality(S) <= n
<1>1. IsFiniteSet(1..n) /\ Cardinality(1..n) = n
  BY FS_Interval
<1>2. IsFiniteSet(S) /\ Cardinality(S) <= Cardinality(1..n)
  BY <1>1, FS_Subset
<1> QED BY <1>1, <1>2, FS_CardinalityType

LEMMA PastIsCount ==
  ASSUME TypeOK
  PROVE  IsFiniteSet(Over) /\ Past \in Nat /\ Past <= Issued
<1>1. Issued \in Nat
  BY TypeNames
<1> QED BY <1>1, CountOfPart DEF Past, Over

\* Whoever is in flight leaves room for one more generation.
LEMMA RoomForOne ==
  ASSUME TypeOK, NEW o \in Slots, ops[o].num \in 1..Issued
  PROVE  Past + 1 <= Issued
<1>1. Issued \in Nat
  BY TypeNames
<1>2. IsFiniteSet(Over) /\ Past \in Nat
  BY PastIsCount
<1>3. ops[o].num \notin Over
  BY DEF Over
<1>4. Cardinality(Over \cup {ops[o].num}) = Past + 1
  BY <1>2, <1>3, FS_AddElement DEF Past
<1>5. Over \cup {ops[o].num} \in SUBSET (1..Issued)
  BY DEF Over
<1>6. Cardinality(Over \cup {ops[o].num}) <= Issued
  BY <1>1, <1>5, CountOfPart
<1> QED BY <1>4, <1>6

\* What is over stays over.
LEMMA PastGrows ==
  ASSUME TypeOK, Issued' \in Nat, Over \subseteq Over'
  PROVE  Past <= Past' /\ Past' \in Nat /\ Past \in Nat
<1>1. Over' \in SUBSET (1..Issued')
  BY DEF Over
<1>2. IsFiniteSet(Over') /\ Past' \in Nat
  BY <1>1, CountOfPart DEF Past
<1>3. Past <= Past'
  BY <1>2, FS_Subset DEF Past
<1> QED BY <1>2, <1>3, PastIsCount

\* One operation goes on.
LEMMA Goes ==
  ASSUME Typed, NEW o \in Slots, NEW r \in Recs,
         ops' = [ops EXCEPT ![o] = r], Issued' = Issued,
         ops[o] # Idle, r.pc # "idle", r.num = ops[o].num,
         r.auth <= Past, r.gen <= Past + 1, r.pc = "inspect" => r.auth # 0,
         entry'.auth <= Past
  PROVE  Numbered'
<1>1. /\ Issued \in Nat /\ ops \in [Slots -> Recs] /\ Numbered
  BY TypeNames DEF Typed
<1>2. \A p \in Slots : ops'[p] = IF p = o THEN r ELSE ops[p]
  BY <1>1
<1>3. \A p \in Slots : ops'[p].num = ops[p].num
  BY <1>2
<1>4. Over' = Over
  BY <1>3 DEF Over
<1>5. Past' = Past
  BY <1>4 DEF Past
<1>6. ops[o].num \in 1..Issued
  BY <1>1 DEF Numbered, Placed
<1>7. Placed' /\ Apart'
  BY <1>1, <1>2, <1>3, <1>6 DEF Numbered, Placed, Apart
<1>8. Counted'
  BY <1>1, <1>2, <1>5 DEF Numbered, Counted
<1> QED BY <1>1, <1>7, <1>8 DEF Numbered

\* One operation ends.
LEMMA Ends ==
  ASSUME Typed, NEW o \in Slots,
         ops' = [ops EXCEPT ![o] = Idle], Issued' = Issued, ops[o] # Idle,
         entry'.auth \in Nat, entry'.auth <= Past + 1
  PROVE  Numbered'
<1>1. Issued \in Nat /\ ops \in [Slots -> Recs] /\ Numbered /\ Past \in Nat /\ IsFiniteSet(Over)
  BY TypeNames, PastIsCount DEF Typed
<1>2. \A p \in Slots : ops'[p] = IF p = o THEN Idle ELSE ops[p]
  BY <1>1
<1>3. ops[o].num \in 1..Issued /\ Idle.num = 0 /\ Idle.auth = 0 /\ Idle.gen = 0 /\ Idle.pc = "idle"
  BY <1>1 DEF Numbered, Placed, Idle
<1>4. Over' = Over \cup {ops[o].num}
  <2>1. ASSUME NEW n \in 1..Issued PROVE n \in Over' <=> n \in Over \cup {ops[o].num}
    <3>1. n # 0
      BY <1>1
    <3> QED BY <1>1, <1>2, <1>3, <3>1 DEF Over, Numbered, Apart
  <2> QED BY <2>1, <1>1, <1>3 DEF Over
<1>5. Past' = Past + 1
  <2>1. ops[o].num \notin Over
    BY DEF Over
  <2> QED BY <1>1, <1>4, <2>1, FS_AddElement DEF Past
<1>6. Placed' /\ Apart'
  BY <1>1, <1>2, <1>3 DEF Numbered, Placed, Apart
<1>7. Counted'
  <2>1. \A p \in Slots : ops[p].auth \in Nat /\ ops[p].gen \in Nat
    BY <1>1, BoundsInNat DEF Recs, Gens, Boxes
  <2> QED BY <1>1, <1>2, <1>3, <1>5, <2>1 DEF Numbered, Counted
<1> QED BY <1>1, <1>6, <1>7 DEF Numbered

\* Somebody asks for one.
LEMMA Begins ==
  ASSUME Typed, NEW o \in Slots, NEW r \in Recs,
         ops' = [ops EXCEPT ![o] = r], Issued' = Issued + 1, Issued < MaxOps,
         ops[o] = Idle, r.pc # "idle", r.num = Issued + 1,
         r.auth <= Past, r.gen <= Past + 1, r.pc = "inspect" => r.auth # 0,
         entry'.auth <= Past
  PROVE  Numbered'
<1>1. Issued \in Nat /\ ops \in [Slots -> Recs] /\ Numbered /\ Past \in Nat /\ MaxOps \in Nat
  BY TypeNames, PastIsCount, BoundsInNat DEF Typed
<1>2. \A p \in Slots : ops'[p] = IF p = o THEN r ELSE ops[p]
  BY <1>1
<1>3. Idle.num = 0 /\ \A p \in Slots : ops[p].num \in 0..Issued
  BY <1>1 DEF Numbered, Placed, Idle
<1>4. Over' = Over
  BY <1>1, <1>2, <1>3 DEF Over
<1>5. Past' = Past
  BY <1>4 DEF Past
<1>6. Placed' /\ Apart'
  BY <1>1, <1>2, <1>3 DEF Numbered, Placed, Apart
<1>7. Counted'
  BY <1>1, <1>2, <1>5 DEF Numbered, Counted
<1> QED BY <1>1, <1>6, <1>7 DEF Numbered

\* What is asked for is done at once.
LEMMA Passes ==
  ASSUME Typed, ops' = ops, Issued' = Issued + 1, Issued < MaxOps, entry'.auth <= Past,
         entry'.auth \in Nat
  PROVE  Numbered'
<1>1. Issued \in Nat /\ ops \in [Slots -> Recs] /\ Numbered /\ Past \in Nat /\ MaxOps \in Nat
  BY TypeNames, PastIsCount, BoundsInNat DEF Typed
<1>2. Over \subseteq Over'
  BY <1>1 DEF Over
<1>3. Past <= Past' /\ Past' \in Nat
  BY <1>1, <1>2, PastGrows DEF Typed
<1>4. Placed' /\ Apart'
  BY <1>1 DEF Numbered, Placed, Apart
<1>5. Counted'
  <2>1. \A p \in Slots : ops[p].auth \in Nat /\ ops[p].gen \in Nat
    BY <1>1, BoundsInNat DEF Recs, Gens, Boxes
  <2> QED BY <1>1, <1>3, <2>1 DEF Numbered, Counted
<1> QED BY <1>1, <1>4, <1>5 DEF Numbered

\* Only what does not count changes.
LEMMA Rests ==
  ASSUME Numbered, UNCHANGED ops, Issued' = Issued, entry'.auth = entry.auth
  PROVE  Numbered'
<1>1. Past' = Past
  BY DEF Past, Over
<1> QED BY <1>1 DEF Numbered, Placed, Apart, Counted

-----------------------------------------------------------------------------
(* The records that operations make.                                       *)

LEMMA SnapshotFields ==
  ASSUME NEW k, NEW n, NEW au, NEW bi, NEW de
  PROVE  [Idle EXCEPT !.kind = k, !.num = n, !.auth = au, !.bind = bi, !.desired = de]
           = [kind |-> k, pc |-> "idle", num |-> n, auth |-> au, bind |-> bi, desired |-> de,
              gen |-> 0, tok |-> 0, reply |-> "none"]
<1> DEFINE R(x1, x2, x3, x4, x5) == [kind |-> x1, pc |-> "idle", num |-> x2, auth |-> x3, bind |-> x4,
                                     desired |-> x5, gen |-> 0, tok |-> 0, reply |-> "none"]
           a == [Idle EXCEPT !.kind = k]
           b == [a EXCEPT !.num = n]
           c == [b EXCEPT !.auth = au]
           d == [c EXCEPT !.bind = bi]
           e == [d EXCEPT !.desired = de]
<1>1. a = R(k, 0, 0, Unbound, "stopped")
  BY DEF Idle
<1>2. b = R(k, n, 0, Unbound, "stopped")
  <2> HIDE DEF a
  <2> QED BY <1>1
<1>3. c = R(k, n, au, Unbound, "stopped")
  <2> HIDE DEF b
  <2> QED BY <1>2
<1>4. d = R(k, n, au, bi, "stopped")
  <2> HIDE DEF c
  <2> QED BY <1>3
<1>5. e = R(k, n, au, bi, de)
  <2> HIDE DEF d
  <2> QED BY <1>4
<1> QED BY <1>5

LEMMA SnapshotIs ==
  ASSUME TypeOK, Issued < MaxOps, NEW kind \in Kinds
  PROVE  /\ Snapshot(kind) \in Recs
         /\ Snapshot(kind).num = Issued + 1 /\ Snapshot(kind).num \in Toks
         /\ Snapshot(kind).auth = entry.auth /\ Snapshot(kind).bind = entry.enr
         /\ Snapshot(kind).desired = entry.desired /\ Snapshot(kind).kind = kind
         /\ Snapshot(kind).gen = 0 /\ Snapshot(kind).pc = "idle" /\ Snapshot(kind).reply = "none"
<1>1. entry \in Entries /\ Issued \in Nat /\ MaxOps \in Nat
  BY TypeNames, BoundsInNat
<1>2. Issued + 1 \in Boxes
  BY <1>1 DEF Boxes
<1>3. Snapshot(kind) = [kind |-> kind, pc |-> "idle", num |-> Issued + 1, auth |-> entry.auth,
                        bind |-> entry.enr, desired |-> entry.desired, gen |-> 0, tok |-> 0,
                        reply |-> "none"]
  <2>1. Snapshot(kind) = [Idle EXCEPT !.kind = kind, !.num = Issued + 1, !.auth = entry.auth,
                                      !.bind = entry.enr, !.desired = entry.desired]
    BY DEF Snapshot, Issued
  <2> QED BY <2>1, SnapshotFields, Zenon
<1>4. Snapshot(kind) \in Recs
  BY <1>1, <1>2, <1>3 DEF Recs, Entries, Toks, Gens, Places
<1> QED BY <1>1, <1>2, <1>3, <1>4 DEF Toks

\* What is left to do after a record is changed in place and time.
LEMMA Moved ==
  ASSUME NEW rec \in Recs, NEW pc \in Places
  PROVE  /\ [rec EXCEPT !.pc = pc, !.reply = "none"] \in Recs
         /\ [rec EXCEPT !.pc = pc, !.reply = "none"].pc = pc
         /\ [rec EXCEPT !.pc = pc, !.reply = "none"].reply = "none"
         /\ [rec EXCEPT !.pc = pc, !.reply = "none"].num = rec.num
         /\ [rec EXCEPT !.pc = pc, !.reply = "none"].kind = rec.kind
         /\ [rec EXCEPT !.pc = pc, !.reply = "none"].auth = rec.auth
         /\ [rec EXCEPT !.pc = pc, !.reply = "none"].bind = rec.bind
         /\ [rec EXCEPT !.pc = pc, !.reply = "none"].gen = rec.gen
         /\ [rec EXCEPT !.pc = pc, !.reply = "none"].tok = rec.tok
BY DEF Recs

\* The record is put in its slot; nothing else of ops changes.
Turns(o, r) == r \in Recs /\ ops' = [ops EXCEPT ![o] = r]

\* The entry keeps its place, its generation and its deletion.
Alike(e, f) == e.exists = f.exists /\ e.auth = f.auth /\ e.deletion = f.deletion

LEMMA ClearedIs ==
  ASSUME NEW e \in Entries, NEW g
  PROVE  /\ Cleared(e, g) \in Entries /\ Alike(Cleared(e, g), e)
         /\ Cleared(e, g).enr = IF e.enr.gen = g THEN Unbound ELSE e.enr
BY IdleIsRec DEF Cleared, Alike, Entries

LEMMA FailedIs ==
  ASSUME NEW e \in Entries, NEW kind
  PROVE  /\ Failed(e, kind) \in Entries /\ Alike(Failed(e, kind), e)
         /\ Failed(e, kind).enr = e.enr
BY DEF Failed, Alike, Entries

LEMMA ParkedIs ==
  ASSUME NEW e \in Entries
  PROVE  Parked(e) \in Entries /\ Alike(Parked(e), e) /\ Parked(e).enr = e.enr
BY DEF Parked, Alike, Entries

LEMMA RevokeIs ==
  ASSUME TypeOK, NEW gens, Revoke(gens)
  PROVE  creds' \in [Gens -> {0} \cup Toks] /\ revoked' \subseteq Toks /\ paired' \in {0} \cup Boxes
BY TypeNames DEF Revoke, Enrolled

\* A binding is made, or the operation ends where it stood.
Binds(o, rec, e, gen, tok) ==
  /\ e.exists /\ creds[gen] \in {0, tok}
  /\ handover' = [gen |-> gen, tok |-> tok]
  /\ entry' \in Entries /\ Alike(entry', e) /\ entry'.enr = handover'
  /\ \E r \in Recs : /\ Turns(o, r) /\ r.pc = "ensure" /\ r.reply = "none"
                     /\ r.num = rec.num /\ r.auth = rec.auth
                     /\ r.gen = gen /\ r.tok = tok

Refuses(o, rec, e, gen, tok) ==
  /\ ~(e.exists /\ creds[gen] \in {0, tok})
  /\ UNCHANGED handover
  /\ entry' \in Entries /\ Alike(entry', e)
  /\ e.exists => entry'.enr = IF rec.auth # 0 /\ gen > rec.auth /\ e.enr.gen = rec.auth
                              THEN Unbound ELSE e.enr
  /\ ~e.exists => entry' = e
  /\ Turns(o, Idle)

LEMMA EnrollIs ==
  ASSUME TypeOK, NEW o \in Slots, NEW rec \in Recs, NEW e \in Entries,
         NEW gen \in Gens, NEW tok \in Toks, Enroll(o, rec, e, gen, tok)
  PROVE  /\ Binds(o, rec, e, gen, tok) \/ Refuses(o, rec, e, gen, tok)
         /\ creds' \in [Gens -> {0} \cup Toks] /\ revoked' \subseteq Toks
         /\ paired' \in {0} \cup Boxes /\ handover' \in Bindings
<1> DEFINE bumped == IF rec.auth # 0 /\ gen > rec.auth THEN {rec.auth} ELSE {}
           base   == IF bumped = {} THEN e ELSE Cleared(e, rec.auth)
           taken  == creds[gen] \notin {0, tok}
           bears  == [rec EXCEPT !.gen = gen, !.tok = tok]
           r      == [bears EXCEPT !.pc = "ensure", !.reply = "none"]
<1>1. creds \in [Gens -> {0} \cup Toks] /\ revoked \subseteq Toks /\ handover \in Bindings
      /\ paired \in {0} \cup Boxes
  BY TypeNames
<1>2. /\ revoked' = revoked \cup {creds[g] : g \in bumped \cap Enrolled}
      /\ paired' = IF paired # 0 /\ box[paired].gen \in bumped THEN 0 ELSE paired
      /\ creds' = [g \in Gens |-> IF g \in bumped THEN 0
                                  ELSE IF g = gen /\ ~taken /\ (e.exists \/ bumped = {}) THEN tok
                                  ELSE creds[g]]
  BY DEF Enroll
<1>3. creds' \in [Gens -> {0} \cup Toks] /\ revoked' \subseteq Toks /\ paired' \in {0} \cup Boxes
  BY <1>1, <1>2 DEF Enrolled
<1>4. base \in Entries /\ Alike(base, e)
      /\ base.enr = IF rec.auth # 0 /\ gen > rec.auth /\ e.enr.gen = rec.auth THEN Unbound ELSE e.enr
  BY ClearedIs DEF Alike
<1>5. CASE e.exists /\ ~taken
  <2>1. /\ handover' = [gen |-> gen, tok |-> tok] /\ entry' = [base EXCEPT !.enr = handover']
        /\ Await(o, bears, "ensure")
    BY <1>5 DEF Enroll
  <2>2. handover' \in Bindings
    BY <2>1 DEF Bindings
  <2>3. entry' \in Entries /\ Alike(entry', base) /\ entry'.enr = handover'
    <3> HIDE DEF base
    <3> QED BY <1>4, <2>1, <2>2 DEF Alike, Entries
  <2>4. /\ bears \in Recs /\ bears.gen = gen /\ bears.tok = tok
        /\ bears.num = rec.num /\ bears.auth = rec.auth
    BY DEF Recs
  <2>5. /\ r \in Recs /\ r.pc = "ensure" /\ r.reply = "none" /\ r.num = rec.num
        /\ r.auth = rec.auth /\ r.gen = gen /\ r.tok = tok
    <3>1. "ensure" \in Places
      BY DEF Places, Awaiting
    <3> HIDE DEF bears
    <3> QED BY <2>4, <3>1, Moved
  <2>6. Turns(o, r)
    BY <2>1, <2>5 DEF Await, Put, Turns
  <2>7. Alike(entry', e)
    BY <1>4, <2>3 DEF Alike
  <2> HIDE DEF r
  <2>8. Binds(o, rec, e, gen, tok)
    BY <1>5, <2>1, <2>3, <2>5, <2>6, <2>7 DEF Binds
  <2> QED BY <1>3, <2>2, <2>8
<1>6. CASE ~(e.exists /\ ~taken)
  <2>1. /\ entry' = IF e.exists THEN Failed(base, rec.kind) ELSE e
        /\ Turns(o, Idle) /\ UNCHANGED handover
    BY <1>6, IdleIsRec DEF Enroll, End, Put, Turns
  <2>2. Failed(base, rec.kind) \in Entries /\ Alike(Failed(base, rec.kind), base)
        /\ Failed(base, rec.kind).enr = base.enr
    BY <1>4, FailedIs
  <2>3. Alike(entry', e) /\ entry' \in Entries
    BY <1>4, <2>1, <2>2 DEF Alike
  <2>4. Refuses(o, rec, e, gen, tok)
    BY <1>4, <1>6, <2>1, <2>2, <2>3 DEF Refuses
  <2> QED BY <1>1, <1>3, <2>1, <2>4
<1> QED BY <1>5, <1>6

\* #ensure: a first binding, or a look at what runs.
Looks(o, rec) ==
  /\ rec.auth # 0
  /\ UNCHANGED <<credVars, handover>>
  /\ entry' \in Entries /\ Alike(entry', entry) /\ entry'.enr = entry.enr
  /\ \E r \in Recs : /\ Turns(o, r) /\ r.pc = "inspect" /\ r.reply = "none"
                     /\ r.num = rec.num /\ r.auth = rec.auth /\ r.bind = rec.bind
                     /\ r.gen = rec.gen

LEMMA EnsureIs ==
  ASSUME TypeOK, NEW o \in Slots, NEW rec \in Recs, rec.num \in Toks, Ensure(o, rec)
  PROVE  /\ creds' \in [Gens -> {0} \cup Toks] /\ revoked' \subseteq Toks
         /\ paired' \in {0} \cup Boxes /\ handover' \in Bindings
         /\ \/ rec.auth = 0 /\ \E e \in Entries : /\ Alike(e, entry) /\ e.enr = entry.enr
                                                  /\ Enroll(o, rec, e, 1, rec.num)
            \/ Looks(o, rec)
<1> DEFINE e == [entry EXCEPT !.stage = "runtime"]
           r == [rec EXCEPT !.pc = "inspect", !.reply = "none"]
<1>1. e \in Entries /\ Alike(e, entry) /\ e.enr = entry.enr
  BY TypeNames DEF Entries, Alike
<1>2. 1 \in Gens
  BY BoundsInNat DEF Toks, Gens, Boxes
<1>3. CASE rec.auth = 0
  <2>1. Enroll(o, rec, e, 1, rec.num)
    BY <1>3 DEF Ensure
  <2> HIDE DEF e
  <2> QED BY <1>1, <1>2, <1>3, <2>1, EnrollIs
<1>4. CASE rec.auth # 0
  <2>1. entry' = e /\ Await(o, rec, "inspect") /\ UNCHANGED <<credVars, handover>>
    BY <1>4 DEF Ensure
  <2>2. /\ r \in Recs /\ r.pc = "inspect" /\ r.reply = "none" /\ r.num = rec.num
        /\ r.auth = rec.auth /\ r.bind = rec.bind /\ r.gen = rec.gen
    BY DEF Recs, Places, Awaiting
  <2>3. ops' = [ops EXCEPT ![o] = r]
    BY <2>1 DEF Await, Put
  <2> HIDE DEF e, r
  <2>4. Looks(o, rec)
    BY <1>1, <1>4, <2>1, <2>2, <2>3 DEF Looks, Turns
  <2> QED BY <2>1, <2>4, TypeNames DEF credVars
<1> QED BY <1>3, <1>4

-----------------------------------------------------------------------------
(* What the bounds count.                                                  *)

Spent == [calls: 0..MaxOps, restarts: 0..MaxFaults, failures: 0..MaxFaults, deaths: 0..MaxFaults]

LEMMA AskedIs ==
  ASSUME TypeOK, NEW o, Asked(o)
  PROVE  /\ used' \in Spent /\ used'.calls = used.calls + 1
         /\ used'.restarts = used.restarts /\ used'.failures = used.failures
         /\ used'.deaths = used.deaths
         /\ Issued' = Issued + 1 /\ Issued < MaxOps /\ Issued \in Nat
         /\ o \in Slots /\ ops[o] = Idle
<1>1. used \in Spent /\ used.calls \in Nat /\ used.restarts \in Nat /\ MaxOps \in Nat
  BY BoundsInNat DEF TypeOK, Spent
<1>2. used.calls + used.restarts < MaxOps /\ used' = [used EXCEPT !.calls = used.calls + 1]
  BY DEF Asked, OneMoreOp
<1>3. PICK n \in 0..MaxOps : n = used.calls + 1
  BY <1>1, <1>2
<1>4. used' = [used EXCEPT !.calls = n]
  BY <1>2, <1>3
<1>5. used' \in Spent /\ used'.calls = n /\ used'.restarts = used.restarts
      /\ used'.failures = used.failures /\ used'.deaths = used.deaths
  BY <1>1, <1>4 DEF Spent
<1>6. o \in Slots /\ ops[o] = Idle
  BY SlotsAreClientsAndBoot DEF Asked
<1> QED BY <1>1, <1>2, <1>3, <1>5, <1>6 DEF Issued

LEMMA FailureIs ==
  ASSUME TypeOK, OneMoreFailure
  PROVE  /\ used' \in Spent /\ used'.calls = used.calls /\ used'.restarts = used.restarts
         /\ used'.failures # 0 /\ Issued' = Issued
<1>1. used \in Spent /\ used.failures \in Nat /\ MaxFaults \in Nat /\ used.deaths \in Nat
      /\ used.restarts \in Nat
  BY BoundsInNat DEF TypeOK, Spent
<1>2. /\ used.restarts + used.failures + used.deaths < MaxFaults
      /\ used' = [used EXCEPT !.failures = used.failures + 1]
  BY DEF OneMoreFailure, OneMoreFault
<1>3. PICK n \in 0..MaxFaults : n = used.failures + 1
  BY <1>1, <1>2
<1>4. used' = [used EXCEPT !.failures = n]
  BY <1>2, <1>3
<1>5. used' \in Spent /\ used'.calls = used.calls /\ used'.restarts = used.restarts
      /\ used'.failures = n
  BY <1>1, <1>4 DEF Spent
<1> QED BY <1>1, <1>3, <1>5 DEF Issued

Watching == {"off", "on", "inspecting"} \cup Answers
Sandboxes == [Boxes -> [state: {"unborn", "starting", "live", "dead"}, gen: {0} \cup Gens,
                        tok: {0} \cup Toks]]

LEMMA TypedAgain ==
  ASSUME entry' \in Entries, ops' \in [Slots -> Recs],
         handover' \in Bindings, creds' \in [Gens -> {0} \cup Toks], revoked' \subseteq Toks,
         paired' \in {0} \cup Boxes, box' \in Sandboxes,
         pidfile' \in {0} \cup Boxes, lock' \in {0} \cup Boxes, gate' \in GateStates,
         watcher' \in Watching, ahead' \in BOOLEAN, patient' \in BOOLEAN, used' \in Spent
  PROVE  TypeOK'
BY DEF TypeOK, ProviderTypeOK, Entries, Recs, Watching, Sandboxes, Spent

\* What the service does leaves the sandboxes alone.
LEMMA ServiceTyped ==
  ASSUME TypeOK, NEW o, NEW r, Turns(o, r), entry' \in Entries, handover' \in Bindings,
         creds' \in [Gens -> {0} \cup Toks], revoked' \subseteq Toks, paired' \in {0} \cup Boxes,
         gate' \in GateStates, watcher' \in Watching, ahead' \in BOOLEAN, used' \in Spent,
         UNCHANGED <<runVars, patient>>
  PROVE  TypeOK'
<1>1. ops' \in [Slots -> Recs]
  BY TypeNames DEF Turns
<1>2. box' \in Sandboxes /\ pidfile' \in {0} \cup Boxes /\ lock' \in {0} \cup Boxes
      /\ patient' \in BOOLEAN
  BY TypeNames DEF TypeOK, runVars, Sandboxes
<1> QED BY <1>1, <1>2, TypedAgain

LEMMA KeptTyped ==
  ASSUME TypeOK
  PROVE  /\ UNCHANGED entry => entry' \in Entries
         /\ UNCHANGED handover => handover' \in Bindings
         /\ UNCHANGED credVars => /\ creds' \in [Gens -> {0} \cup Toks] /\ revoked' \subseteq Toks
                                  /\ paired' \in {0} \cup Boxes
         /\ UNCHANGED creds => creds' \in [Gens -> {0} \cup Toks]
         /\ UNCHANGED revoked => revoked' \subseteq Toks
         /\ UNCHANGED paired => paired' \in {0} \cup Boxes
         /\ UNCHANGED gate => gate' \in GateStates
         /\ UNCHANGED watcher => watcher' \in Watching
         /\ UNCHANGED ahead => ahead' \in BOOLEAN
         /\ UNCHANGED patient => patient' \in BOOLEAN
         /\ UNCHANGED used => used' \in Spent /\ Issued' = Issued
         /\ UNCHANGED ops => ops' \in [Slots -> Recs]
         /\ UNCHANGED box => box' \in Sandboxes
         /\ UNCHANGED pidfile => pidfile' \in {0} \cup Boxes
         /\ UNCHANGED lock => lock' \in {0} \cup Boxes
BY TypeNames DEF TypeOK, credVars, Watching, Spent, Issued, Sandboxes

-----------------------------------------------------------------------------
(* Types and numbers are kept: the service.                                *)

\* What is known of an operation in flight.
Flying(o) ==
  /\ ops[o] \in Recs /\ ops[o] # Idle
  /\ ops[o].num \in 1..Issued /\ ops[o].num \in Toks
  /\ Past + 1 <= Issued /\ Past + 1 <= MaxOps /\ Past \in Nat
  /\ ops[o].auth <= Past /\ ops[o].gen <= Past + 1 /\ ops[o].auth \in Nat /\ ops[o].gen \in Nat
  /\ entry.auth <= Past /\ entry.auth \in Nat /\ entry \in Entries

LEMMA InFlight ==
  ASSUME Typed, NEW o \in Slots, ops[o].pc # "idle"
  PROVE  Flying(o)
<1>1. ops[o] \in Recs /\ Numbered /\ Issued \in Nat /\ MaxOps \in Nat /\ TypeOK /\ entry \in Entries
  BY TypeNames, BoundsInNat DEF Typed
<1>2. ops[o] # Idle
  BY DEF Idle
<1>3. ops[o].num \in 1..Issued /\ Issued <= MaxOps
  BY <1>1, <1>2 DEF Numbered, Placed
<1>4. Past + 1 <= Issued /\ Past \in Nat
  BY <1>1, <1>3, RoomForOne, PastIsCount
<1>5. ops[o].auth \in Nat /\ ops[o].gen \in Nat /\ entry.auth \in Nat
  BY <1>1 DEF Recs, Entries, Gens, Boxes
<1>6. ops[o].num \in Toks
  BY <1>1, <1>3 DEF Toks, Boxes
<1> QED BY <1>1, <1>2, <1>3, <1>4, <1>5, <1>6 DEF Numbered, Counted, Flying

LEMMA EnrollNumbered ==
  ASSUME Typed, NEW o \in Slots, ops[o].pc # "idle",
         NEW rec \in Recs, rec.num = ops[o].num, rec.auth <= Past,
         NEW e \in Entries, Alike(e, entry),
         NEW gen \in Gens, gen <= Past + 1, NEW tok \in Toks, Enroll(o, rec, e, gen, tok),
         Issued' = Issued
  PROVE  Numbered'
<1>1. Binds(o, rec, e, gen, tok) \/ Refuses(o, rec, e, gen, tok)
  BY EnrollIs DEF Typed
<1>2. Flying(o)
  BY InFlight
<1>3. entry'.auth = entry.auth
  BY <1>1 DEF Binds, Refuses, Alike
<1>4. CASE Binds(o, rec, e, gen, tok)
  <2>1. PICK r \in Recs : /\ Turns(o, r) /\ r.pc = "ensure" /\ r.num = rec.num
                          /\ r.auth = rec.auth /\ r.gen = gen
    BY <1>4 DEF Binds
  <2> QED BY <1>2, <1>3, <2>1, Goes DEF Turns, Flying
<1>5. CASE Refuses(o, rec, e, gen, tok)
  <2>1. Turns(o, Idle)
    BY <1>5 DEF Refuses
  <2>2. entry'.auth \in Nat /\ entry'.auth <= Past + 1 /\ ops[o] # Idle
    BY <1>2, <1>3 DEF Flying
  <2> QED BY <2>1, <2>2, Ends DEF Turns
<1> QED BY <1>1, <1>4, <1>5

LEMMA GiveUpIs ==
  ASSUME TypeOK, NEW o, NEW e \in Entries, GiveUp(o, e)
  PROVE  /\ Turns(o, Idle) /\ entry' \in Entries /\ Alike(entry', e) /\ entry'.enr = e.enr
         /\ UNCHANGED <<credVars, handover>>
BY FailedIs, IdleIsRec DEF GiveUp, End, Put, Turns

LEMMA AwaitIs ==
  ASSUME NEW o, NEW rec \in Recs, NEW pc \in Places, Await(o, rec, pc)
  PROVE  \E r \in Recs : /\ Turns(o, r) /\ r.pc = pc /\ r.reply = "none" /\ r.num = rec.num
                         /\ r.auth = rec.auth /\ r.bind = rec.bind /\ r.gen = rec.gen
                         /\ r.tok = rec.tok
<1> DEFINE r == [rec EXCEPT !.pc = pc, !.reply = "none"]
<1>1. /\ r \in Recs /\ r.pc = pc /\ r.reply = "none" /\ r.num = rec.num
      /\ r.auth = rec.auth /\ r.bind = rec.bind /\ r.gen = rec.gen /\ r.tok = rec.tok
  BY DEF Recs
<1>2. Turns(o, r)
  BY <1>1 DEF Await, Put, Turns
<1> HIDE DEF r
<1> QED BY <1>1, <1>2

\* What an answered look leads to.
LEMMA InspectedIs ==
  ASSUME Typed, NEW o \in Slots, Inspected(o)
  PROVE  /\ ops[o].pc = "inspect" /\ ops[o].reply # "none" /\ ops[o].auth # 0
         /\ UNCHANGED <<gate, watcher, runVars, ahead, patient, used>>
         /\ \/ /\ ops[o].reply = "running" /\ Reusable(ops[o]) /\ handover.tok \in Toks
               /\ ops[o].auth \in Gens
               /\ Enroll(o, ops[o], entry, ops[o].auth, handover.tok)
            \/ /\ entry.exists /\ Await(o, ops[o], "replace")
               /\ UNCHANGED <<entry, credVars, handover>>
            \/ /\ ops[o].reply \in {"stopped", "missing"} /\ ops[o].auth + 1 \in Gens
               /\ Enroll(o, ops[o], entry, ops[o].auth + 1, ops[o].num)
            \/ GiveUp(o, entry)
<1>1. ops[o].pc = "inspect" /\ ops[o].reply # "none"
      /\ UNCHANGED <<gate, watcher, runVars, ahead, patient, used>>
  BY DEF Inspected, Answered
<1>2. Flying(o)
  BY <1>1, InFlight
<1>3. ops[o].auth # 0 /\ ops[o].auth \in Gens /\ ops[o].auth + 1 \in Gens
  BY <1>1, <1>2, BoundsInNat DEF Typed, Numbered, Counted, Recs, Gens, Boxes, Flying
<1>4. ASSUME Reusable(ops[o]) PROVE handover.tok \in Toks
  BY <1>3, <1>4, TypeNames DEF Reusable, Typed, Bindings, Unbound
<1>5. \/ /\ ops[o].reply = "running" /\ Reusable(ops[o])
         /\ Enroll(o, ops[o], entry, ops[o].auth, handover.tok)
      \/ /\ entry.exists /\ Await(o, ops[o], "replace")
         /\ UNCHANGED <<entry, credVars, handover>>
      \/ /\ ops[o].reply \in {"stopped", "missing"}
         /\ Enroll(o, ops[o], entry, ops[o].auth + 1, ops[o].num)
      \/ GiveUp(o, entry)
  BY DEF Inspected
<1> QED BY <1>1, <1>3, <1>4, <1>5

\* A turn of the service keeps the numbers if it goes on or ends.
LEMMA EndNumbered ==
  ASSUME Typed, NEW o \in Slots, ops[o].pc # "idle", Turns(o, Idle), Issued' = Issued,
         entry'.auth \in {0, entry.auth, ops[o].gen}
  PROVE  Numbered'
<1>1. Flying(o)
  BY InFlight
<1>2. entry'.auth \in Nat /\ entry'.auth <= Past + 1 /\ ops[o] # Idle
  BY <1>1 DEF Flying
<1> QED BY <1>2, Ends DEF Turns

LEMMA GoNumbered ==
  ASSUME Typed, NEW o \in Slots, ops[o].pc # "idle", NEW r, Turns(o, r), Issued' = Issued,
         r.pc \notin {"idle", "inspect"}, r.num = ops[o].num, r.auth = ops[o].auth,
         r.gen \in {ops[o].gen, entry.auth}, entry'.auth = entry.auth
  PROVE  Numbered'
<1>1. Flying(o)
  BY InFlight
<1>2. r \in Recs /\ r.auth <= Past /\ r.gen <= Past + 1 /\ entry'.auth <= Past
  BY <1>1 DEF Flying, Turns
<1> QED BY <1>1, <1>2, Goes DEF Turns, Flying

\* What only the operations, the entry, the credentials and the hand-over see.
Inside == UNCHANGED <<gate, watcher, runVars, ahead, patient, used>>

LEMMA InsideTyped ==
  ASSUME Typed, NEW o \in Slots, NEW r, Turns(o, r), Inside, entry' \in Entries,
         handover' \in Bindings, creds' \in [Gens -> {0} \cup Toks], revoked' \subseteq Toks,
         paired' \in {0} \cup Boxes
  PROVE  TypeOK'
<1>1. TypeOK /\ used' \in Spent /\ gate' \in GateStates /\ watcher' \in Watching
      /\ ahead' \in BOOLEAN
  BY KeptTyped DEF Typed, Inside
<1> QED BY <1>1, ServiceTyped DEF Inside

LEMMA EnrollTyped ==
  ASSUME Typed, NEW o \in Slots, ops[o].pc # "idle", Inside,
         NEW rec \in Recs, rec.num = ops[o].num, rec.auth <= Past,
         NEW e \in Entries, Alike(e, entry),
         NEW gen \in Gens, gen <= Past + 1, NEW tok \in Toks, Enroll(o, rec, e, gen, tok)
  PROVE  Typed'
<1>1. /\ creds' \in [Gens -> {0} \cup Toks] /\ revoked' \subseteq Toks
      /\ paired' \in {0} \cup Boxes /\ handover' \in Bindings
      /\ Binds(o, rec, e, gen, tok) \/ Refuses(o, rec, e, gen, tok)
  BY EnrollIs DEF Typed
<1>2. PICK r : Turns(o, r)
  BY <1>1 DEF Binds, Refuses
<1>3. entry' \in Entries
  BY <1>1 DEF Binds, Refuses
<1>4. TypeOK'
  BY <1>1, <1>2, <1>3, InsideTyped
<1>5. Issued' = Issued
  BY DEF Inside, Issued
<1>6. Numbered'
  BY <1>5, EnrollNumbered
<1> QED BY <1>4, <1>6 DEF Typed

LEMMA GiveUpTyped ==
  ASSUME Typed, NEW o \in Slots, ops[o].pc # "idle", Inside,
         NEW e \in Entries, Alike(e, entry), GiveUp(o, e)
  PROVE  Typed'
<1>1. /\ Turns(o, Idle) /\ entry' \in Entries /\ Alike(entry', e)
      /\ UNCHANGED <<credVars, handover>>
  BY GiveUpIs DEF Typed
<1>2. TypeOK'
  BY <1>1, InsideTyped, KeptTyped DEF Typed
<1>3. Issued' = Issued /\ entry'.auth = entry.auth
  BY <1>1 DEF Inside, Issued, Alike
<1>4. Numbered'
  BY <1>1, <1>3, EndNumbered
<1> QED BY <1>2, <1>4 DEF Typed

LEMMA EnsureTyped ==
  ASSUME Typed, NEW o \in Slots, ops[o].pc # "idle", Inside,
         NEW rec \in Recs, rec.num = ops[o].num, rec.auth = entry.auth, rec.gen = ops[o].gen,
         Ensure(o, rec)
  PROVE  Typed'
<1>1. Flying(o) /\ TypeOK
  BY InFlight DEF Typed
<1>2. rec.num \in Toks /\ rec.auth <= Past
  BY <1>1 DEF Flying
<1>3. ASSUME NEW e \in Entries, Alike(e, entry), Enroll(o, rec, e, 1, rec.num)
      PROVE  Typed'
  <2>1. 1 \in Gens /\ 1 <= Past + 1
    BY <1>1, <1>2, BoundsInNat DEF Flying, Toks, Gens, Boxes
  <2> QED BY <1>2, <1>3, <2>1, EnrollTyped
<1>4. CASE Looks(o, rec)
  <2>1. PICK r \in Recs : /\ Turns(o, r) /\ r.pc = "inspect" /\ r.num = rec.num
                          /\ r.auth = rec.auth /\ r.gen = rec.gen
    BY <1>4 DEF Looks
  <2>2. /\ entry' \in Entries /\ entry'.auth = entry.auth /\ rec.auth # 0
        /\ UNCHANGED <<credVars, handover>>
    BY <1>4 DEF Looks, Alike
  <2>3. TypeOK'
    BY <1>1, <2>1, <2>2, InsideTyped, KeptTyped
  <2>4. Issued' = Issued
    BY DEF Inside, Issued
  <2>5. Numbered'
    BY <1>1, <1>2, <2>1, <2>2, <2>4, Goes DEF Flying, Turns
  <2> QED BY <2>3, <2>5 DEF Typed
<1> QED BY <1>1, <1>2, <1>3, <1>4, EnsureIs

LEMMA InspectedTyped ==
  ASSUME Typed, NEW o \in Slots, Inspected(o)
  PROVE  Typed'
<1>1. ops[o].pc = "inspect" /\ Flying(o) /\ TypeOK /\ Inside
  BY InspectedIs, InFlight DEF Typed, Inside
<1>2. ops[o] \in Recs /\ ops[o].auth <= Past /\ ops[o].auth <= Past + 1
      /\ ops[o].auth + 1 <= Past + 1 /\ ops[o].num \in Toks /\ entry \in Entries
      /\ Alike(entry, entry)
  BY <1>1 DEF Flying, Alike
<1>3. CASE /\ handover.tok \in Toks /\ ops[o].auth \in Gens
           /\ Enroll(o, ops[o], entry, ops[o].auth, handover.tok)
  BY <1>1, <1>2, <1>3, EnrollTyped
<1>4. CASE ops[o].auth + 1 \in Gens /\ Enroll(o, ops[o], entry, ops[o].auth + 1, ops[o].num)
  <2>1. PICK g \in Gens : g = ops[o].auth + 1
    BY <1>4
  <2> QED BY <1>1, <1>2, <1>4, <2>1, EnrollTyped
<1>5. CASE Await(o, ops[o], "replace") /\ UNCHANGED <<entry, credVars, handover>>
  <2>1. PICK r \in Recs : /\ Turns(o, r) /\ r.pc = "replace" /\ r.num = ops[o].num
                          /\ r.auth = ops[o].auth /\ r.gen = ops[o].gen
    BY <1>2, <1>5, AwaitIs DEF Places, Awaiting
  <2>2. TypeOK'
    BY <1>1, <1>5, <2>1, InsideTyped, KeptTyped
  <2>3. Issued' = Issued
    BY <1>1 DEF Inside, Issued
  <2>4. Numbered'
    BY <1>1, <1>5, <2>1, <2>3, GoNumbered
  <2> QED BY <2>2, <2>4 DEF Typed
<1>6. CASE GiveUp(o, entry)
  BY <1>1, <1>2, <1>6, GiveUpTyped
<1> QED BY <1>3, <1>4, <1>5, <1>6, InspectedIs

LEMMA ReplacedIs ==
  ASSUME Typed, NEW o \in Slots, Replaced(o)
  PROVE  /\ ops[o].pc = "replace" /\ ops[o].reply # "none" /\ Inside
         /\ \/ GiveUp(o, entry)
            \/ /\ ops[o].reply # "failed" /\ ops[o].auth + 1 \in Gens
               /\ Enroll(o, ops[o], entry, ops[o].auth + 1, ops[o].num)
<1>1. ops[o].pc = "replace" /\ ops[o].reply # "none" /\ Inside
  BY DEF Replaced, Answered, Inside
<1>2. Flying(o)
  BY <1>1, InFlight
<1>3. ops[o].auth + 1 \in Gens
  BY <1>2, BoundsInNat DEF Flying, Gens, Boxes
<1> QED BY <1>1, <1>3 DEF Replaced

LEMMA ReplacedTyped ==
  ASSUME Typed, NEW o \in Slots, Replaced(o)
  PROVE  Typed'
<1>1. ops[o].pc = "replace" /\ Flying(o) /\ Inside
  BY ReplacedIs, InFlight
<1>2. ops[o] \in Recs /\ ops[o].auth <= Past
      /\ ops[o].auth + 1 <= Past + 1 /\ ops[o].num \in Toks /\ entry \in Entries
      /\ Alike(entry, entry)
  BY <1>1 DEF Flying, Alike
<1>3. CASE ops[o].auth + 1 \in Gens /\ Enroll(o, ops[o], entry, ops[o].auth + 1, ops[o].num)
  <2>1. PICK g \in Gens : g = ops[o].auth + 1
    BY <1>3
  <2> QED BY <1>1, <1>2, <1>3, <2>1, EnrollTyped
<1>4. CASE GiveUp(o, entry)
  BY <1>1, <1>2, <1>4, GiveUpTyped
<1> QED BY <1>3, <1>4, ReplacedIs

\* The answer to ensure-running.
Upped(o) ==
  /\ ops[o].reply = "running" /\ entry.exists /\ UNCHANGED credVars
  /\ entry' \in Entries /\ entry'.enr = entry.enr /\ entry'.exists = entry.exists
  /\ entry'.deletion = entry.deletion /\ entry'.auth = ops[o].gen

Dropped(o) ==
  /\ ~(ops[o].reply = "running" /\ entry.exists) /\ Revoke({ops[o].gen})
  /\ entry' \in Entries /\ Alike(entry', entry)
  /\ entry'.enr = IF entry.enr.gen = ops[o].gen THEN Unbound ELSE entry.enr

LEMMA EnsuredIs ==
  ASSUME Typed, NEW o \in Slots, Ensured(o)
  PROVE  /\ ops[o].pc = "ensure" /\ ops[o].reply # "none"
         /\ Turns(o, Idle) /\ watcher' \in Watching
         /\ UNCHANGED <<gate, providerVars, ahead, patient, used>>
         /\ Upped(o) \/ Dropped(o)
<1>1. /\ ops[o].pc = "ensure" /\ ops[o].reply # "none" /\ Turns(o, Idle)
      /\ UNCHANGED <<gate, providerVars, ahead, patient, used>>
  BY IdleIsRec DEF Ensured, Answered, End, Put, Turns
<1>2. entry \in Entries /\ ops[o].gen \in {0} \cup Gens /\ watcher \in Watching
  BY TypeNames DEF Typed, Recs, TypeOK, Watching
<1>3. CASE ops[o].reply = "running" /\ entry.exists
  <2> DEFINE e1 == [entry EXCEPT !.auth = ops[o].gen]
             e2 == [e1 EXCEPT !.desired = "running"]
             e3 == [e2 EXCEPT !.status = "ready"]
             e4 == [e3 EXCEPT !.stage = "callback"]
  <2>1. entry' = e4 /\ UNCHANGED credVars
        /\ watcher' = IF watcher = "off" THEN "on" ELSE watcher
    BY <1>3 DEF Ensured
  <2>2. /\ e1 \in Entries /\ e1.auth = ops[o].gen /\ e1.enr = entry.enr
        /\ e1.exists = entry.exists /\ e1.deletion = entry.deletion
    BY <1>2 DEF Entries
  <2> HIDE DEF e1
  <2>3. e2 \in Entries /\ Alike(e2, e1) /\ e2.enr = e1.enr
    BY <2>2 DEF Entries, Alike
  <2> HIDE DEF e2
  <2>4. e3 \in Entries /\ Alike(e3, e2) /\ e3.enr = e2.enr
    BY <2>3 DEF Entries, Alike
  <2> HIDE DEF e3
  <2>5. e4 \in Entries /\ Alike(e4, e3) /\ e4.enr = e3.enr
    BY <2>4 DEF Entries, Alike
  <2> HIDE DEF e4
  <2>6. Upped(o)
    BY <1>3, <2>1, <2>2, <2>3, <2>4, <2>5 DEF Upped, Alike
  <2> QED BY <1>1, <1>2, <2>1, <2>6 DEF Watching
<1>4. CASE ~(ops[o].reply = "running" /\ entry.exists)
  <2>1. /\ Revoke({ops[o].gen}) /\ entry' = Failed(Cleared(entry, ops[o].gen), ops[o].kind)
        /\ UNCHANGED watcher
    BY <1>4 DEF Ensured
  <2>2. PICK c \in Entries : /\ c = Cleared(entry, ops[o].gen) /\ Alike(c, entry)
                             /\ c.enr = IF entry.enr.gen = ops[o].gen THEN Unbound ELSE entry.enr
    BY <1>2, ClearedIs
  <2>3. entry' \in Entries /\ Alike(entry', c) /\ entry'.enr = c.enr
    BY <2>1, <2>2, FailedIs
  <2>4. Dropped(o)
    BY <1>4, <2>1, <2>2, <2>3 DEF Dropped, Alike
  <2> QED BY <1>1, <1>2, <2>1, <2>4
<1> QED BY <1>3, <1>4

LEMMA EnsuredTyped ==
  ASSUME Typed, NEW o \in Slots, Ensured(o)
  PROVE  Typed'
<1>1. /\ ops[o].pc = "ensure" /\ Turns(o, Idle) /\ watcher' \in Watching
      /\ UNCHANGED <<gate, providerVars, ahead, patient, used>>
      /\ Upped(o) \/ Dropped(o)
  BY EnsuredIs
<1>2. TypeOK /\ UNCHANGED <<runVars, patient, handover>> /\ gate' \in GateStates /\ ahead' \in BOOLEAN
      /\ used' \in Spent /\ Issued' = Issued /\ handover' \in Bindings
  BY <1>1, KeptTyped DEF Typed, providerVars, runVars
<1>3. creds' \in [Gens -> {0} \cup Toks] /\ revoked' \subseteq Toks /\ paired' \in {0} \cup Boxes
  BY <1>1, <1>2, KeptTyped, RevokeIs DEF Upped, Dropped
<1>4. entry' \in Entries /\ entry'.auth \in {0, entry.auth, ops[o].gen}
  BY <1>1 DEF Upped, Dropped, Alike
<1>5. TypeOK'
  BY <1>1, <1>2, <1>3, <1>4, ServiceTyped
<1>6. Numbered'
  BY <1>1, <1>2, <1>4, EndNumbered
<1> QED BY <1>5, <1>6 DEF Typed

LEMMA CreateIs ==
  ASSUME Typed, NEW o \in Slots, Create(o)
  PROVE  /\ Asked(o) /\ used.calls = 0
         /\ UNCHANGED <<credVars, gate, watcher, providerVars, ahead, patient>>
         /\ entry' \in Entries /\ entry'.exists /\ entry'.deletion = "none"
         /\ entry'.auth = 0 /\ entry'.enr = Unbound
         /\ \E r \in Recs : /\ Turns(o, r) /\ r.pc = "prepare" /\ r.num = Issued + 1
                            /\ r.auth = entry.auth /\ r.gen = 0 /\ r.reply = "none"
<1>1. /\ Asked(o) /\ used.calls = 0
      /\ UNCHANGED <<credVars, gate, watcher, providerVars, ahead, patient>>
  BY DEF Create
<1>2. PICK d \in {"running", "stopped"} :
        /\ entry' = [NoEntry EXCEPT !.exists = TRUE, !.desired = d, !.stage = "preparation"]
        /\ Put(o, [Snapshot("create") EXCEPT !.pc = "prepare", !.desired = d])
  BY DEF Create
<1>3. entry' \in Entries /\ entry'.exists /\ entry'.deletion = "none"
      /\ entry'.auth = 0 /\ entry'.enr = Unbound
  BY <1>2, IdleIsRec DEF Entries, NoEntry
<1>4. TypeOK /\ Issued < MaxOps
  BY <1>1, AskedIs DEF Typed
<1>5. PICK s \in Recs : /\ s = Snapshot("create") /\ s.num = Issued + 1
                        /\ s.auth = entry.auth /\ s.gen = 0 /\ s.reply = "none"
  BY <1>4, SnapshotIs DEF Kinds
<1> DEFINE r == [s EXCEPT !.pc = "prepare", !.desired = d]
<1>6. /\ r \in Recs /\ r.pc = "prepare" /\ r.num = s.num /\ r.auth = s.auth /\ r.gen = s.gen
      /\ r.reply = s.reply
  BY DEF Recs, Places
<1>7. ops' = [ops EXCEPT ![o] = r]
  BY <1>2, <1>5 DEF Put
<1> HIDE DEF r
<1> QED BY <1>1, <1>3, <1>5, <1>6, <1>7 DEF Turns

LEMMA CreateTyped ==
  ASSUME Typed, NEW o \in Slots, Create(o)
  PROVE  Typed'
<1>1. PICK r \in Recs : /\ Turns(o, r) /\ r.pc = "prepare" /\ r.num = Issued + 1
                        /\ r.auth = entry.auth /\ r.gen = 0
  BY CreateIs
<1>2. /\ Asked(o) /\ UNCHANGED <<credVars, gate, watcher, providerVars, ahead, patient>>
      /\ entry' \in Entries /\ entry'.auth = 0 /\ TypeOK /\ Numbered
  BY CreateIs DEF Typed
<1>3. /\ used' \in Spent /\ Issued' = Issued + 1 /\ Issued < MaxOps /\ ops[o] = Idle
  BY <1>2, AskedIs
<1>4. UNCHANGED <<runVars, handover, patient>> /\ gate' \in GateStates /\ ahead' \in BOOLEAN
      /\ watcher' \in Watching /\ handover' \in Bindings /\ creds' \in [Gens -> {0} \cup Toks]
      /\ revoked' \subseteq Toks /\ paired' \in {0} \cup Boxes
  BY <1>2, KeptTyped DEF providerVars, runVars
<1>5. TypeOK'
  BY <1>1, <1>2, <1>3, <1>4, ServiceTyped
<1>6. Past \in Nat /\ entry.auth <= Past
  BY <1>2, PastIsCount DEF Numbered, Counted
<1>7. Numbered'
  <2>1. r.auth <= Past /\ r.gen <= Past + 1 /\ r.pc # "idle" /\ r.pc # "inspect" /\ entry'.auth <= Past
    BY <1>1, <1>2, <1>6
  <2> QED BY <1>1, <1>3, <2>1, Begins DEF Turns
<1> QED BY <1>5, <1>7 DEF Typed

\* Under a record that takes the entry as it is now.
LEMMA PreparedIs ==
  ASSUME Typed, NEW o \in Slots, Prepared(o)
  PROVE  /\ ops[o].pc = "prepare" /\ entry.exists /\ Inside
         /\ \/ /\ entry.deletion = "none"
               /\ \E rec \in Recs : /\ rec.num = ops[o].num /\ rec.gen = ops[o].gen
                                    /\ rec.auth = entry.auth /\ rec.bind = entry.enr
                                    /\ Ensure(o, rec)
            \/ \E e \in Entries : Alike(e, entry) /\ e.enr = entry.enr /\ GiveUp(o, e)
<1>1. ops[o].pc = "prepare" /\ entry.exists /\ Inside
  BY DEF Prepared, Inside
<1>2. Flying(o)
  BY <1>1, InFlight
<1> DEFINE starts == ops[o].desired = "running"
           rec == [ops[o] EXCEPT !.auth = entry.auth, !.bind = entry.enr]
           e == IF starts THEN entry ELSE [entry EXCEPT !.stage = "none"]
<1>3. rec \in Recs /\ rec.num = ops[o].num /\ rec.gen = ops[o].gen
      /\ rec.auth = entry.auth /\ rec.bind = entry.enr
  BY <1>2 DEF Flying, Recs, Entries
<1>4. e \in Entries /\ Alike(e, entry) /\ e.enr = entry.enr
  BY <1>2 DEF Flying, Entries, Alike
<1>5. IF starts /\ entry.deletion = "none" THEN Ensure(o, rec) ELSE GiveUp(o, e)
  BY DEF Prepared
<1> HIDE DEF rec, e, starts
<1> QED BY <1>1, <1>3, <1>4, <1>5

LEMMA PreparedTyped ==
  ASSUME Typed, NEW o \in Slots, Prepared(o)
  PROVE  Typed'
<1>1. ops[o].pc = "prepare" /\ Inside
  BY PreparedIs
<1>2. ASSUME NEW rec \in Recs, rec.num = ops[o].num, rec.gen = ops[o].gen,
             rec.auth = entry.auth, Ensure(o, rec)
      PROVE  Typed'
  BY <1>1, <1>2, EnsureTyped
<1>3. ASSUME NEW e \in Entries, Alike(e, entry), GiveUp(o, e) PROVE Typed'
  BY <1>1, <1>3, GiveUpTyped
<1> QED BY <1>2, <1>3, PreparedIs

\* An operation that ends with the entry gone or as it was.
LEMMA NotPreparedTyped ==
  ASSUME Typed, NEW o \in Slots, NotPrepared(o)
  PROVE  Typed'
<1>1. /\ ops[o].pc = "prepare" /\ Turns(o, Idle) /\ OneMoreFailure
      /\ entry' = NoEntry /\ entry' \in Entries /\ ahead' \in BOOLEAN /\ entry'.auth = 0
      /\ UNCHANGED <<credVars, gate, watcher, providerVars, patient>>
  BY IdleIsRec DEF NotPrepared, End, Put, Turns, NoEntry
<1>2. TypeOK /\ UNCHANGED <<runVars, patient, handover>> /\ gate' \in GateStates
      /\ used' \in Spent /\ Issued' = Issued
  BY <1>1, KeptTyped, FailureIs DEF Typed, providerVars, runVars
<1>3. TypeOK'
  BY <1>1, <1>2, ServiceTyped, KeptTyped
<1>4. Numbered'
  BY <1>1, <1>2, EndNumbered
<1> QED BY <1>3, <1>4 DEF Typed

LEMMA PreparedInVainTyped ==
  ASSUME Typed, NEW o \in Slots, PreparedInVain(o)
  PROVE  Typed'
<1>1. /\ ops[o].pc = "prepare" /\ Turns(o, Idle) /\ Inside
      /\ UNCHANGED <<entry, credVars, handover>>
  BY IdleIsRec DEF PreparedInVain, End, Put, Turns, Inside, runVars, providerVars
<1>2. TypeOK /\ Issued' = Issued
  BY <1>1 DEF Typed, Inside, Issued
<1>3. TypeOK'
  BY <1>1, <1>2, InsideTyped, KeptTyped
<1>4. Numbered'
  BY <1>1, <1>2, EndNumbered
<1> QED BY <1>3, <1>4 DEF Typed

LEMMA StartTyped ==
  ASSUME Typed, NEW o \in Slots, Start(o)
  PROVE  Typed'
<1>1. /\ Asked(o) /\ Ensure(o, Snapshot("start"))
      /\ UNCHANGED <<gate, watcher, runVars, ahead, patient>> /\ TypeOK /\ Numbered
  BY DEF Start, Typed
<1>2. /\ used' \in Spent /\ Issued' = Issued + 1 /\ Issued < MaxOps /\ ops[o] = Idle
      /\ Issued \in Nat
  BY <1>1, AskedIs
<1>3. PICK rec \in Recs : /\ rec = Snapshot("start") /\ rec.num = Issued + 1 /\ rec.num \in Toks
                          /\ rec.auth = entry.auth /\ rec.gen = 0
  BY <1>1, <1>2, SnapshotIs DEF Kinds
<1>4. /\ creds' \in [Gens -> {0} \cup Toks] /\ revoked' \subseteq Toks
      /\ paired' \in {0} \cup Boxes /\ handover' \in Bindings
      /\ \/ rec.auth = 0 /\ \E e \in Entries : /\ Alike(e, entry) /\ e.enr = entry.enr
                                               /\ Enroll(o, rec, e, 1, rec.num)
         \/ Looks(o, rec)
  BY <1>1, <1>3, EnsureIs
<1>5. gate' \in GateStates /\ ahead' \in BOOLEAN /\ watcher' \in Watching
      /\ UNCHANGED <<runVars, patient>>
  BY <1>1, KeptTyped
<1>6. Past \in Nat /\ entry.auth <= Past /\ entry.auth \in Nat
  BY <1>1, PastIsCount, TypeNames DEF Numbered, Counted, Entries, Gens, Boxes
<1>7. ASSUME NEW e \in Entries, Alike(e, entry), Enroll(o, rec, e, 1, rec.num)
      PROVE  TypeOK' /\ Numbered'
  <2>1. 1 \in Gens
    BY <1>2, BoundsInNat DEF Gens, Boxes
  <2>2. Binds(o, rec, e, 1, rec.num) \/ Refuses(o, rec, e, 1, rec.num)
    BY <1>1, <1>3, <1>7, <2>1, EnrollIs
  <2>3. entry' \in Entries /\ entry'.auth = entry.auth
    BY <1>7, <2>2 DEF Binds, Refuses, Alike
  <2>4. CASE Binds(o, rec, e, 1, rec.num)
    <3>1. PICK r \in Recs : /\ Turns(o, r) /\ r.pc = "ensure" /\ r.num = rec.num
                            /\ r.auth = rec.auth /\ r.gen = 1
      BY <2>4 DEF Binds
    <3>2. TypeOK'
      BY <1>1, <1>2, <1>4, <1>5, <2>3, <3>1, ServiceTyped
    <3>3. Numbered'
      <4>1. r.auth <= Past /\ r.gen <= Past + 1 /\ r.pc # "idle" /\ r.pc # "inspect"
            /\ entry'.auth <= Past /\ r.num = Issued + 1
        BY <1>3, <1>6, <2>3, <3>1
      <4> QED BY <1>2, <3>1, <4>1, Begins DEF Turns
    <3> QED BY <3>2, <3>3
  <2>5. CASE Refuses(o, rec, e, 1, rec.num)
    <3>1. Turns(o, Idle)
      BY <2>5 DEF Refuses
    <3>2. TypeOK'
      BY <1>1, <1>2, <1>4, <1>5, <2>3, <3>1, ServiceTyped
    <3>3. ops' = ops
      BY <1>1, <1>2, <3>1, TypeNames DEF Turns
    <3>4. Numbered'
      BY <1>2, <1>6, <2>3, <3>3, Passes
    <3> QED BY <3>2, <3>4
  <2> QED BY <2>2, <2>4, <2>5
<1>8. CASE Looks(o, rec)
  <2>1. PICK r \in Recs : /\ Turns(o, r) /\ r.pc = "inspect" /\ r.num = rec.num
                          /\ r.auth = rec.auth /\ r.gen = rec.gen
    BY <1>8 DEF Looks
  <2>2. entry' \in Entries /\ entry'.auth = entry.auth /\ rec.auth # 0
    BY <1>8 DEF Looks, Alike
  <2>3. TypeOK'
    BY <1>1, <1>2, <1>4, <1>5, <2>1, <2>2, ServiceTyped
  <2>4. Numbered'
    <3>1. r.auth <= Past /\ r.gen <= Past + 1 /\ r.pc # "idle" /\ r.auth # 0
          /\ entry'.auth <= Past /\ r.num = Issued + 1
      BY <1>3, <1>6, <2>1, <2>2
    <3> QED BY <1>2, <2>1, <3>1, Begins DEF Turns
  <2> QED BY <2>3, <2>4 DEF Typed
<1> QED BY <1>4, <1>7, <1>8 DEF Typed

LEMMA StopIs ==
  ASSUME Typed, NEW o \in Slots, Stop(o)
  PROVE  /\ Asked(o) /\ entry.exists /\ entry.deletion = "none"
         /\ UNCHANGED <<credVars, gate, watcher, providerVars, ahead, patient>>
         /\ entry' \in Entries /\ Alike(entry', entry) /\ entry'.enr = entry.enr
         /\ \/ \E r \in Recs : /\ Turns(o, r) /\ r.pc = "stop" /\ r.reply = "none"
                               /\ r.num = Issued + 1 /\ r.auth = entry.auth /\ r.gen = 0
            \/ UNCHANGED ops
<1>1. /\ Asked(o) /\ entry.exists /\ entry.deletion = "none"
      /\ UNCHANGED <<credVars, gate, watcher, providerVars, ahead, patient>>
  BY DEF Stop
<1>2. entry \in Entries /\ TypeOK /\ Issued < MaxOps
  BY <1>1, TypeNames, AskedIs DEF Typed
<1>3. PICK s \in Recs : /\ s = Snapshot("stop") /\ s.num = Issued + 1
                        /\ s.auth = entry.auth /\ s.gen = 0
  BY <1>2, SnapshotIs DEF Kinds
<1>4. CASE entry.auth # 0
  <2>1. Await(o, s, "stop") /\ UNCHANGED entry
    BY <1>3, <1>4 DEF Stop
  <2>2. PICK r \in Recs : /\ Turns(o, r) /\ r.pc = "stop" /\ r.reply = "none" /\ r.num = s.num
                          /\ r.auth = s.auth /\ r.gen = s.gen
    BY <2>1, AwaitIs DEF Places, Awaiting
  <2> QED BY <1>1, <1>2, <1>3, <2>1, <2>2 DEF Alike
<1>5. CASE entry.auth = 0
  <2>1. entry' = Parked(entry) /\ UNCHANGED ops
    BY <1>5 DEF Stop
  <2> QED BY <1>1, <1>2, <2>1, ParkedIs
<1> QED BY <1>2, <1>4, <1>5 DEF Entries, Gens, Boxes

\* What an operation that is asked for and left at its await changes.
LEMMA AskTyped ==
  ASSUME Typed, NEW o \in Slots, Asked(o), NEW r \in Recs, Turns(o, r),
         r.pc \notin {"idle", "inspect"}, r.num = Issued + 1, r.auth = entry.auth, r.gen = 0,
         entry' \in Entries, entry'.auth = entry.auth,
         creds' \in [Gens -> {0} \cup Toks], revoked' \subseteq Toks, paired' \in {0} \cup Boxes,
         gate' \in GateStates, UNCHANGED <<watcher, providerVars, ahead, patient>>
  PROVE  Typed'
<1>1. /\ used' \in Spent /\ Issued' = Issued + 1 /\ Issued < MaxOps /\ ops[o] = Idle
      /\ TypeOK /\ Numbered
  BY AskedIs DEF Typed
<1>2. UNCHANGED <<runVars, patient>> /\ watcher' \in Watching /\ handover' \in Bindings
      /\ ahead' \in BOOLEAN
  BY <1>1, KeptTyped DEF providerVars, runVars
<1>3. TypeOK'
  BY <1>1, <1>2, ServiceTyped
<1>4. Past \in Nat /\ entry.auth <= Past
  BY <1>1, PastIsCount DEF Numbered, Counted
<1>5. r.auth <= Past /\ r.gen <= Past + 1 /\ r.pc # "idle" /\ r.pc # "inspect"
      /\ entry'.auth <= Past
  BY <1>4
<1>6. Numbered'
  BY <1>1, <1>5, Begins DEF Turns
<1> QED BY <1>3, <1>6 DEF Typed

LEMMA StopTyped ==
  ASSUME Typed, NEW o \in Slots, Stop(o)
  PROVE  Typed'
<1>1. /\ Asked(o) /\ UNCHANGED <<credVars, gate, watcher, providerVars, ahead, patient>>
      /\ entry' \in Entries /\ entry'.auth = entry.auth /\ TypeOK /\ Numbered
  BY StopIs DEF Alike, Typed
<1>2. /\ creds' \in [Gens -> {0} \cup Toks] /\ revoked' \subseteq Toks /\ paired' \in {0} \cup Boxes
      /\ gate' \in GateStates /\ UNCHANGED <<watcher, providerVars, ahead, patient>>
  BY <1>1, KeptTyped
<1>3. ASSUME NEW r \in Recs, Turns(o, r), r.pc = "stop", r.num = Issued + 1,
             r.auth = entry.auth, r.gen = 0
      PROVE  Typed'
  BY <1>1, <1>2, <1>3, AskTyped
<1>4. CASE UNCHANGED ops
  <2>1. /\ used' \in Spent /\ Issued' = Issued + 1 /\ Issued < MaxOps /\ o \in Slots
        /\ ops[o] = Idle /\ ops \in [Slots -> Recs]
    BY <1>1, AskedIs, TypeNames
  <2>2. Turns(o, Idle)
    BY <1>4, <2>1, IdleIsRec DEF Turns
  <2>3. UNCHANGED <<runVars, patient>> /\ watcher' \in Watching /\ handover' \in Bindings
        /\ ahead' \in BOOLEAN
    BY <1>1, KeptTyped DEF providerVars, runVars
  <2>4. TypeOK'
    BY <1>1, <1>2, <2>1, <2>2, <2>3, ServiceTyped
  <2>5. Past \in Nat /\ entry.auth <= Past /\ entry.auth \in Nat
    BY <1>1, PastIsCount, TypeNames DEF Numbered, Counted, Entries, Gens, Boxes
  <2>6. Numbered'
    BY <1>1, <1>4, <2>1, <2>5, Passes
  <2> QED BY <2>4, <2>6 DEF Typed
<1> QED BY <1>3, <1>4, StopIs

LEMMA StoppedIs ==
  ASSUME Typed, NEW o \in Slots, Stopped(o)
  PROVE  /\ ops[o].pc = "stop" /\ ops[o].reply # "none" /\ Turns(o, Idle)
         /\ Inside /\ UNCHANGED handover
         /\ entry' \in Entries /\ Alike(entry', entry)
         /\ \/ UNCHANGED <<entry, credVars>>
            \/ /\ ops[o].reply # "failed" /\ entry.exists /\ Revoke({ops[o].auth})
               /\ entry'.enr = IF entry.enr.gen = ops[o].auth THEN Unbound ELSE entry.enr
<1>1. /\ ops[o].pc = "stop" /\ ops[o].reply # "none" /\ Turns(o, Idle)
      /\ Inside /\ UNCHANGED handover
  BY IdleIsRec DEF Stopped, Answered, End, Put, Turns, Inside, providerVars, runVars
<1>2. entry \in Entries
  BY TypeNames DEF Typed
<1>3. CASE ops[o].reply = "failed" \/ ~entry.exists
  <2>1. UNCHANGED <<entry, credVars>>
    BY <1>3 DEF Stopped
  <2> QED BY <1>1, <1>2, <2>1 DEF Alike
<1>4. CASE ~(ops[o].reply = "failed" \/ ~entry.exists)
  <2>1. entry' = Cleared(Parked(entry), ops[o].auth) /\ Revoke({ops[o].auth})
    BY <1>4 DEF Stopped
  <2>2. PICK p \in Entries : p = Parked(entry) /\ Alike(p, entry) /\ p.enr = entry.enr
    BY <1>2, ParkedIs
  <2>3. /\ entry' \in Entries /\ Alike(entry', p)
        /\ entry'.enr = IF p.enr.gen = ops[o].auth THEN Unbound ELSE p.enr
    BY <2>1, <2>2, ClearedIs
  <2> QED BY <1>1, <1>4, <2>1, <2>2, <2>3 DEF Alike
<1> QED BY <1>3, <1>4

LEMMA StoppedTyped ==
  ASSUME Typed, NEW o \in Slots, Stopped(o)
  PROVE  Typed'
<1>1. /\ ops[o].pc = "stop" /\ Turns(o, Idle) /\ Inside /\ UNCHANGED handover
      /\ entry' \in Entries /\ entry'.auth = entry.auth /\ TypeOK
      /\ UNCHANGED credVars \/ Revoke({ops[o].auth})
  BY StoppedIs DEF Alike, Typed
<1>2. creds' \in [Gens -> {0} \cup Toks] /\ revoked' \subseteq Toks /\ paired' \in {0} \cup Boxes
      /\ handover' \in Bindings
  BY <1>1, KeptTyped, RevokeIs
<1>3. TypeOK'
  BY <1>1, <1>2, InsideTyped
<1>4. Issued' = Issued
  BY <1>1 DEF Inside, Issued
<1>5. Numbered'
  BY <1>1, <1>4, EndNumbered
<1> QED BY <1>3, <1>5 DEF Typed

LEMMA DeleteIs ==
  ASSUME Typed, NEW o \in Slots, Delete(o)
  PROVE  /\ Asked(o) /\ entry.exists /\ gate' = "held" /\ Revoke({entry.enr.gen})
         /\ UNCHANGED <<watcher, providerVars, ahead, patient>>
         /\ entry' \in Entries /\ entry'.exists /\ entry'.deletion = "deleting"
         /\ entry'.enr = Unbound /\ entry'.auth = entry.auth
         /\ \E r \in Recs : /\ Turns(o, r) /\ r.pc \in {"quiesce", "verify"} /\ r.reply = "none"
                            /\ r.num = Issued + 1 /\ r.auth = entry.auth /\ r.gen = 0
<1>1. /\ Asked(o) /\ entry.exists /\ gate' = "held" /\ Revoke({entry.enr.gen})
      /\ UNCHANGED <<watcher, providerVars, ahead, patient>>
      /\ entry' = [entry EXCEPT !.deletion = "deleting", !.enr = Unbound]
      /\ Await(o, Snapshot("delete"), IF entry.auth # 0 THEN "quiesce" ELSE "verify")
  BY DEF Delete
<1>2. entry \in Entries /\ TypeOK /\ Issued < MaxOps
  BY <1>1, TypeNames, AskedIs DEF Typed
<1>3. /\ entry' \in Entries /\ entry'.exists /\ entry'.deletion = "deleting"
      /\ entry'.enr = Unbound /\ entry'.auth = entry.auth
  BY <1>1, <1>2, IdleIsRec DEF Entries
<1>4. PICK s \in Recs : /\ s = Snapshot("delete") /\ s.num = Issued + 1
                        /\ s.auth = entry.auth /\ s.gen = 0
  BY <1>2, SnapshotIs DEF Kinds
<1>5. PICK pc \in {"quiesce", "verify"} : pc = IF entry.auth # 0 THEN "quiesce" ELSE "verify"
  OBVIOUS
<1>6. pc \in Places /\ Await(o, s, pc)
  BY <1>1, <1>4, <1>5 DEF Places, Awaiting
<1>7. PICK r \in Recs : /\ Turns(o, r) /\ r.pc = pc /\ r.reply = "none" /\ r.num = s.num
                        /\ r.auth = s.auth /\ r.gen = s.gen
  BY <1>6, AwaitIs
<1> QED BY <1>1, <1>3, <1>4, <1>7

LEMMA DeleteTyped ==
  ASSUME Typed, NEW o \in Slots, Delete(o)
  PROVE  Typed'
<1>1. /\ Asked(o) /\ Revoke({entry.enr.gen}) /\ TypeOK
      /\ UNCHANGED <<watcher, providerVars, ahead, patient>>
      /\ entry' \in Entries /\ entry'.auth = entry.auth /\ gate' \in GateStates
  BY DeleteIs DEF GateStates, Typed
<1>2. PICK r \in Recs : /\ Turns(o, r) /\ r.pc \in {"quiesce", "verify"}
                        /\ r.num = Issued + 1 /\ r.auth = entry.auth /\ r.gen = 0
  BY DeleteIs
<1>3. creds' \in [Gens -> {0} \cup Toks] /\ revoked' \subseteq Toks /\ paired' \in {0} \cup Boxes
  BY <1>1, RevokeIs
<1>4. r.pc \notin {"idle", "inspect"}
  BY <1>2
<1> QED BY <1>1, <1>2, <1>3, <1>4, AskTyped

LEMMA DeleteRefusedIs ==
  ASSUME Typed, NEW o \in Slots, DeleteRefused(o)
  PROVE  /\ Asked(o) /\ entry.exists /\ entry.deletion = "deleting" /\ Turns(o, Idle)
         /\ UNCHANGED <<credVars, ops, gate, watcher, providerVars, ahead, patient>>
         /\ entry' \in Entries /\ entry'.exists /\ entry'.deletion = "retry"
         /\ entry'.enr = entry.enr /\ entry'.auth = entry.auth
<1>1. /\ Asked(o) /\ entry.exists /\ entry.deletion = "deleting"
      /\ entry' = [entry EXCEPT !.deletion = "retry"]
      /\ UNCHANGED <<credVars, ops, gate, watcher, providerVars, ahead, patient>>
  BY DEF DeleteRefused, Interrupted
<1>2. TypeOK /\ entry \in Entries /\ ops \in [Slots -> Recs]
  BY TypeNames DEF Typed
<1>3. ops[o] = Idle
  BY <1>1, <1>2, AskedIs
<1>4. Turns(o, Idle)
  BY <1>1, <1>2, <1>3, IdleIsRec DEF Turns
<1> QED BY <1>1, <1>2, <1>4 DEF Entries

LEMMA DeleteRefusedTyped ==
  ASSUME Typed, NEW o \in Slots, DeleteRefused(o)
  PROVE  Typed'
<1>1. /\ Asked(o) /\ Turns(o, Idle)
      /\ UNCHANGED <<credVars, ops, gate, watcher, providerVars, ahead, patient>>
      /\ entry' \in Entries /\ entry'.auth = entry.auth /\ TypeOK /\ Numbered
  BY DeleteRefusedIs DEF Typed
<1>2. /\ used' \in Spent /\ Issued' = Issued + 1 /\ Issued < MaxOps /\ o \in Slots
      /\ ops[o] = Idle /\ ops \in [Slots -> Recs]
  BY <1>1, AskedIs, TypeNames
<1>3. /\ creds' \in [Gens -> {0} \cup Toks] /\ revoked' \subseteq Toks /\ paired' \in {0} \cup Boxes
      /\ gate' \in GateStates /\ UNCHANGED <<runVars, patient>> /\ watcher' \in Watching
      /\ handover' \in Bindings /\ ahead' \in BOOLEAN
  BY <1>1, KeptTyped DEF providerVars, runVars
<1>4. TypeOK'
  BY <1>1, <1>2, <1>3, IdleIsRec, ServiceTyped
<1>5. Past \in Nat /\ entry.auth <= Past /\ entry.auth \in Nat
  BY <1>1, PastIsCount, TypeNames DEF Numbered, Counted, Entries, Gens, Boxes
<1>6. Numbered'
  BY <1>1, <1>2, <1>5, Passes
<1> QED BY <1>4, <1>6 DEF Typed

\* The gate blocks.
LEMMA BlockedIs ==
  ASSUME TypeOK, NEW o, Blocked(o)
  PROVE  /\ Turns(o, Idle) /\ gate' = "free" /\ entry' \in Entries /\ entry'.enr = entry.enr
         /\ entry'.exists = entry.exists /\ entry'.auth = entry.auth
         /\ entry.exists => entry'.deletion = "retry"
<1>1. entry \in Entries
  BY TypeNames
<1>2. Turns(o, Idle) /\ gate' = "free"
  BY IdleIsRec DEF Blocked, End, Put, Turns
<1>3. entry' = IF entry.exists THEN [entry EXCEPT !.deletion = "retry"] ELSE entry
  BY DEF Blocked
<1> QED BY <1>1, <1>2, <1>3 DEF Entries

\* A step of the gate: it goes on or blocks.
Proceeds(o, pc, gen) ==
  /\ entry' \in Entries /\ Alike(entry', entry) /\ gate' = gate
  /\ entry.exists
  /\ \E r \in Recs : /\ Turns(o, r) /\ r.pc \in pc /\ r.reply = "none" /\ r.num = ops[o].num
                     /\ r.auth = ops[o].auth /\ r.gen = gen

LEMMA QuiescedIs ==
  ASSUME Typed, NEW o \in Slots, Quiesced(o)
  PROVE  /\ ops[o].pc = "quiesce"
         /\ UNCHANGED <<credVars, watcher, providerVars, ahead, patient, used>>
         /\ Blocked(o) \/ (Proceeds(o, {"verify"}, ops[o].gen) /\ entry'.enr = entry.enr)
<1>1. /\ ops[o].pc = "quiesce"
      /\ UNCHANGED <<credVars, watcher, providerVars, ahead, patient, used>>
  BY DEF Quiesced, Answered
<1>2. Flying(o)
  BY <1>1, InFlight
<1>3. CASE ops[o].reply = "failed" \/ ~entry.exists
  BY <1>1, <1>3 DEF Quiesced
<1>4. CASE ~(ops[o].reply = "failed" \/ ~entry.exists)
  <2>1. entry' = Parked(entry) /\ Await(o, ops[o], "verify") /\ UNCHANGED gate
    BY <1>4 DEF Quiesced
  <2>2. PICK r \in Recs : /\ Turns(o, r) /\ r.pc = "verify" /\ r.reply = "none"
                          /\ r.num = ops[o].num /\ r.auth = ops[o].auth /\ r.gen = ops[o].gen
    BY <1>2, <2>1, AwaitIs DEF Places, Flying
  <2>3. entry' \in Entries /\ Alike(entry', entry) /\ entry'.enr = entry.enr
    BY <1>2, <2>1, ParkedIs DEF Flying
  <2> QED BY <1>1, <1>4, <2>1, <2>2, <2>3 DEF Proceeds
<1> QED BY <1>3, <1>4

LEMMA VerifiedIs ==
  ASSUME Typed, NEW o \in Slots, Verified(o)
  PROVE  /\ ops[o].pc = "verify"
         /\ UNCHANGED <<credVars, watcher, providerVars, ahead, patient, used>>
         /\ Blocked(o) \/ (/\ Proceeds(o, {"destroy", "remove"}, entry.auth)
                           /\ entry'.enr = entry.enr /\ ~ahead)
<1>1. /\ ops[o].pc = "verify"
      /\ UNCHANGED <<credVars, watcher, providerVars, ahead, patient, used>>
  BY DEF Verified
<1>2. Flying(o)
  BY <1>1, InFlight
<1>3. CASE ahead \/ ~entry.exists
  BY <1>1, <1>3 DEF Verified
<1>4. CASE ~(ahead \/ ~entry.exists)
  <2> DEFINE rec == [ops[o] EXCEPT !.gen = entry.auth]
  <2>1. rec \in Recs /\ rec.num = ops[o].num /\ rec.auth = ops[o].auth /\ rec.gen = entry.auth
    BY <1>2 DEF Flying, Recs, Entries
  <2>2. PICK pc \in {"destroy", "remove"} : pc = IF ops[o].auth # 0 THEN "destroy" ELSE "remove"
    OBVIOUS
  <2>3. Await(o, rec, pc) /\ UNCHANGED <<entry, gate>> /\ pc \in Places
    BY <1>4, <2>2 DEF Verified, Places, Awaiting
  <2> HIDE DEF rec
  <2>4. PICK r \in Recs : /\ Turns(o, r) /\ r.pc = pc /\ r.reply = "none"
                          /\ r.num = rec.num /\ r.auth = rec.auth /\ r.gen = rec.gen
    BY <2>1, <2>3, AwaitIs
  <2> QED BY <1>1, <1>2, <1>4, <2>1, <2>3, <2>4 DEF Proceeds, Alike, Flying
<1> QED BY <1>3, <1>4

LEMMA DestroyedIs ==
  ASSUME Typed, NEW o \in Slots, Destroyed(o)
  PROVE  /\ ops[o].pc = "destroy"
         /\ UNCHANGED <<watcher, providerVars, ahead, patient, used>>
         /\ UNCHANGED credVars \/ Revoke({ops[o].gen})
         /\ Blocked(o) \/ (/\ Proceeds(o, {"remove"}, ops[o].gen)
                           /\ entry'.enr \in {Unbound, entry.enr})
<1>1. /\ ops[o].pc = "destroy"
      /\ UNCHANGED <<watcher, providerVars, ahead, patient, used>>
      /\ UNCHANGED credVars \/ Revoke({ops[o].gen})
  BY DEF Destroyed, Answered
<1>2. Flying(o)
  BY <1>1, InFlight
<1>3. CASE ops[o].reply = "failed" \/ ~entry.exists
  BY <1>1, <1>3 DEF Destroyed
<1>4. CASE ~(ops[o].reply = "failed" \/ ~entry.exists)
  <2>1. entry' = Cleared(entry, ops[o].gen) /\ Await(o, ops[o], "remove") /\ UNCHANGED gate
    BY <1>4 DEF Destroyed
  <2>2. PICK r \in Recs : /\ Turns(o, r) /\ r.pc = "remove" /\ r.reply = "none"
                          /\ r.num = ops[o].num /\ r.auth = ops[o].auth /\ r.gen = ops[o].gen
    BY <1>2, <2>1, AwaitIs DEF Places, Flying
  <2>3. entry' \in Entries /\ Alike(entry', entry) /\ entry'.enr \in {Unbound, entry.enr}
    BY <1>2, <2>1, ClearedIs DEF Flying
  <2> QED BY <1>1, <1>4, <2>1, <2>2, <2>3 DEF Proceeds
<1> QED BY <1>3, <1>4

\* An error that nobody catches.
LEMMA GateThrowsIs ==
  ASSUME Typed, NEW o \in Slots, GateThrows(o)
  PROVE  /\ ops[o].pc = "verify" /\ Turns(o, Idle) /\ gate' = "dropped"
         /\ UNCHANGED <<entry, credVars, watcher, providerVars, ahead, patient>>
         /\ used' \in Spent /\ used'.calls = used.calls /\ used'.restarts = used.restarts
<1>1. /\ ops[o].pc = "verify" /\ Turns(o, Idle) /\ gate' = "dropped" /\ OneMoreFailure
      /\ UNCHANGED <<entry, credVars, watcher, providerVars, ahead, patient>>
  BY IdleIsRec DEF GateThrows, End, Put, Turns
<1>2. TypeOK
  BY DEF Typed
<1> QED BY <1>1, <1>2, FailureIs

\* A step of the gate keeps types and numbers.
LEMMA GateTyped ==
  ASSUME Typed, NEW o \in Slots, ops[o].pc # "idle",
         NEW pc, "idle" \notin pc, "inspect" \notin pc, NEW gen \in {ops[o].gen, entry.auth},
         Blocked(o) \/ Proceeds(o, pc, gen),
         creds' \in [Gens -> {0} \cup Toks], revoked' \subseteq Toks, paired' \in {0} \cup Boxes,
         used' \in Spent, Issued' = Issued,
         UNCHANGED <<watcher, providerVars, ahead, patient>>
  PROVE  Typed'
<1>1. TypeOK /\ UNCHANGED <<runVars, patient>> /\ watcher' \in Watching /\ handover' \in Bindings
      /\ ahead' \in BOOLEAN /\ gate \in GateStates
  BY KeptTyped DEF Typed, providerVars, runVars, TypeOK
<1>2. CASE Blocked(o)
  <2>1. Turns(o, Idle) /\ gate' \in GateStates /\ entry' \in Entries /\ entry'.auth = entry.auth
    BY <1>1, <1>2, BlockedIs DEF GateStates
  <2>2. TypeOK'
    BY <1>1, <2>1, ServiceTyped
  <2>3. Numbered'
    BY <2>1, EndNumbered
  <2> QED BY <2>2, <2>3 DEF Typed
<1>3. CASE Proceeds(o, pc, gen)
  <2>1. entry' \in Entries /\ entry'.auth = entry.auth /\ gate' \in GateStates
    BY <1>1, <1>3 DEF Proceeds, Alike
  <2>2. PICK r \in Recs : /\ Turns(o, r) /\ r.pc \in pc /\ r.num = ops[o].num
                          /\ r.auth = ops[o].auth /\ r.gen = gen
    BY <1>3 DEF Proceeds
  <2>3. TypeOK'
    BY <1>1, <2>1, <2>2, ServiceTyped
  <2>4. r.pc \notin {"idle", "inspect"}
    BY <2>2
  <2>5. Numbered'
    BY <2>1, <2>2, <2>4, GoNumbered
  <2> QED BY <2>3, <2>5 DEF Typed
<1> QED BY <1>2, <1>3

LEMMA DeletionTyped ==
  ASSUME Typed, NEW o \in Slots,
         \/ Quiesced(o) \/ Verified(o) \/ Destroyed(o) \/ GateFails(o) \/ GateThrows(o)
         \/ Removed(o)
  PROVE  Typed'
<1>1. TypeOK
  BY DEF Typed
<1>2. CASE Quiesced(o)
  <2>1. /\ ops[o].pc = "quiesce" /\ (Blocked(o) \/ Proceeds(o, {"verify"}, ops[o].gen))
        /\ UNCHANGED <<credVars, watcher, providerVars, ahead, patient, used>>
    BY <1>2, QuiescedIs
  <2>7. PICK pc : pc = {"verify"}
    OBVIOUS
  <2>8. PICK gen \in {ops[o].gen, entry.auth} : gen = ops[o].gen
    OBVIOUS
  <2>9. /\ ops[o].pc # "idle" /\ "idle" \notin pc /\ "inspect" \notin pc
        /\ Blocked(o) \/ Proceeds(o, pc, gen)
        /\ creds' \in [Gens -> {0} \cup Toks] /\ revoked' \subseteq Toks /\ paired' \in {0} \cup Boxes
        /\ used' \in Spent /\ Issued' = Issued
        /\ UNCHANGED <<watcher, providerVars, ahead, patient>>
    BY <1>1, <2>1, <2>7, <2>8, KeptTyped
  <2> QED BY <2>9, GateTyped
<1>3. CASE Verified(o)
  <2>1. /\ ops[o].pc = "verify" /\ (Blocked(o) \/ Proceeds(o, {"destroy", "remove"}, entry.auth))
        /\ UNCHANGED <<credVars, watcher, providerVars, ahead, patient, used>>
    BY <1>3, VerifiedIs
  <2>7. PICK pc : pc = {"destroy", "remove"}
    OBVIOUS
  <2>8. PICK gen \in {ops[o].gen, entry.auth} : gen = entry.auth
    OBVIOUS
  <2>9. /\ ops[o].pc # "idle" /\ "idle" \notin pc /\ "inspect" \notin pc
        /\ Blocked(o) \/ Proceeds(o, pc, gen)
        /\ creds' \in [Gens -> {0} \cup Toks] /\ revoked' \subseteq Toks /\ paired' \in {0} \cup Boxes
        /\ used' \in Spent /\ Issued' = Issued
        /\ UNCHANGED <<watcher, providerVars, ahead, patient>>
    BY <1>1, <2>1, <2>7, <2>8, KeptTyped
  <2> QED BY <2>9, GateTyped
<1>4. CASE Destroyed(o)
  <2>1. /\ ops[o].pc = "destroy" /\ (Blocked(o) \/ Proceeds(o, {"remove"}, ops[o].gen))
        /\ UNCHANGED <<watcher, providerVars, ahead, patient, used>>
        /\ UNCHANGED credVars \/ Revoke({ops[o].gen})
    BY <1>4, DestroyedIs
  <2>2. creds' \in [Gens -> {0} \cup Toks] /\ revoked' \subseteq Toks /\ paired' \in {0} \cup Boxes
    BY <1>1, <2>1, KeptTyped, RevokeIs
  <2>7. PICK pc : pc = {"remove"}
    OBVIOUS
  <2>8. PICK gen \in {ops[o].gen, entry.auth} : gen = ops[o].gen
    OBVIOUS
  <2>9. /\ ops[o].pc # "idle" /\ "idle" \notin pc /\ "inspect" \notin pc
        /\ Blocked(o) \/ Proceeds(o, pc, gen)
        /\ creds' \in [Gens -> {0} \cup Toks] /\ revoked' \subseteq Toks /\ paired' \in {0} \cup Boxes
        /\ used' \in Spent /\ Issued' = Issued
        /\ UNCHANGED <<watcher, providerVars, ahead, patient>>
    BY <1>1, <2>1, <2>2, <2>7, <2>8, KeptTyped
  <2> QED BY <2>9, GateTyped
<1>5. CASE GateFails(o)
  <2>1. /\ ops[o].pc \in {"verify", "remove"} /\ Blocked(o) /\ OneMoreFailure
        /\ UNCHANGED <<credVars, watcher, providerVars, ahead, patient>>
    BY <1>5 DEF GateFails
  <2>2. used' \in Spent /\ Issued' = Issued
    BY <1>1, <2>1, FailureIs
  <2>7. PICK pc : pc = {"verify"}
    OBVIOUS
  <2>8. PICK gen \in {ops[o].gen, entry.auth} : gen = ops[o].gen
    OBVIOUS
  <2>9. /\ ops[o].pc # "idle" /\ "idle" \notin pc /\ "inspect" \notin pc
        /\ Blocked(o) \/ Proceeds(o, pc, gen)
        /\ creds' \in [Gens -> {0} \cup Toks] /\ revoked' \subseteq Toks /\ paired' \in {0} \cup Boxes
        /\ used' \in Spent /\ Issued' = Issued
        /\ UNCHANGED <<watcher, providerVars, ahead, patient>>
    BY <1>1, <2>1, <2>2, <2>7, <2>8, KeptTyped
  <2> QED BY <2>9, GateTyped
<1>6. CASE Removed(o)
  <2>1. /\ ops[o].pc = "remove" /\ Turns(o, Idle) /\ entry' \in Entries /\ entry'.auth = 0
        /\ ahead' \in BOOLEAN /\ gate' \in GateStates
        /\ UNCHANGED <<credVars, watcher, providerVars, patient, used>>
    BY <1>6, IdleIsRec DEF GateStates, Removed, End, Put, Turns, NoEntry
  <2>2. UNCHANGED <<runVars, patient, handover>>
    BY <2>1 DEF providerVars, runVars
  <2>3. TypeOK'
    BY <1>1, <2>1, <2>2, ServiceTyped, KeptTyped
  <2>4. Numbered'
    BY <1>1, <2>1, EndNumbered, KeptTyped
  <2> QED BY <2>3, <2>4 DEF Typed
<1>7. CASE GateThrows(o)
  <2>1. /\ ops[o].pc = "verify" /\ Turns(o, Idle) /\ gate' \in GateStates
        /\ used' \in Spent /\ Issued' = Issued
        /\ UNCHANGED <<entry, credVars, watcher, providerVars, ahead, patient>>
    BY <1>7, GateThrowsIs DEF GateStates, Issued
  <2>2. UNCHANGED <<runVars, patient, handover>> /\ UNCHANGED entry
    BY <2>1 DEF providerVars, runVars
  <2>3. TypeOK'
    BY <1>1, <2>1, <2>2, ServiceTyped, KeptTyped
  <2>4. Numbered'
    BY <1>1, <2>1, <2>2, EndNumbered
  <2> QED BY <2>3, <2>4 DEF Typed
<1> QED BY <1>2, <1>3, <1>4, <1>5, <1>6, <1>7

LEMMA LookedIs ==
  ASSUME Typed, Looked
  PROVE  /\ Boot \in Slots /\ ops[Boot].pc = "look" /\ Inside
         /\ \/ /\ entry.exists /\ entry.deletion = "none"
               /\ \E rec \in Recs : /\ rec.num = ops[Boot].num /\ rec.gen = ops[Boot].gen
                                    /\ rec.auth = entry.auth /\ rec.bind = entry.enr
                                    /\ Ensure(Boot, rec)
            \/ \E e \in Entries : Alike(e, entry) /\ e.enr = entry.enr /\ GiveUp(Boot, e)
<1>1. Boot \in Slots /\ ops[Boot].pc = "look" /\ Inside
  BY SlotsAreClientsAndBoot DEF Looked, Answered, Inside
<1>2. Flying(Boot)
  BY <1>1, InFlight
<1> DEFINE rec == [ops[Boot] EXCEPT !.auth = entry.auth, !.bind = entry.enr]
           e == [entry EXCEPT !.status = "ready", !.stage = "ready"]
<1>3. rec \in Recs /\ rec.num = ops[Boot].num /\ rec.gen = ops[Boot].gen
      /\ rec.auth = entry.auth /\ rec.bind = entry.enr
  BY <1>2 DEF Flying, Recs, Entries
<1>4. e \in Entries /\ Alike(e, entry) /\ e.enr = entry.enr
  BY <1>2 DEF Flying, Entries, Alike
<1>5. \/ entry.exists /\ entry.deletion = "none" /\ Ensure(Boot, rec)
      \/ GiveUp(Boot, e)
      \/ GiveUp(Boot, entry)
  BY DEF Looked
<1>6. entry \in Entries /\ Alike(entry, entry)
  BY <1>2 DEF Flying, Alike
<1> HIDE DEF rec, e
<1> QED BY <1>1, <1>3, <1>4, <1>5, <1>6

LEMMA LookedTyped ==
  ASSUME Typed, Looked
  PROVE  Typed'
<1>1. Boot \in Slots /\ ops[Boot].pc = "look" /\ Inside /\ ops[Boot].pc # "idle"
  BY LookedIs
<1>2. ASSUME NEW rec \in Recs, rec.num = ops[Boot].num, rec.gen = ops[Boot].gen,
             rec.auth = entry.auth, Ensure(Boot, rec)
      PROVE  Typed'
  BY <1>1, <1>2, EnsureTyped
<1>3. ASSUME NEW e \in Entries, Alike(e, entry), GiveUp(Boot, e) PROVE Typed'
  BY <1>1, <1>3, GiveUpTyped
<1> QED BY <1>2, <1>3, LookedIs

-----------------------------------------------------------------------------
(* Types and numbers are kept: restarts, the provider, the sandboxes.      *)

LEMMA RestartIs ==
  ASSUME Typed, Restart
  PROVE  /\ used' \in Spent /\ used'.calls = used.calls /\ used'.deaths = used.deaths
         /\ used'.failures = used.failures /\ used'.restarts # 0
         /\ Issued < MaxOps /\ Issued' = Issued + 1
         /\ entry' \in Entries /\ entry'.exists = entry.exists /\ entry'.auth = entry.auth
         /\ entry'.enr = entry.enr /\ (entry'.deletion = "none" <=> entry.deletion = "none")
         /\ ops' \in [Slots -> Recs]
         /\ \A o \in Slots :
              \/ ops'[o] = Idle
              \/ /\ o = Boot /\ entry.exists /\ ops'[o].pc = "look" /\ ops'[o].reply = "none"
                 /\ ops'[o].num = Issued + 1 /\ ops'[o].auth = entry.auth /\ ops'[o].gen = 0
         /\ creds' = [g \in Gens |-> IF g = entry.enr.gen THEN entry.enr.tok ELSE 0]
         /\ gate' = "free" /\ watcher' = "off" /\ paired' = 0
         /\ UNCHANGED <<providerVars, ahead, patient, revoked>>
<1>1. /\ used.calls + used.restarts < MaxOps
      /\ used.restarts + used.failures + used.deaths < MaxFaults
      /\ used' = [used EXCEPT !.restarts = used.restarts + 1]
      /\ entry' = [entry EXCEPT !.deletion = Interrupted]
      /\ ops' = [o \in Slots |-> IF o = Boot /\ Reconciles
                                 THEN [Snapshot("reconcile") EXCEPT !.pc = "look"] ELSE Idle]
      /\ creds' = [g \in Gens |-> IF g = entry.enr.gen THEN entry.enr.tok ELSE 0]
      /\ gate' = "free" /\ watcher' = "off" /\ paired' = 0
      /\ UNCHANGED <<providerVars, ahead, patient, revoked>>
  BY DEF Restart, RestartWith, OneMoreOp, OneMoreFault
<1>2. /\ used \in Spent /\ used.restarts \in Nat /\ used.failures \in Nat /\ used.deaths \in Nat
      /\ used.calls \in Nat /\ MaxFaults \in Nat /\ TypeOK /\ entry \in Entries
  BY BoundsInNat, TypeNames DEF TypeOK, Spent, Typed
<1>3. PICK n \in 0..MaxFaults : n = used.restarts + 1
  BY <1>1, <1>2
<1>4. used' = [used EXCEPT !.restarts = n]
  BY <1>1, <1>3
<1>5. /\ used' \in Spent /\ used'.calls = used.calls /\ used'.deaths = used.deaths
      /\ used'.failures = used.failures /\ used'.restarts = n
  BY <1>2, <1>4 DEF Spent
<1>6. Issued < MaxOps /\ Issued' = Issued + 1 /\ n # 0
  BY <1>1, <1>2, <1>3, <1>5 DEF Issued
<1>7. PICK d \in {"none", "deleting", "retry"} :
        d = Interrupted /\ (d = "none" <=> entry.deletion = "none")
  BY <1>2 DEF Interrupted, Entries
<1>8. /\ entry' \in Entries /\ entry'.exists = entry.exists /\ entry'.auth = entry.auth
      /\ entry'.enr = entry.enr /\ (entry'.deletion = "none" <=> entry.deletion = "none")
  BY <1>1, <1>2, <1>7 DEF Entries
<1>9. PICK s \in Recs : /\ s = Snapshot("reconcile") /\ s.num = Issued + 1
                        /\ s.auth = entry.auth /\ s.gen = 0 /\ s.reply = "none"
  BY <1>2, <1>6, SnapshotIs DEF Kinds
<1> DEFINE r == [s EXCEPT !.pc = "look"]
<1>10. /\ r \in Recs /\ r.pc = "look" /\ r.num = s.num
       /\ r.auth = s.auth /\ r.gen = s.gen /\ r.reply = s.reply
  BY DEF Recs, Places, Awaiting
<1>11. ops' = [o \in Slots |-> IF o = Boot /\ Reconciles THEN r ELSE Idle]
  BY <1>1, <1>9
<1> HIDE DEF r
<1>12. ops' \in [Slots -> Recs]
  BY <1>10, <1>11, IdleIsRec
<1>13. \A o \in Slots :
         \/ ops'[o] = Idle
         \/ /\ o = Boot /\ entry.exists /\ ops'[o].pc = "look" /\ ops'[o].reply = "none"
            /\ ops'[o].num = Issued + 1 /\ ops'[o].auth = entry.auth /\ ops'[o].gen = 0
  BY <1>9, <1>10, <1>11 DEF Reconciles
<1> QED BY <1>1, <1>3, <1>5, <1>6, <1>8, <1>12, <1>13

LEMMA RestartTyped ==
  ASSUME Typed, Restart
  PROVE  Typed'
<1>1. /\ TypeOK /\ Numbered /\ Issued \in Nat /\ MaxOps \in Nat /\ entry \in Entries
      /\ used' \in Spent /\ Issued < MaxOps /\ Issued' = Issued + 1
      /\ entry' \in Entries /\ entry'.auth = entry.auth /\ ops' \in [Slots -> Recs]
      /\ creds' = [g \in Gens |-> IF g = entry.enr.gen THEN entry.enr.tok ELSE 0]
      /\ gate' = "free" /\ watcher' = "off" /\ paired' = 0
      /\ UNCHANGED <<providerVars, ahead, patient, revoked>>
  BY RestartIs, TypeNames, BoundsInNat DEF Typed
<1>2. creds' \in [Gens -> {0} \cup Toks]
  BY <1>1 DEF Entries, Bindings, Unbound
<1>3. TypeOK'
  <2>1. /\ handover' \in Bindings /\ revoked' \subseteq Toks /\ paired' \in {0} \cup Boxes
        /\ box' \in Sandboxes /\ pidfile' \in {0} \cup Boxes /\ lock' \in {0} \cup Boxes
        /\ gate' \in GateStates /\ watcher' \in Watching /\ ahead' \in BOOLEAN /\ patient' \in BOOLEAN
    BY <1>1, KeptTyped DEF GateStates, providerVars, Watching
  <2> QED BY <1>1, <1>2, <2>1, TypedAgain
<1>4. \A o \in Slots :
        \/ ops'[o] = Idle
        \/ /\ o = Boot /\ ops'[o].pc = "look" /\ ops'[o].num = Issued + 1
           /\ ops'[o].auth = entry.auth /\ ops'[o].gen = 0
  BY RestartIs
<1>5. Idle.num = 0 /\ Idle.auth = 0 /\ Idle.gen = 0 /\ Idle.pc = "idle"
  BY DEF Idle
<1>6. Over \subseteq Over'
  BY <1>1, <1>4, <1>5 DEF Over
<1>7. Past <= Past' /\ Past' \in Nat /\ Past \in Nat
  BY <1>1, <1>6, PastGrows
<1>8. Placed' /\ Apart'
  BY <1>1, <1>4, <1>5 DEF Placed, Apart
<1>9. Counted'
  <2>1. entry.auth \in Nat /\ entry.auth <= Past
    BY <1>1 DEF Entries, Gens, Boxes, Numbered, Counted
  <2> QED BY <1>1, <1>4, <1>5, <1>7, <2>1 DEF Counted
<1> QED BY <1>1, <1>3, <1>8, <1>9 DEF Typed, Numbered

\* Only the reply changes.
LEMMA ReplyIs ==
  ASSUME Typed, NEW o \in Slots, ops[o].pc # "idle", NEW answer \in Answers, Reply(o, answer)
  PROVE  \E r \in Recs : /\ Turns(o, r) /\ r.pc = ops[o].pc /\ r.num = ops[o].num
                         /\ r.auth = ops[o].auth /\ r.gen = ops[o].gen /\ r.bind = ops[o].bind
                         /\ r.tok = ops[o].tok /\ r.reply = answer
<1>1. Flying(o) /\ ops \in [Slots -> Recs]
  BY InFlight, TypeNames DEF Typed
<1> DEFINE r == [ops[o] EXCEPT !.reply = answer]
<1>2. /\ r \in Recs /\ r.pc = ops[o].pc /\ r.num = ops[o].num
      /\ r.auth = ops[o].auth /\ r.gen = ops[o].gen /\ r.bind = ops[o].bind
      /\ r.tok = ops[o].tok /\ r.reply = answer
  BY <1>1 DEF Flying, Recs
<1>3. ops' = [ops EXCEPT ![o] = r]
  BY <1>1 DEF Reply
<1> HIDE DEF r
<1> QED BY <1>2, <1>3 DEF Turns

LEMMA ReplyTyped ==
  ASSUME Typed, NEW o \in Slots, ops[o].pc # "idle", NEW answer \in Answers, Reply(o, answer),
         box' \in Sandboxes, pidfile' \in {0} \cup Boxes, lock' \in {0} \cup Boxes,
         handover' \in Bindings, paired' \in {0} \cup Boxes, used' \in Spent, Issued' = Issued,
         UNCHANGED <<entry, creds, revoked, gate, watcher, ahead, patient>>
  PROVE  Typed'
<1>1. Flying(o) /\ ops \in [Slots -> Recs] /\ TypeOK /\ Numbered
  BY InFlight, TypeNames DEF Typed
<1>2. PICK r \in Recs : /\ Turns(o, r) /\ r.pc = ops[o].pc /\ r.num = ops[o].num
                        /\ r.auth = ops[o].auth /\ r.gen = ops[o].gen
  BY ReplyIs
<1>3. ops' \in [Slots -> Recs]
  BY <1>1, <1>2 DEF Turns
<1>4. TypeOK'
  BY <1>1, <1>3, KeptTyped, TypedAgain
<1>5. r.pc = "inspect" => r.auth # 0
  BY <1>1, <1>2 DEF Numbered, Counted
<1>6. Numbered'
  BY <1>1, <1>2, <1>5, Goes DEF Turns, Flying
<1> QED BY <1>4, <1>6 DEF Typed

\* No operation turns.
LEMMA RestTyped ==
  ASSUME Typed, UNCHANGED ops, entry' \in Entries, entry'.auth = entry.auth,
         box' \in Sandboxes, pidfile' \in {0} \cup Boxes, lock' \in {0} \cup Boxes,
         paired' \in {0} \cup Boxes, watcher' \in Watching, ahead' \in BOOLEAN,
         used' \in Spent, Issued' = Issued,
         UNCHANGED <<handover, creds, revoked, gate, patient>>
  PROVE  Typed'
<1>1. TypeOK'
  BY KeptTyped, TypedAgain DEF Typed
<1>2. Numbered'
  BY Rests DEF Typed
<1> QED BY <1>1, <1>2 DEF Typed

States == {"unborn", "starting", "live", "dead"}

LEMMA BecomeIs ==
  ASSUME TypeOK, NEW b \in Boxes, NEW st \in States, Become(b, st)
  PROVE  /\ box' \in Sandboxes
         /\ \A c \in Boxes : /\ box'[c].gen = box[c].gen /\ box'[c].tok = box[c].tok
                             /\ box'[c].state = IF c = b THEN st ELSE box[c].state
<1>1. box \in Sandboxes /\ box' = [box EXCEPT ![b] = [box[b] EXCEPT !.state = st]]
  BY TypeNames DEF Sandboxes, Become
<1>2. [box[b] EXCEPT !.state = st] \in [state: States, gen: {0} \cup Gens, tok: {0} \cup Toks]
      /\ [box[b] EXCEPT !.state = st].state = st
      /\ [box[b] EXCEPT !.state = st].gen = box[b].gen
      /\ [box[b] EXCEPT !.state = st].tok = box[b].tok
  BY <1>1 DEF Sandboxes, States
<1> QED BY <1>1, <1>2 DEF Sandboxes, States

\* stopAndProve: the recorded sandbox, if it lives, is dead, and no other changes.
LEMMA StopRecordedIs ==
  ASSUME TypeOK, StopRecorded
  PROVE  /\ box' \in Sandboxes
         /\ \A c \in Boxes : /\ box'[c].gen = box[c].gen /\ box'[c].tok = box[c].tok
                             /\ box'[c].state = IF c = pidfile /\ IsLive(c) THEN "dead"
                                                ELSE box[c].state
<1>1. pidfile \in {0} \cup Boxes /\ box \in Sandboxes /\ 0 \notin Boxes
  BY TypeNames DEF Sandboxes, Boxes
<1>2. CASE IsLive(pidfile)
  <2>1. pidfile \in Boxes /\ Become(pidfile, "dead") /\ "dead" \in States
    BY <1>1, <1>2 DEF IsLive, StopRecorded, States
  <2> QED BY <1>2, <2>1, BecomeIs
<1>3. CASE ~IsLive(pidfile)
  BY <1>1, <1>3 DEF StopRecorded
<1> QED BY <1>2, <1>3

LEMMA PairsKeptTyped ==
  ASSUME TypeOK, PairsOfLive
  PROVE  paired' \in {0} \cup Boxes
BY TypeNames DEF PairsOfLive

LEMMA SpawnIs ==
  ASSUME TypeOK, NEW b \in Boxes, NEW gen \in {0} \cup Gens, Spawn(b, gen)
  PROVE  /\ box' \in Sandboxes /\ pidfile' \in {0, pidfile} /\ lock = 0 /\ lock' = b
         /\ UNCHANGED handover
         /\ ~IsLive(pidfile) /\ handover.gen \in {0, gen}
         /\ \A c \in Boxes : c # b => box'[c] = box[c]
         /\ box'[b].state = "starting" /\ box'[b].gen = gen /\ box'[b].tok = handover.tok
<1>1. box \in Sandboxes /\ handover.tok \in {0} \cup Toks
  BY TypeNames DEF Sandboxes, Bindings, Unbound
<1>2. /\ box' = [box EXCEPT ![b] = [state |-> "starting", gen |-> gen, tok |-> handover.tok]]
      /\ pidfile' \in {0, pidfile} /\ lock = 0 /\ lock' = b /\ UNCHANGED handover
      /\ ~IsLive(pidfile) /\ handover.gen \in {0, gen}
  BY DEF Spawn, NothingToSpawn
<1>3. [state |-> "starting", gen |-> gen, tok |-> handover.tok]
        \in [state: States, gen: {0} \cup Gens, tok: {0} \cup Toks]
  BY <1>1 DEF States
<1> QED BY <1>1, <1>2, <1>3 DEF Sandboxes, States

LEMMA ObservedIs == Observed \in Answers /\ AnswerOfWait \in Answers
                    /\ \A gen : NothingSpawned(gen) \in Answers
BY DEF Observed, AnswerOfWait, NothingSpawned, Answers

LEMMA ProvideTyped ==
  ASSUME Typed, NEW o \in Slots, Provide(o) \/ ProviderFails(o)
  PROVE  Typed'
<1>1. TypeOK /\ pidfile \in {0} \cup Boxes /\ lock \in {0} \cup Boxes /\ handover \in Bindings
  BY TypeNames DEF Typed
<1> DEFINE Rest == UNCHANGED <<entry, creds, revoked, gate, watcher, ahead, patient>>
           Parts == /\ box' \in Sandboxes /\ pidfile' \in {0} \cup Boxes /\ lock' \in {0} \cup Boxes
                    /\ handover' \in Bindings /\ paired' \in {0} \cup Boxes /\ used' \in Spent
                    /\ Issued' = Issued
<1>2. ASSUME NEW answer \in Answers, Reply(o, answer), ops[o].pc # "idle", Rest, Parts
      PROVE  Typed'
  BY <1>2, ReplyTyped
<1>3. CASE Inspects(o)
  <2>1. /\ Reply(o, Observed) /\ ops[o].pc # "idle"
        /\ UNCHANGED <<entry, credVars, gate, watcher, providerVars, ahead, patient, used>>
    BY <1>3 DEF Inspects, Asks
  <2>2. Rest /\ Parts
    BY <1>1, <2>1, KeptTyped DEF providerVars, credVars
  <2> QED BY <1>2, <2>1, <2>2, ObservedIs
<1>4. CASE Stops(o)
  <2>1. /\ Reply(o, "stopped") /\ ops[o].pc # "idle" /\ StopRecorded /\ PairsOfLive
        /\ UNCHANGED <<entry, creds, revoked, gate, watcher, handover, pidfile, lock, ahead,
                       patient, used>>
    BY <1>4 DEF Stops, Asks
  <2>2. Rest /\ Parts
    BY <1>1, <2>1, KeptTyped, StopRecordedIs, PairsKeptTyped
  <2> QED BY <1>2, <2>1, <2>2 DEF Answers
<1>5. CASE Deletes(o)
  <2>1. /\ Reply(o, "missing") /\ ops[o].pc # "idle" /\ StopRecorded /\ PairsOfLive
        /\ handover' = Unbound /\ pidfile' = 0 /\ lock' = 0
        /\ UNCHANGED <<entry, creds, revoked, gate, watcher, ahead, patient, used>>
    BY <1>5 DEF Deletes, Asks, ClearState
  <2>2. Rest /\ Parts
    BY <1>1, <2>1, KeptTyped, StopRecordedIs, PairsKeptTyped, IdleIsRec
  <2> QED BY <1>2, <2>1, <2>2 DEF Answers
<1>6. CASE EnsuresNothing(o)
  <2>1. /\ Reply(o, NothingSpawned(ops[o].gen)) /\ ops[o].pc # "idle"
        /\ UNCHANGED <<entry, credVars, gate, watcher, providerVars, ahead, patient, used>>
    BY <1>6 DEF EnsuresNothing, MayEnsure, Asks
  <2>2. Rest /\ Parts
    BY <1>1, <2>1, KeptTyped DEF providerVars, credVars
  <2> QED BY <1>2, <2>1, <2>2, ObservedIs
<1>7. CASE Spawns(o)
  <2>1. /\ ops[o].pc = "ensure" /\ Spawn(ops[o].num, ops[o].gen)
        /\ UNCHANGED <<entry, credVars, ops, gate, watcher, ahead, patient, used>>
    BY <1>7 DEF Spawns, MayEnsure, Asks
  <2>2. Flying(o)
    BY <2>1, InFlight
  <2>3. PICK b \in Boxes, gen \in {0} \cup Gens : b = ops[o].num /\ gen = ops[o].gen
    BY <2>2 DEF Flying, Recs, Toks
  <2>4. box' \in Sandboxes /\ pidfile' \in {0, pidfile} /\ lock' = b /\ UNCHANGED handover
    BY <1>1, <2>1, <2>3, SpawnIs
  <2>5. pidfile' \in {0} \cup Boxes /\ lock' \in {0} \cup Boxes /\ entry' \in Entries
    BY <1>1, <2>1, <2>4, KeptTyped
  <2> QED BY <1>1, <2>1, <2>4, <2>5, RestTyped, KeptTyped DEF credVars
<1>8. CASE EnsuresBehindLock(o)
  <2>1. /\ Reply(o, AnswerOfWait) /\ ops[o].pc # "idle"
        /\ UNCHANGED <<entry, credVars, gate, watcher, providerVars, ahead, patient, used>>
    BY <1>8 DEF EnsuresBehindLock, MayEnsure, Asks
  <2>2. Rest /\ Parts
    BY <1>1, <2>1, KeptTyped DEF providerVars, credVars
  <2> QED BY <1>2, <2>1, <2>2, ObservedIs
<1>9. CASE Spawned(o)
  <2>1. /\ Reply(o, AnswerOfWait) /\ ops[o].pc # "idle" /\ lock' \in {0, lock}
        /\ UNCHANGED <<entry, credVars, gate, watcher, handover, box, pidfile, ahead, patient, used>>
    BY <1>9 DEF Spawned, Asks, Unlock
  <2>2. Rest /\ Parts
    BY <1>1, <2>1, KeptTyped DEF credVars
  <2> QED BY <1>2, <2>1, <2>2, ObservedIs
<1>10. CASE ProviderFails(o)
  <2>1. /\ Reply(o, "failed") /\ ops[o].pc # "idle" /\ OneMoreFailure
        /\ UNCHANGED <<entry, credVars, gate, watcher, providerVars, ahead, patient>>
    BY <1>10 DEF ProviderFails, Awaiting
  <2>2. Rest /\ Parts
    BY <1>1, <2>1, KeptTyped, FailureIs DEF providerVars, credVars
  <2> QED BY <1>2, <2>1, <2>2 DEF Answers
<1> QED BY <1>3, <1>4, <1>5, <1>6, <1>7, <1>8, <1>9, <1>10 DEF Provide

BoxStep(b) == BoxStarts(b) \/ BoxDies(b) \/ BoxFindsNothing(b)

\* A sandbox goes live under its record, or dies.
LEMMA BoxStepIs ==
  ASSUME TypeOK, NEW b \in Boxes, BoxStep(b)
  PROVE  /\ UNCHANGED <<entry, creds, revoked, ops, gate, watcher, handover, lock, ahead, patient>>
         /\ box' \in Sandboxes /\ paired' \in {0} \cup Boxes
         /\ used' \in Spent /\ used'.calls = used.calls /\ used'.restarts = used.restarts
         /\ used'.failures = used.failures /\ used'.deaths \in Nat /\ used.deaths <= used'.deaths
         /\ used.deaths \in Nat
         /\ \A c \in Boxes : /\ box'[c].gen = box[c].gen /\ box'[c].tok = box[c].tok
                             /\ c # b => box'[c].state = box[c].state
         /\ \/ /\ box[b].state = "starting" /\ box'[b].state = "live" /\ pidfile' = b
               /\ entry.exists /\ used' = used
            \/ /\ box[b].state \in {"starting", "live"} /\ box'[b].state = "dead"
               /\ UNCHANGED pidfile /\ (~entry.exists \/ used'.deaths > 0)
<1>1. /\ used \in Spent /\ used.deaths \in Nat /\ used.restarts \in Nat /\ used.failures \in Nat
      /\ MaxFaults \in Nat /\ paired \in {0} \cup Boxes
  BY BoundsInNat DEF TypeOK, Spent
<1>2. CASE BoxStarts(b)
  <2>1. /\ entry.exists /\ box[b].state = "starting" /\ Become(b, "live") /\ pidfile' = b
        /\ UNCHANGED <<handover, lock, entry, credVars, ops, gate, watcher, ahead, patient, used>>
    BY <1>2 DEF BoxStarts, Launched
  <2>2. /\ box' \in Sandboxes
        /\ \A c \in Boxes : /\ box'[c].gen = box[c].gen /\ box'[c].tok = box[c].tok
                            /\ box'[c].state = IF c = b THEN "live" ELSE box[c].state
    BY <2>1, BecomeIs DEF States
  <2> QED BY <1>1, <2>1, <2>2 DEF credVars
<1>3. CASE BoxDies(b)
  <2>1. /\ OneMoreFault /\ used' = [used EXCEPT !.deaths = used.deaths + 1] /\ PairsOfLive
        /\ box[b].state \in {"starting", "live"} /\ Become(b, "dead")
        /\ UNCHANGED <<handover, pidfile, lock, entry, creds, revoked, ops, gate, watcher, ahead,
                       patient>>
    BY <1>3 DEF BoxDies, Died
  <2>2. PICK n \in 0..MaxFaults : n = used.deaths + 1
    BY <1>1, <2>1 DEF OneMoreFault
  <2>3. used' = [used EXCEPT !.deaths = n]
    BY <2>1, <2>2
  <2>4. /\ used' \in Spent /\ used'.calls = used.calls /\ used'.restarts = used.restarts
        /\ used'.failures = used.failures /\ used'.deaths = n
    BY <1>1, <2>3 DEF Spent
  <2>5. /\ box' \in Sandboxes
        /\ \A c \in Boxes : /\ box'[c].gen = box[c].gen /\ box'[c].tok = box[c].tok
                            /\ box'[c].state = IF c = b THEN "dead" ELSE box[c].state
    BY <2>1, BecomeIs DEF States
  <2> QED BY <1>1, <2>1, <2>2, <2>4, <2>5, PairsKeptTyped
<1>4. CASE BoxFindsNothing(b)
  <2>1. /\ ~entry.exists /\ box[b].state = "starting" /\ Become(b, "dead")
        /\ UNCHANGED <<handover, pidfile, lock, entry, credVars, ops, gate, watcher, ahead,
                       patient, used>>
    BY <1>4 DEF BoxFindsNothing, Died
  <2>2. /\ box' \in Sandboxes
        /\ \A c \in Boxes : /\ box'[c].gen = box[c].gen /\ box'[c].tok = box[c].tok
                            /\ box'[c].state = IF c = b THEN "dead" ELSE box[c].state
    BY <2>1, BecomeIs DEF States
  <2> QED BY <1>1, <2>1, <2>2 DEF credVars
<1> QED BY <1>2, <1>3, <1>4 DEF BoxStep

\* The pair watcher, the pairs and the transcripts.
AsideStep ==
  \/ \E b \in Boxes : Pair(b) \/ Write(b)
  \/ Mirror \/ Tick \/ TickAnswered \/ InspectsForWatcher

Aside ==
  /\ UNCHANGED <<creds, revoked, ops, gate, providerVars, patient, used>>
  /\ entry' \in Entries /\ Alike(entry', entry) /\ entry'.enr = entry.enr
  /\ watcher' \in Watching /\ ahead' \in BOOLEAN /\ paired' \in {0} \cup Boxes

LEMMA AsideIs ==
  ASSUME TypeOK, AsideStep
  PROVE  Aside
<1>1. entry \in Entries /\ watcher \in Watching /\ ahead \in BOOLEAN /\ paired \in {0} \cup Boxes
  BY TypeNames DEF TypeOK, Watching
<1>2. Alike(entry, entry)
  BY DEF Alike
<1>3. ASSUME NEW b \in Boxes, Pair(b) \/ Write(b) PROVE Aside
  BY <1>1, <1>2, <1>3 DEF Pair, Write, Aside, credVars
<1>4. CASE Mirror
  BY <1>1, <1>2, <1>4 DEF Mirror, Aside, credVars
<1>5. CASE Tick
  <2>1. /\ UNCHANGED <<credVars, ops, gate, providerVars, ahead, patient, used>>
        /\ watcher' \in {"off", "inspecting"}
        /\ entry' = entry \/ entry' = [entry EXCEPT !.stage = "ready"]
    BY <1>5 DEF Tick
  <2>2. entry' \in Entries /\ Alike(entry', entry) /\ entry'.enr = entry.enr
    BY <1>1, <1>2, <2>1 DEF Entries, Alike
  <2> QED BY <1>1, <2>1, <2>2 DEF Aside, credVars, Watching
<1>6. CASE TickAnswered
  <2>1. /\ UNCHANGED <<credVars, ops, gate, providerVars, ahead, patient, used>>
        /\ watcher' \in {"on", "off"}
        /\ entry' = entry \/ entry' = [entry EXCEPT !.stage = "failed", !.status = "error"]
    BY <1>6 DEF TickAnswered
  <2>2. entry' \in Entries /\ Alike(entry', entry) /\ entry'.enr = entry.enr
    BY <1>1, <1>2, <2>1 DEF Entries, Alike
  <2> QED BY <1>1, <2>1, <2>2 DEF Aside, credVars, Watching
<1>7. CASE InspectsForWatcher
  BY <1>1, <1>2, <1>7, ObservedIs DEF InspectsForWatcher, Aside, credVars, Watching
<1> QED BY <1>3, <1>4, <1>5, <1>6, <1>7 DEF AsideStep

LEMMA OutsideTyped ==
  ASSUME Typed, AsideStep \/ SpawnedForNobody \/ (\E b \in Boxes : BoxStep(b))
  PROVE  Typed'
<1>1. TypeOK /\ lock \in {0} \cup Boxes
  BY TypeNames DEF Typed
<1>2. CASE AsideStep
  <2>1. Aside
    BY <1>1, <1>2, AsideIs
  <2> QED BY <1>1, <2>1, RestTyped, KeptTyped DEF Aside, Alike, providerVars
<1>3. CASE SpawnedForNobody
  <2>1. /\ lock' \in {0, lock}
        /\ UNCHANGED <<entry, credVars, ops, gate, watcher, handover, box, pidfile, ahead, patient, used>>
    BY <1>3 DEF SpawnedForNobody, Unlock
  <2> QED BY <1>1, <2>1, RestTyped, KeptTyped DEF credVars
<1>4. ASSUME NEW b \in Boxes, BoxStep(b) PROVE Typed'
  <2>1. /\ UNCHANGED <<entry, creds, revoked, ops, gate, watcher, handover, lock, ahead, patient>>
        /\ box' \in Sandboxes /\ paired' \in {0} \cup Boxes
        /\ used' \in Spent /\ used'.calls = used.calls /\ used'.restarts = used.restarts
        /\ pidfile' \in {pidfile, b}
    BY <1>1, <1>4, BoxStepIs
  <2>2. Issued' = Issued /\ pidfile' \in {0} \cup Boxes
    BY <1>1, <2>1, TypeNames DEF Issued
  <2> QED BY <1>1, <2>1, <2>2, RestTyped, KeptTyped
<1> QED BY <1>2, <1>3, <1>4

-----------------------------------------------------------------------------
(* Every step is one of these.                                             *)

ServiceStep(o) ==
  \/ Create(o) \/ Start(o) \/ Stop(o) \/ Delete(o) \/ DeleteRefused(o)
  \/ Continue(o) \/ NotPrepared(o) \/ GateFails(o) \/ GateThrows(o)

LEMMA Steps ==
  ASSUME Next
  PROVE  \/ \E o \in Slots : ServiceStep(o) \/ Provide(o) \/ ProviderFails(o)
         \/ \E b \in Boxes : BoxStep(b)
         \/ AsideStep \/ Looked \/ Restart \/ SpawnedForNobody
BY DEF Next, ServiceStep, BoxStep, AsideStep

LEMMA ServiceStepTyped ==
  ASSUME Typed, NEW o \in Slots, ServiceStep(o)
  PROVE  Typed'
BY CreateTyped, StartTyped, StopTyped, DeleteTyped, DeleteRefusedTyped, InspectedTyped, ReplacedTyped, EnsuredTyped,
   PreparedTyped, PreparedInVainTyped, NotPreparedTyped, StoppedTyped, DeletionTyped
   DEF ServiceStep, Continue

LEMMA TypedStart ==
  ASSUME Init
  PROVE  Typed
<1>1. /\ handover = Unbound /\ box = [b \in Boxes |-> Unborn] /\ pidfile = 0 /\ lock = 0
      /\ entry = NoEntry /\ creds = [g \in Gens |-> 0] /\ paired = 0 /\ revoked = {}
      /\ ops = [o \in Slots |-> Idle] /\ gate = "free" /\ watcher = "off"
      /\ ahead = FALSE /\ patient \in BOOLEAN
      /\ used = [calls |-> 0, restarts |-> 0, failures |-> 0, deaths |-> 0]
  BY DEF Init, ProviderInit
<1>2. TypeOK
  <2>1. used \in [calls: 0..MaxOps, restarts: 0..MaxFaults, failures: 0..MaxFaults,
                  deaths: 0..MaxFaults]
    BY <1>1, BoundsInNat
  <2>2. ProviderTypeOK
    BY <1>1, IdleIsRec DEF ProviderTypeOK, Unborn
  <2>3. entry \in Entries /\ ops \in [Slots -> Recs]
    BY <1>1, IdleIsRec
  <2> QED BY <1>1, <2>1, <2>2, <2>3 DEF TypeOK, GateStates, Entries, Recs
<1>3. Issued = 0
  BY <1>1 DEF Issued
<1>4. Past \in Nat
  BY <1>2, PastIsCount
<1>5. Numbered
  BY <1>1, <1>3, <1>4, BoundsInNat DEF Numbered, Placed, Apart, Counted, Idle, NoEntry
<1> QED BY <1>2, <1>5 DEF Typed

LEMMA TypedStep ==
  ASSUME Typed, [Next]_vars
  PROVE  Typed'
<1>1. CASE Next
  BY <1>1, Steps, ServiceStepTyped, ProvideTyped, OutsideTyped, LookedTyped, RestartTyped
<1>2. CASE UNCHANGED vars
  <2>1. UNCHANGED <<entry, creds, paired, revoked, ops, gate, watcher, handover, box, pidfile, lock,
                    ahead, patient, used>>
    BY <1>2 DEF vars, credVars, providerVars
  <2> QED BY <2>1, RestTyped, KeptTyped DEF Typed
<1> QED BY <1>1, <1>2

LEMMA TypedAlways == Spec => []Typed
BY TypedStart, TypedStep, PTL DEF Spec

\* Every variable holds what it is meant to, whatever the clients, the
\* provider's failures and the restarts: with at most MaxOps operations no
\* generation, credential or sandbox beyond them is ever made.
THEOREM TypeCorrect == Spec => []TypeOK
BY TypedAlways, PTL DEF Typed

-----------------------------------------------------------------------------
(* One writer, as long as nothing is deleted.                              *)

Untouched == entry.exists /\ entry.deletion = "none"
Up(b) == box[b].state \in {"starting", "live"}
GatePlaces == {"quiesce", "verify", "destroy", "remove"}

Fresh == used.calls = 0 => ~entry.exists /\ Quiet /\ \A b \in Boxes : ~Up(b)

\* Before a deletion nobody clears the spawner's lock: what starts holds it, and
\* what lives is recorded.
Locked ==
  /\ \A b \in Boxes : box[b].state = "starting" => lock = b /\ ~IsLive(pidfile)
  /\ \A b \in Boxes : IsLive(b) => pidfile = b

Ungated == \A o \in Slots : ops[o].pc \notin GatePlaces

Guarded == Untouched => Ungated /\ Locked

\* What the service does: a turn of one operation.
Acts(o) ==
  /\ UNCHANGED <<runVars, patient>>
  /\ Asked(o) \/ (ops[o].pc # "idle" /\ used'.calls = used.calls)
  /\ Untouched' => Create(o) \/ Untouched
  /\ \E r \in Recs : Turns(o, r) /\ (r.pc \in GatePlaces => ~Untouched')

LEMMA AlikeUntouched ==
  ASSUME Alike(entry', entry)
  PROVE  Untouched' <=> Untouched
BY DEF Alike, Untouched

\* A turn that leaves the entry in its place.
LEMMA TurnActs ==
  ASSUME NEW o, UNCHANGED <<runVars, patient>>,
         Asked(o) \/ (ops[o].pc # "idle" /\ used'.calls = used.calls),
         Alike(entry', entry), NEW r \in Recs, Turns(o, r), r.pc \in GatePlaces => ~Untouched
  PROVE  Acts(o)
BY AlikeUntouched DEF Acts

LEMMA EnrollTurns ==
  ASSUME TypeOK, NEW o \in Slots, NEW rec \in Recs, NEW e \in Entries, Alike(e, entry),
         NEW gen \in Gens, NEW tok \in Toks, Enroll(o, rec, e, gen, tok)
  PROVE  /\ Alike(entry', entry)
         /\ \E r \in Recs : Turns(o, r) /\ r.pc \notin GatePlaces
<1>1. Binds(o, rec, e, gen, tok) \/ Refuses(o, rec, e, gen, tok)
  BY EnrollIs
<1>2. CASE Binds(o, rec, e, gen, tok)
  BY <1>2 DEF Binds, Alike, GatePlaces
<1>3. CASE Refuses(o, rec, e, gen, tok)
  BY <1>3, IdleIsRec DEF Refuses, Alike, GatePlaces, Idle
<1> QED BY <1>1, <1>2, <1>3

LEMMA EnsureTurns ==
  ASSUME TypeOK, NEW o \in Slots, NEW rec \in Recs, rec.num \in Toks, Ensure(o, rec)
  PROVE  /\ Alike(entry', entry)
         /\ \E r \in Recs : Turns(o, r) /\ r.pc \notin GatePlaces
<1>1. \/ \E e \in Entries : Alike(e, entry) /\ Enroll(o, rec, e, 1, rec.num)
      \/ Looks(o, rec)
  BY EnsureIs
<1>2. 1 \in Gens
  BY BoundsInNat DEF Toks, Gens, Boxes
<1>3. CASE Looks(o, rec)
  BY <1>3 DEF Looks, GatePlaces
<1>4. ASSUME NEW e \in Entries, Alike(e, entry), Enroll(o, rec, e, 1, rec.num)
      PROVE  /\ Alike(entry', entry)
             /\ \E r \in Recs : Turns(o, r) /\ r.pc \notin GatePlaces
  BY <1>2, <1>4, EnrollTurns
<1> QED BY <1>1, <1>3, <1>4

LEMMA StartsAct ==
  ASSUME Typed, Guarded, NEW o \in Slots,
         Create(o) \/ Start(o) \/ Prepared(o) \/ PreparedInVain(o) \/ NotPrepared(o)
  PROVE  Acts(o)
<1>1. TypeOK /\ Idle.pc \notin GatePlaces /\ Idle \in Recs
  BY IdleIsRec DEF Typed, Idle, GatePlaces
<1>2. CASE Create(o)
  <2>1. PICK r \in Recs : Turns(o, r) /\ r.pc = "prepare"
    BY <1>2, CreateIs
  <2>2. Asked(o) /\ UNCHANGED <<runVars, patient>>
    BY <1>2, CreateIs DEF providerVars, runVars
  <2> QED BY <1>2, <2>1, <2>2 DEF Acts, GatePlaces
<1>3. CASE Start(o)
  <2>1. Asked(o) /\ Ensure(o, Snapshot("start")) /\ UNCHANGED <<runVars, patient>>
    BY <1>3 DEF Start
  <2>2. PICK rec \in Recs : rec = Snapshot("start") /\ rec.num \in Toks
    BY <1>1, <2>1, AskedIs, SnapshotIs DEF Kinds
  <2> QED BY <1>1, <2>1, <2>2, EnsureTurns, TurnActs
<1>4. CASE Prepared(o)
  <2>1. ops[o].pc = "prepare" /\ Inside
    BY <1>4, PreparedIs
  <2>2. Flying(o) /\ used'.calls = used.calls /\ UNCHANGED <<runVars, patient>>
    BY <2>1, InFlight DEF Inside
  <2>3. ASSUME NEW rec \in Recs, rec.num = ops[o].num, Ensure(o, rec) PROVE Acts(o)
    <3>1. rec.num \in Toks
      BY <2>2, <2>3 DEF Flying
    <3> QED BY <1>1, <2>1, <2>2, <2>3, <3>1, EnsureTurns, TurnActs
  <2>4. ASSUME NEW e \in Entries, Alike(e, entry), GiveUp(o, e) PROVE Acts(o)
    <3>1. Turns(o, Idle) /\ Alike(entry', entry)
      BY <1>1, <2>4, GiveUpIs DEF Alike
    <3> QED BY <1>1, <2>1, <2>2, <3>1, TurnActs
  <2> QED BY <1>4, <2>3, <2>4, PreparedIs
<1>5. CASE PreparedInVain(o)
  <2>1. /\ ops[o].pc = "prepare" /\ Turns(o, Idle) /\ Alike(entry', entry)
        /\ used'.calls = used.calls /\ UNCHANGED <<runVars, patient>>
    BY <1>1, <1>5 DEF PreparedInVain, End, Put, Turns, Alike, providerVars, runVars
  <2> QED BY <1>1, <2>1, TurnActs
<1>6. CASE NotPrepared(o)
  <2>1. /\ ops[o].pc = "prepare" /\ Turns(o, Idle) /\ OneMoreFailure /\ ~Untouched'
        /\ UNCHANGED <<runVars, patient>>
    BY <1>1, <1>6 DEF NotPrepared, End, Put, Turns, providerVars, runVars, Untouched, NoEntry
  <2> QED BY <1>1, <2>1, FailureIs DEF Acts
<1> QED BY <1>2, <1>3, <1>4, <1>5, <1>6

LEMMA AnswersAct ==
  ASSUME Typed, Guarded, NEW o \in Slots, Inspected(o) \/ Replaced(o) \/ Ensured(o)
  PROVE  Acts(o)
<1>1. TypeOK /\ Idle.pc \notin GatePlaces /\ Idle \in Recs
  BY IdleIsRec DEF Typed, Idle, GatePlaces
<1>2. CASE Inspected(o) \/ Replaced(o)
  <2>1. ops[o].pc # "idle" /\ Inside
    BY <1>2, InspectedIs, ReplacedIs DEF Inside
  <2>2. Flying(o) /\ used'.calls = used.calls /\ UNCHANGED <<runVars, patient>>
    BY <2>1, InFlight DEF Inside
  <2>3. ops[o] \in Recs /\ entry \in Entries /\ Alike(entry, entry) /\ ops[o].num \in Toks
    BY <2>2 DEF Flying, Alike
  <2>4. ASSUME NEW gen \in Gens, NEW tok \in Toks, Enroll(o, ops[o], entry, gen, tok)
        PROVE  Acts(o)
    BY <1>1, <2>1, <2>2, <2>3, <2>4, EnrollTurns, TurnActs
  <2>5. ASSUME GiveUp(o, entry) PROVE Acts(o)
    <3>1. Turns(o, Idle) /\ Alike(entry', entry)
      BY <1>1, <2>3, <2>5, GiveUpIs DEF Alike
    <3> QED BY <1>1, <2>1, <2>2, <3>1, TurnActs
  <2>6. ASSUME Await(o, ops[o], "replace"), UNCHANGED entry PROVE Acts(o)
    <3>1. PICK r \in Recs : Turns(o, r) /\ r.pc = "replace"
      BY <2>3, <2>6, AwaitIs DEF Places, Awaiting
    <3>2. Alike(entry', entry) /\ "replace" \notin GatePlaces
      BY <2>6 DEF Alike, GatePlaces
    <3> QED BY <2>1, <2>2, <3>1, <3>2, TurnActs
  <2>7. ASSUME ops[o].auth + 1 \in Gens, Enroll(o, ops[o], entry, ops[o].auth + 1, ops[o].num)
        PROVE  Acts(o)
    <3>1. PICK g \in Gens : g = ops[o].auth + 1
      BY <2>7
    <3> QED BY <2>3, <2>4, <2>7, <3>1
  <2>8. CASE Inspected(o)
    BY <2>4, <2>5, <2>6, <2>7, <2>8, InspectedIs
  <2>9. CASE Replaced(o)
    BY <2>5, <2>7, <2>9, ReplacedIs
  <2> QED BY <1>2, <2>8, <2>9
<1>3. CASE Ensured(o)
  <2>1. /\ ops[o].pc = "ensure" /\ Turns(o, Idle) /\ used'.calls = used.calls
        /\ UNCHANGED <<runVars, patient>> /\ (Upped(o) \/ Dropped(o))
    BY <1>3, EnsuredIs DEF providerVars, runVars
  <2>2. Untouched' <=> Untouched
    BY <2>1, AlikeUntouched DEF Upped, Dropped, Untouched
  <2> QED BY <1>1, <2>1, <2>2 DEF Acts
<1> QED BY <1>2, <1>3

LEMMA StopsAct ==
  ASSUME Typed, Guarded, NEW o \in Slots, Stop(o) \/ Stopped(o)
  PROVE  Acts(o)
<1>1. TypeOK /\ Idle.pc \notin GatePlaces /\ Idle \in Recs
  BY IdleIsRec DEF Typed, Idle, GatePlaces
<1>2. CASE Stop(o)
  <2>1. Asked(o) /\ UNCHANGED <<runVars, patient>> /\ Alike(entry', entry) /\ ops[o] = Idle
    BY <1>1, <1>2, StopIs, AskedIs DEF providerVars, runVars
  <2>2. CASE UNCHANGED ops
    <3>1. Turns(o, Idle)
      BY <1>1, <2>1, <2>2, TypeNames DEF Turns
    <3> QED BY <1>1, <2>1, <3>1, TurnActs
  <2>3. ASSUME NEW r \in Recs, Turns(o, r), r.pc = "stop" PROVE Acts(o)
    BY <2>1, <2>3, TurnActs DEF GatePlaces
  <2> QED BY <1>2, <2>2, <2>3, StopIs
<1>3. CASE Stopped(o)
  <2>1. /\ ops[o].pc = "stop" /\ Turns(o, Idle) /\ Alike(entry', entry)
        /\ used'.calls = used.calls /\ UNCHANGED <<runVars, patient>>
    BY <1>3, StoppedIs DEF Inside
  <2> QED BY <1>1, <2>1, TurnActs
<1> QED BY <1>2, <1>3

LEMMA GateActs ==
  ASSUME Typed, Guarded, NEW o \in Slots,
         \/ Delete(o) \/ DeleteRefused(o) \/ Quiesced(o) \/ Verified(o) \/ Destroyed(o)
         \/ GateFails(o) \/ GateThrows(o) \/ Removed(o)
  PROVE  Acts(o) /\ ~Untouched'
<1>1. TypeOK /\ Idle.pc \notin GatePlaces /\ Idle \in Recs
  BY IdleIsRec DEF Typed, Idle, GatePlaces
<1>2. CASE Delete(o)
  <2>1. Asked(o) /\ UNCHANGED <<runVars, patient>> /\ ~Untouched'
    BY <1>2, DeleteIs DEF providerVars, runVars, Untouched
  <2> QED BY <1>2, <2>1, DeleteIs DEF Acts
<1>3. ASSUME ops[o].pc \in GatePlaces PROVE ~Untouched /\ ops[o].pc # "idle"
  BY <1>3 DEF Guarded, Ungated, GatePlaces
<1>4. ASSUME ops[o].pc \in GatePlaces, Blocked(o), used'.calls = used.calls,
             UNCHANGED <<runVars, patient>>
      PROVE  Acts(o) /\ ~Untouched'
  <2>1. Turns(o, Idle) /\ ~Untouched'
    BY <1>1, <1>4, BlockedIs DEF Untouched
  <2> QED BY <1>1, <1>3, <1>4, <2>1 DEF Acts
<1>5. ASSUME ops[o].pc \in GatePlaces, NEW pc, NEW gen, Proceeds(o, pc, gen),
             used'.calls = used.calls, UNCHANGED <<runVars, patient>>
      PROVE  Acts(o) /\ ~Untouched'
  <2>1. PICK r \in Recs : Turns(o, r)
    BY <1>5 DEF Proceeds
  <2>2. ~Untouched'
    BY <1>3, <1>5, AlikeUntouched DEF Proceeds
  <2> QED BY <1>3, <1>5, <2>1, <2>2 DEF Acts
<1>6. CASE Quiesced(o)
  <2>1. /\ ops[o].pc = "quiesce" /\ used'.calls = used.calls /\ UNCHANGED <<runVars, patient>>
        /\ (Blocked(o) \/ Proceeds(o, {"verify"}, ops[o].gen))
    BY <1>6, QuiescedIs DEF providerVars, runVars
  <2> QED BY <1>4, <1>5, <2>1 DEF GatePlaces
<1>7. CASE Verified(o)
  <2>1. /\ ops[o].pc = "verify" /\ used'.calls = used.calls /\ UNCHANGED <<runVars, patient>>
        /\ (Blocked(o) \/ Proceeds(o, {"destroy", "remove"}, entry.auth))
    BY <1>7, VerifiedIs DEF providerVars, runVars
  <2> QED BY <1>4, <1>5, <2>1 DEF GatePlaces
<1>8. CASE Destroyed(o)
  <2>1. /\ ops[o].pc = "destroy" /\ used'.calls = used.calls /\ UNCHANGED <<runVars, patient>>
        /\ (Blocked(o) \/ Proceeds(o, {"remove"}, ops[o].gen))
    BY <1>8, DestroyedIs DEF providerVars, runVars
  <2> QED BY <1>4, <1>5, <2>1 DEF GatePlaces
<1>9. CASE GateFails(o)
  <2>1. /\ ops[o].pc \in {"verify", "remove"} /\ Blocked(o) /\ OneMoreFailure
        /\ UNCHANGED <<runVars, patient>>
    BY <1>9 DEF GateFails, providerVars, runVars
  <2> QED BY <1>1, <1>4, <2>1, FailureIs DEF GatePlaces
<1>10. CASE Removed(o)
  <2>1. /\ ops[o].pc = "remove" /\ Turns(o, Idle) /\ ~Untouched' /\ used'.calls = used.calls
        /\ UNCHANGED <<runVars, patient>>
    BY <1>1, <1>10 DEF Removed, End, Put, Turns, providerVars, runVars, Untouched, NoEntry
  <2> QED BY <1>1, <2>1 DEF Acts
<1>11. CASE GateThrows(o)
  <2>1. /\ ops[o].pc \in GatePlaces /\ Turns(o, Idle) /\ used'.calls = used.calls
        /\ UNCHANGED <<runVars, patient>> /\ UNCHANGED entry
    BY <1>11, GateThrowsIs DEF GatePlaces, providerVars, runVars
  <2>2. ~Untouched' /\ ops[o].pc # "idle"
    BY <1>3, <2>1 DEF Untouched
  <2> QED BY <1>1, <2>1, <2>2 DEF Acts
<1>12. CASE DeleteRefused(o)
  <2>1. Asked(o) /\ Turns(o, Idle) /\ UNCHANGED <<runVars, patient>> /\ ~Untouched'
    BY <1>12, DeleteRefusedIs DEF providerVars, runVars, Untouched
  <2> QED BY <1>1, <2>1 DEF Acts
<1> QED BY <1>2, <1>6, <1>7, <1>8, <1>9, <1>10, <1>11, <1>12

LEMMA LookedActs ==
  ASSUME Typed, Guarded, Looked
  PROVE  Boot \in Slots /\ Acts(Boot)
<1>1. TypeOK /\ Idle.pc \notin GatePlaces /\ Idle \in Recs
  BY IdleIsRec DEF Typed, Idle, GatePlaces
<1>2. Boot \in Slots /\ ops[Boot].pc = "look" /\ Inside
  BY LookedIs
<1>3. Flying(Boot) /\ used'.calls = used.calls /\ UNCHANGED <<runVars, patient>>
  BY <1>2, InFlight DEF Inside
<1>4. ASSUME NEW rec \in Recs, rec.num = ops[Boot].num, Ensure(Boot, rec) PROVE Acts(Boot)
  <2>1. rec.num \in Toks
    BY <1>3, <1>4 DEF Flying
  <2> QED BY <1>1, <1>2, <1>3, <1>4, <2>1, EnsureTurns, TurnActs
<1>5. ASSUME NEW e \in Entries, Alike(e, entry), GiveUp(Boot, e) PROVE Acts(Boot)
  <2>1. Turns(Boot, Idle) /\ Alike(entry', entry)
    BY <1>1, <1>5, GiveUpIs DEF Alike
  <2> QED BY <1>1, <1>2, <1>3, <2>1, TurnActs
<1> QED BY <1>2, <1>4, <1>5, LookedIs

LEMMA ServiceActs ==
  ASSUME Typed, Guarded, NEW o \in Slots, ServiceStep(o)
  PROVE  Acts(o)
BY StartsAct, AnswersAct, StopsAct, GateActs DEF ServiceStep, Continue

\* The provider answers, or spawns.
Provides(o) ==
  /\ ops[o].pc # "idle"
  /\ UNCHANGED <<entry, creds, revoked, gate, watcher, ahead, patient>>
  /\ used'.calls = used.calls /\ used'.restarts = used.restarts /\ used'.deaths = used.deaths
  /\ Issued' = Issued
  /\ \E r \in Recs : /\ Turns(o, r) /\ r.pc = ops[o].pc /\ r.num = ops[o].num
                     /\ r.auth = ops[o].auth /\ r.gen = ops[o].gen /\ r.bind = ops[o].bind
                     /\ r.tok = ops[o].tok

LEMMA ProvideIs ==
  ASSUME Typed, NEW o \in Slots, Provide(o) \/ ProviderFails(o)
  PROVE  Provides(o)
<1>1. TypeOK /\ ops \in [Slots -> Recs]
  BY TypeNames DEF Typed
<1>2. CASE \/ Inspects(o) \/ Stops(o) \/ Deletes(o) \/ EnsuresNothing(o)
           \/ EnsuresBehindLock(o) \/ Spawned(o)
  <2>1. /\ ops[o].pc # "idle" /\ \E answer \in Answers : Reply(o, answer)
        /\ UNCHANGED <<entry, creds, revoked, gate, watcher, ahead, patient, used>>
    BY <1>2, ObservedIs DEF Inspects, Stops, Deletes, EnsuresNothing, EnsuresBehindLock, Spawned,
       MayEnsure, Asks, credVars, Answers
  <2> QED BY <2>1, ReplyIs DEF Provides, Issued
<1>3. CASE Spawns(o)
  <2>1. /\ ops[o].pc # "idle" /\ UNCHANGED ops
        /\ UNCHANGED <<entry, creds, revoked, gate, watcher, ahead, patient, used>>
    BY <1>3 DEF Spawns, MayEnsure, Asks, credVars
  <2>2. ops[o] \in Recs /\ Turns(o, ops[o])
    BY <1>1, <2>1 DEF Turns
  <2> QED BY <2>1, <2>2 DEF Provides, Issued
<1>4. CASE ProviderFails(o)
  <2>1. /\ ops[o].pc # "idle" /\ Reply(o, "failed") /\ "failed" \in Answers
        /\ UNCHANGED <<entry, creds, revoked, gate, watcher, ahead, patient>>
        /\ used' = [used EXCEPT !.failures = used.failures + 1]
    BY <1>4 DEF ProviderFails, Awaiting, credVars, Answers, OneMoreFailure
  <2>2. /\ used'.calls = used.calls /\ used'.restarts = used.restarts
        /\ used'.deaths = used.deaths /\ Issued' = Issued
    BY <1>1, <2>1 DEF TypeOK, Issued
  <2> QED BY <2>1, <2>2, ReplyIs DEF Provides
<1> QED BY <1>2, <1>3, <1>4 DEF Provide

LEMMA FreshStep ==
  ASSUME Typed, Guarded, Fresh, [Next]_vars
  PROVE  Fresh'
<1>1. TypeOK /\ used.calls \in Nat
  BY TypeNames DEF Typed
<1>2. ASSUME used'.calls = 0 PROVE ~entry'.exists /\ Quiet' /\ \A b \in Boxes : ~Up(b)'
  <2>1. ASSUME NEW o \in Slots, Acts(o) \/ Provides(o) PROVE FALSE
    <3>1. CASE Asked(o)
      BY <1>1, <1>2, <3>1, AskedIs
    <3>2. CASE ops[o].pc # "idle" /\ used'.calls = used.calls
      <4>1. ops[o] # Idle
        BY <3>2 DEF Idle
      <4> QED BY <1>2, <3>2, <4>1 DEF Fresh, Quiet
    <3> QED BY <2>1, <3>1, <3>2 DEF Acts, Provides
  <2>2. ASSUME NEW b \in Boxes, BoxStep(b) PROVE FALSE
    <3>1. Up(b) /\ used.calls = 0
      BY <1>1, <1>2, <2>2, BoxStepIs DEF Up
    <3> QED BY <3>1 DEF Fresh
  <2>3. CASE AsideStep
    <3>1. Aside
      BY <1>1, <2>3, AsideIs
    <3> QED BY <1>2, <3>1 DEF Fresh, Aside, Alike, Quiet, Up, providerVars
  <2>4. CASE SpawnedForNobody \/ UNCHANGED vars
    <3>1. UNCHANGED <<entry, ops, box, used>>
      BY <2>4 DEF SpawnedForNobody, vars, providerVars
    <3> QED BY <1>2, <3>1 DEF Fresh, Quiet, Up
  <2>5. CASE Restart
    <3>1. /\ used.calls = 0 /\ entry'.exists = entry.exists /\ UNCHANGED box
          /\ \A o \in Slots : ops'[o] = Idle \/ entry.exists
      BY <1>2, <2>5, RestartIs DEF providerVars
    <3> QED BY <3>1 DEF Fresh, Quiet, Up
  <2> QED BY <2>1, <2>2, <2>3, <2>4, <2>5, Steps, ServiceActs, ProvideIs, LookedActs
<1> QED BY <1>2 DEF Fresh

LEMMA BoxNames ==
  ASSUME TypeOK
  PROVE  /\ box \in Sandboxes /\ pidfile \in {0} \cup Boxes /\ lock \in {0} \cup Boxes
         /\ 0 \notin Boxes
BY TypeNames DEF Sandboxes, Boxes

\* The provider leaves what starts locked and what lives recorded.
LEMMA ProvideLocked ==
  ASSUME Typed, Locked, NEW o \in Slots, ~Deletes(o), Provide(o) \/ ProviderFails(o)
  PROVE  Locked'
<1>1. TypeOK
  BY DEF Typed
<1>2. box \in Sandboxes /\ pidfile \in {0} \cup Boxes /\ lock \in {0} \cup Boxes /\ 0 \notin Boxes
  BY <1>1, BoxNames
<1>3. CASE Inspects(o) \/ EnsuresNothing(o) \/ EnsuresBehindLock(o) \/ ProviderFails(o)
  BY <1>3 DEF Inspects, EnsuresNothing, EnsuresBehindLock, ProviderFails, providerVars, Locked, IsLive
<1>4. CASE Stops(o)
  <2>1. StopRecorded /\ UNCHANGED <<pidfile, lock>>
    BY <1>4 DEF Stops
  <2>2. \A c \in Boxes : box'[c].state = IF c = pidfile /\ IsLive(c) THEN "dead" ELSE box[c].state
    BY <1>1, <2>1, StopRecordedIs
  <2> QED BY <1>2, <2>1, <2>2 DEF Locked, IsLive
<1>5. CASE Spawns(o)
  <2>1. ops[o].pc = "ensure" /\ Spawn(ops[o].num, ops[o].gen)
    BY <1>5 DEF Spawns, MayEnsure, Asks
  <2>2. Flying(o)
    BY <2>1, InFlight
  <2>3. PICK b \in Boxes, gen \in {0} \cup Gens : b = ops[o].num /\ gen = ops[o].gen
    BY <2>2 DEF Flying, Recs, Toks
  <2>4. /\ pidfile' \in {0, pidfile} /\ lock = 0 /\ lock' = b /\ ~IsLive(pidfile)
        /\ \A c \in Boxes : c # b => box'[c] = box[c]
        /\ box'[b].state = "starting"
    BY <1>1, <2>1, <2>3, SpawnIs
  <2> QED BY <1>2, <2>3, <2>4 DEF Locked, IsLive
<1>6. CASE Spawned(o)
  <2>1. /\ SpawnSettled(ops[o].num) /\ Unlock(ops[o].num) /\ UNCHANGED <<box, pidfile>>
    BY <1>6 DEF Spawned
  <2> QED BY <1>2, <2>1 DEF Locked, IsLive, SpawnSettled, Unlock
<1> QED BY <1>3, <1>4, <1>5, <1>6 DEF Provide

LEMMA BoxStepLocked ==
  ASSUME Typed, Locked, NEW b \in Boxes, BoxStep(b)
  PROVE  Locked'
<1>1. /\ UNCHANGED lock
      /\ \A c \in Boxes : c # b => box'[c].state = box[c].state
      /\ \/ box[b].state = "starting" /\ box'[b].state = "live" /\ pidfile' = b
         \/ box[b].state \in {"starting", "live"} /\ box'[b].state = "dead" /\ UNCHANGED pidfile
  BY BoxStepIs DEF Typed
<1>2. box \in Sandboxes /\ pidfile \in {0} \cup Boxes /\ lock \in {0} \cup Boxes /\ 0 \notin Boxes
  BY BoxNames DEF Typed
<1> QED BY <1>1, <1>2 DEF Locked, IsLive

LEMMA SameLocked ==
  ASSUME Locked, UNCHANGED runVars
  PROVE  Locked'
BY DEF Locked, runVars, IsLive

LEMMA GuardedStep ==
  ASSUME Typed, Guarded, Fresh, [Next]_vars
  PROVE  Guarded'
<1>1. TypeOK /\ ops \in [Slots -> Recs] /\ Idle.pc \notin GatePlaces
  BY TypeNames DEF Typed, Idle, GatePlaces
<1>2. ASSUME NEW o \in Slots, Acts(o) PROVE Guarded'
  <2>1. PICK r \in Recs : Turns(o, r) /\ (r.pc \in GatePlaces => ~Untouched')
    BY <1>2 DEF Acts
  <2>2. UNCHANGED runVars /\ (Untouched' => Create(o) \/ Untouched)
    BY <1>2 DEF Acts
  <2>3. \A p \in Slots : ops'[p] = IF p = o THEN r ELSE ops[p]
    BY <1>1, <2>1 DEF Turns
  <2>4. ASSUME Untouched' PROVE Ungated /\ Locked
    <3>1. CASE Create(o)
      <4>1. used.calls = 0
        BY <3>1, CreateIs
      <4>2. Quiet /\ \A b \in Boxes : ~Up(b)
        BY <4>1 DEF Fresh
      <4> QED BY <1>1, <4>2, BoxNames DEF Quiet, Up, Ungated, Locked, IsLive, GatePlaces
    <3> QED BY <2>2, <2>4, <3>1 DEF Guarded
  <2> QED BY <2>1, <2>2, <2>3, <2>4, SameLocked DEF Guarded, Ungated
<1>3. ASSUME NEW o \in Slots, Provide(o) \/ ProviderFails(o) PROVE Guarded'
  <2>1. Provides(o)
    BY <1>3, ProvideIs
  <2>2. PICK r \in Recs : Turns(o, r) /\ r.pc = ops[o].pc
    BY <2>1 DEF Provides
  <2>3. \A p \in Slots : ops'[p].pc = ops[p].pc
    BY <1>1, <2>2 DEF Turns
  <2>4. Untouched' <=> Untouched
    BY <2>1 DEF Provides, Untouched
  <2>5. ASSUME Untouched PROVE ~Deletes(o)
    BY <2>5 DEF Guarded, Ungated, Deletes, Asks, GatePlaces
  <2> QED BY <1>3, <2>3, <2>4, <2>5, ProvideLocked DEF Guarded, Ungated
<1>4. ASSUME NEW b \in Boxes, BoxStep(b) PROVE Guarded'
  <2>1. UNCHANGED <<entry, ops>>
    BY <1>1, <1>4, BoxStepIs
  <2> QED BY <1>4, <2>1, BoxStepLocked DEF Guarded, Ungated, Untouched
<1>5. CASE AsideStep
  <2>1. Aside
    BY <1>1, <1>5, AsideIs
  <2>2. UNCHANGED <<ops, runVars>> /\ (Untouched' <=> Untouched)
    BY <2>1, AlikeUntouched DEF Aside, providerVars, runVars
  <2> QED BY <2>2, SameLocked DEF Guarded, Ungated
<1>6. CASE SpawnedForNobody
  <2>1. UNCHANGED <<entry, ops, box, pidfile>> /\ SpawnSettled(lock) /\ Unlock(lock)
    BY <1>6 DEF SpawnedForNobody
  <2>2. Locked => Locked'
    BY <1>1, <2>1, BoxNames DEF Locked, IsLive, SpawnSettled, Unlock
  <2> QED BY <2>1, <2>2 DEF Guarded, Ungated, Untouched
<1>7. CASE Restart
  <2>1. /\ entry'.exists = entry.exists /\ (entry'.deletion = "none" <=> entry.deletion = "none")
        /\ UNCHANGED providerVars
        /\ \A o \in Slots : ops'[o] = Idle \/ ops'[o].pc = "look"
    BY <1>7, RestartIs
  <2>2. UNCHANGED runVars /\ (Untouched' <=> Untouched) /\ Ungated'
    BY <1>1, <2>1 DEF providerVars, runVars, Untouched, Ungated, GatePlaces
  <2> QED BY <2>2, SameLocked DEF Guarded
<1>8. CASE UNCHANGED vars
  <2>1. UNCHANGED <<entry, ops, runVars>>
    BY <1>8 DEF vars, providerVars, runVars
  <2> QED BY <2>1, SameLocked DEF Guarded, Ungated, Untouched
<1> QED BY <1>2, <1>3, <1>4, <1>5, <1>6, <1>7, <1>8, Steps, ServiceActs, LookedActs

Fenced == Typed /\ Fresh /\ Guarded

LEMMA FencedAlways == Spec => []Fenced
<1>1. Init => Fenced
  <2> SUFFICES ASSUME Init PROVE Fenced
    OBVIOUS
  <2>1. Typed
    BY TypedStart
  <2>2. entry = NoEntry /\ ops = [o \in Slots |-> Idle] /\ box = [b \in Boxes |-> Unborn]
    BY DEF Init, ProviderInit
  <2>3. Fresh /\ Guarded
    BY <2>2 DEF Fresh, Guarded, Untouched, NoEntry, Quiet, Up, Unborn
  <2> QED BY <2>1, <2>3 DEF Fenced
<1>2. Fenced /\ [Next]_vars => Fenced'
  BY TypedStep, FreshStep, GuardedStep DEF Fenced
<1> QED BY <1>1, <1>2, PTL DEF Spec

-----------------------------------------------------------------------------
(* Clients that wait for one another.                                      *)

Alone == \A o, p \in Slots : ops[o] # Idle /\ ops[p] # Idle => o = p

Single == \A b, c \in Boxes : Up(b) /\ Up(c) => b = c

\* The entry is what the operation in flight took it for, and the credential
\* it may make is new.
Stands(r) ==
  /\ r.pc \in {"inspect", "replace", "ensure"} => Untouched
  /\ r.pc = "prepare" => entry.exists /\ entry.auth = 0 /\ entry.enr = Unbound
  /\ r.pc \in {"inspect", "replace"} => r.auth = entry.auth /\ r.bind = entry.enr
  /\ r.pc = "ensure" => /\ r.gen \in {entry.auth, entry.auth + 1} /\ r.gen # 0
                        /\ entry.enr = [gen |-> r.gen, tok |-> r.tok] /\ handover = entry.enr
  /\ r.pc \in {"look", "prepare", "inspect", "replace"} =>
       r.num \notin revoked /\ r.num # entry.enr.tok

Current == \A o \in Slots : Stands(ops[o])

\* The entry's binding is the one credential, and nobody revoked it.
Vouched ==
  /\ revoked \subseteq 1..Issued /\ entry.enr.tok <= Issued
  /\ entry.enr # Unbound => /\ entry.enr.gen \in {entry.auth, entry.auth + 1}
                            /\ entry.enr.tok \notin revoked
                            /\ creds[entry.enr.gen] = entry.enr.tok
                            /\ handover.gen = entry.enr.gen => handover = entry.enr
                            /\ Untouched
  /\ \A g \in Gens : creds[g] # 0 => entry.enr.gen = g /\ entry.enr.tok = creds[g]

LEMMA BindingIs ==
  ASSUME NEW b \in Bindings
  PROVE  /\ b = [gen |-> b.gen, tok |-> b.tok]
         /\ b # Unbound => b.gen \in Gens /\ b.tok \in Toks
         /\ b = Unbound <=> b.gen = 0
         /\ b = Unbound <=> b.tok = 0
         /\ Unbound.gen = 0 /\ Unbound.tok = 0
         /\ b.gen \in Nat /\ b.tok \in Nat
BY BoundsInNat DEF Bindings, Unbound, Gens, Toks, Boxes

\* What is known of the credentials.
LEMMA CredNames ==
  ASSUME TypeOK
  PROVE  /\ entry.enr \in Bindings /\ handover \in Bindings /\ creds \in [Gens -> {0} \cup Toks]
         /\ entry.auth \in Nat /\ Issued \in Nat /\ 0 \notin Gens /\ 0 \notin Toks
         /\ Gens \subseteq Nat /\ Toks \subseteq Nat
         /\ entry.enr.gen \in Nat /\ entry.enr.tok \in Nat
BY TypeNames, BindingIs, BoundsInNat DEF Entries, Gens, Toks, Boxes

LEMMA SameVouched ==
  ASSUME Typed, Vouched, UNCHANGED <<creds, revoked>>, Issued' \in Nat, Issued <= Issued',
         entry'.enr = entry.enr, entry'.auth = entry.auth,
         entry.enr # Unbound => (Untouched => Untouched'),
         entry.enr # Unbound => UNCHANGED handover
  PROVE  Vouched'
<1>1. /\ Issued \in Nat /\ entry.enr.tok \in Nat
  BY CredNames DEF Typed
<1> QED BY <1>1 DEF Vouched

LEMMA EnrollVouched ==
  ASSUME Typed, Vouched, NEW o \in Slots, NEW rec \in Recs, NEW e \in Entries,
         Alike(e, entry), e.enr = entry.enr, Untouched, rec.auth = entry.auth,
         NEW gen \in Gens, NEW tok \in Toks, Enroll(o, rec, e, gen, tok),
         Issued' \in Nat, Issued <= Issued',
         \/ /\ gen = rec.auth + 1 /\ tok \notin revoked /\ tok # entry.enr.tok
            /\ tok <= Issued'
         \/ /\ gen = rec.auth /\ tok = handover.tok /\ handover.gen = gen
            /\ entry.enr.gen = gen
  PROVE  Vouched' /\ \E r \in Recs : Turns(o, r) /\ Stands(r)'
<1> DEFINE bumped == IF rec.auth # 0 /\ gen > rec.auth THEN {rec.auth} ELSE {}
           taken  == creds[gen] \notin {0, tok}
<1>1. /\ entry.enr \in Bindings /\ handover \in Bindings /\ creds \in [Gens -> {0} \cup Toks]
      /\ entry.auth \in Nat /\ Issued \in Nat /\ 0 \notin Gens /\ 0 \notin Toks
      /\ Gens \subseteq Nat /\ Toks \subseteq Nat
      /\ entry.enr.gen \in Nat /\ entry.enr.tok \in Nat /\ TypeOK
  BY CredNames DEF Typed
<1>2. e.exists /\ e.auth = entry.auth /\ e.deletion = "none"
  BY DEF Alike, Untouched
<1>3. Binds(o, rec, e, gen, tok) \/ Refuses(o, rec, e, gen, tok)
  BY <1>1, EnrollIs
<1>4. /\ revoked' = revoked \cup {creds[g] : g \in bumped \cap Enrolled}
      /\ creds' = [g \in Gens |-> IF g \in bumped THEN 0
                                  ELSE IF g = gen /\ ~taken THEN tok
                                  ELSE creds[g]]
  BY <1>2 DEF Enroll
<1>5. Untouched'
  BY <1>2, <1>3 DEF Binds, Refuses, Alike, Untouched
<1>6. entry.enr # Unbound => creds[entry.enr.gen] = entry.enr.tok /\ entry.enr.gen \in Gens
                             /\ entry.enr.tok \in Toks
  BY <1>1, BindingIs DEF Vouched
<1>7. \A g \in Gens : creds[g] # 0 => entry.enr.gen = g /\ entry.enr.tok = creds[g]
  BY DEF Vouched
<1>8. entry'.auth = entry.auth
  BY <1>2, <1>3 DEF Binds, Refuses, Alike
<1>9. CASE Binds(o, rec, e, gen, tok)
  <2>1. /\ ~taken /\ handover' = [gen |-> gen, tok |-> tok] /\ entry'.enr = handover'
    BY <1>9 DEF Binds
  <2>2. PICK r \in Recs : Turns(o, r) /\ r.pc = "ensure" /\ r.gen = gen /\ r.tok = tok
    BY <1>9 DEF Binds
  <2>3. gen \in {entry.auth, entry.auth + 1} /\ entry'.enr.gen = gen /\ entry'.enr.tok = tok
        /\ gen # 0
    BY <1>1, <2>1
  <2>4. Stands(r)'
    BY <1>5, <1>8, <2>1, <2>2, <2>3 DEF Stands
  <2>5. CASE /\ gen = rec.auth + 1 /\ tok \notin revoked /\ tok # entry.enr.tok
             /\ tok <= Issued'
    <3>1. creds[gen] = 0
      BY <1>1, <1>7, <2>1, <2>5
    <3>2. \A g \in Gens : creds[g] # 0 => g = rec.auth /\ g \in bumped /\ creds[g] = entry.enr.tok
                                          /\ entry.enr # Unbound
      <4>1. ASSUME NEW g \in Gens, creds[g] # 0
            PROVE  g = rec.auth /\ g \in bumped /\ creds[g] = entry.enr.tok /\ entry.enr # Unbound
        <5>1. entry.enr.gen = g /\ entry.enr.tok = creds[g] /\ g # 0
          BY <1>1, <1>7, <4>1
        <5>2. entry.enr # Unbound
          BY <1>1, <5>1, BindingIs
        <5>3. g \in {entry.auth, entry.auth + 1}
          BY <5>1, <5>2 DEF Vouched
        <5>4. g = rec.auth
          BY <2>5, <3>1, <4>1, <5>3
        <5> QED BY <1>1, <2>5, <5>1, <5>2, <5>4
      <4> QED BY <4>1
    <3>3. revoked' \subseteq revoked \cup {entry.enr.tok}
      BY <1>4, <3>2 DEF Enrolled
    <3>4. revoked' \subseteq 1..Issued'
      <4>1. ASSUME NEW t \in revoked' PROVE t \in 1..Issued'
        <5>1. CASE t \in revoked
          BY <1>1, <5>1 DEF Vouched
        <5>2. CASE t \notin revoked
          <6>1. PICK g \in Gens : creds[g] # 0 /\ t = creds[g]
            BY <1>4, <4>1, <5>2 DEF Enrolled
          <6>2. t = entry.enr.tok /\ entry.enr # Unbound
            BY <3>2, <6>1
          <6>3. entry.enr.tok \in Toks /\ entry.enr.tok <= Issued
            BY <1>6, <6>2 DEF Vouched
          <6> QED BY <1>1, <6>2, <6>3 DEF Toks, Boxes
        <5> QED BY <5>1, <5>2
      <4> QED BY <4>1
    <3>5. tok \notin revoked'
      BY <2>5, <3>3
    <3>6. gen \notin bumped
      BY <1>1, <2>5
    <3>7. creds'[gen] = tok
      BY <1>4, <2>1, <3>6
    <3>8. \A g \in Gens : creds'[g] # 0 => g = gen
      BY <1>4, <3>2
    <3>9. Vouched'
      BY <1>1, <1>5, <1>8, <2>1, <2>3, <2>5, <3>4, <3>5, <3>7, <3>8 DEF Vouched
    <3> QED BY <2>2, <2>4, <3>9
  <2>6. CASE /\ gen = rec.auth /\ tok = handover.tok /\ handover.gen = gen
             /\ entry.enr.gen = gen
    <3>1. entry.enr # Unbound
      BY <1>1, <2>6, BindingIs
    <3>2. handover = entry.enr /\ tok = entry.enr.tok /\ creds[gen] = tok /\ tok \notin revoked
      BY <2>6, <3>1 DEF Vouched
    <3>3. bumped = {}
      BY <1>1, <2>6
    <3>4. revoked' = revoked /\ creds'[gen] = tok /\ \A g \in Gens : g # gen => creds'[g] = creds[g]
      BY <1>4, <2>1, <3>3
    <3>5. \A g \in Gens : creds'[g] # 0 => g = gen
      BY <1>7, <2>6, <3>4
    <3>6. revoked' \subseteq 1..Issued' /\ tok <= Issued'
      BY <1>1, <3>2, <3>4 DEF Vouched
    <3>7. Vouched'
      BY <1>1, <1>5, <1>8, <2>1, <2>3, <3>2, <3>4, <3>5, <3>6 DEF Vouched
    <3> QED BY <2>2, <2>4, <3>7
  <2> QED BY <2>5, <2>6
<1>10. CASE Refuses(o, rec, e, gen, tok)
  <2>1. /\ creds[gen] \notin {0, tok} /\ UNCHANGED handover /\ Turns(o, Idle)
        /\ entry'.enr = IF rec.auth # 0 /\ gen > rec.auth /\ e.enr.gen = rec.auth
                        THEN Unbound ELSE e.enr
    BY <1>2, <1>10 DEF Refuses
  <2>2. entry.enr.gen = gen /\ entry.enr.tok = creds[gen] /\ entry.enr # Unbound
    BY <1>1, <1>7, <2>1, BindingIs
  <2>3. gen = rec.auth + 1
    <3>1. CASE gen = rec.auth /\ tok = handover.tok /\ handover.gen = gen
      BY <2>1, <2>2, <3>1 DEF Vouched
    <3> QED BY <3>1
  <2>4. entry'.enr = entry.enr
    BY <1>1, <2>1, <2>2, <2>3
  <2>5. \A g \in Gens : g # gen => creds[g] = 0
    BY <1>7, <2>2
  <2>6. bumped \cap Enrolled = {}
    BY <1>1, <2>3, <2>5 DEF Enrolled
  <2>7. revoked' = revoked
    BY <1>4, <2>6
  <2>8. creds' = creds
    <3>1. \A g \in Gens : creds'[g] = creds[g]
      BY <1>4, <2>1, <2>5, <2>3, <1>1
    <3>2. creds' = [g \in Gens |-> creds[g]]
      BY <1>4, <3>1
    <3> QED BY <1>1, <3>2
  <2>9. Vouched'
    BY <1>5, <1>8, <2>1, <2>4, <2>7, <2>8, SameVouched
  <2>10. Stands(Idle)' /\ Idle \in Recs
    BY IdleIsRec DEF Stands, Idle
  <2> QED BY <2>1, <2>9, <2>10
<1> QED BY <1>3, <1>9, <1>10

\* A revocation of what the entry's binding names, or of what nobody has.
LEMMA RevokeVouched ==
  ASSUME Typed, Vouched, NEW gens, Revoke(gens), Issued' \in Nat, Issued <= Issued',
         UNCHANGED handover, entry'.auth = entry.auth,
         \/ entry'.enr = entry.enr /\ entry.enr.gen \notin gens
         \/ entry'.enr = Unbound /\ (entry.enr.gen \in gens \/ entry.enr = Unbound),
         entry'.enr # Unbound => (Untouched => Untouched')
  PROVE  Vouched'
<1>1. /\ entry.enr \in Bindings /\ handover \in Bindings /\ creds \in [Gens -> {0} \cup Toks]
      /\ entry.auth \in Nat /\ Issued \in Nat /\ 0 \notin Gens /\ 0 \notin Toks
      /\ entry.enr.gen \in Nat /\ entry.enr.tok \in Nat /\ Unbound.tok = 0 /\ Unbound.gen = 0
  BY CredNames, BindingIs DEF Typed
<1>2. /\ creds' = [g \in Gens |-> IF g \in gens THEN 0 ELSE creds[g]]
      /\ revoked' = revoked \cup {creds[g] : g \in gens \cap Enrolled}
  BY DEF Revoke
<1>3. \A g \in Gens : creds[g] # 0 => /\ entry.enr.gen = g /\ entry.enr.tok = creds[g]
                                      /\ entry.enr # Unbound /\ entry.enr.tok \in Toks
  <2>1. ASSUME NEW g \in Gens, creds[g] # 0
        PROVE  /\ entry.enr.gen = g /\ entry.enr.tok = creds[g]
               /\ entry.enr # Unbound /\ entry.enr.tok \in Toks
    <3>1. entry.enr.gen = g /\ entry.enr.tok = creds[g]
      BY <2>1 DEF Vouched
    <3> QED BY <1>1, <2>1, <3>1, BindingIs
  <2> QED BY <2>1
<1>4. revoked' \subseteq 1..Issued'
  <2>1. ASSUME NEW t \in revoked' PROVE t \in 1..Issued'
    <3>1. CASE t \in revoked
      BY <1>1, <3>1 DEF Vouched
    <3>2. CASE t \notin revoked
      <4>1. PICK g \in Gens : creds[g] # 0 /\ t = creds[g]
        BY <1>2, <2>1, <3>2 DEF Enrolled
      <4>2. t = entry.enr.tok /\ t \in Toks /\ t <= Issued
        BY <1>3, <4>1 DEF Vouched
      <4> QED BY <1>1, <4>2 DEF Toks, Boxes
    <3> QED BY <3>1, <3>2
  <2> QED BY <2>1
<1>5. CASE entry'.enr = entry.enr /\ entry.enr.gen \notin gens
  <2>1. gens \cap Enrolled = {}
    BY <1>3, <1>5 DEF Enrolled
  <2>2. revoked' = revoked
    BY <1>2, <2>1
  <2>3. \A g \in Gens : creds'[g] # 0 => creds[g] # 0 /\ creds'[g] = creds[g]
    BY <1>2
  <2>4. entry.enr # Unbound => creds'[entry.enr.gen] = creds[entry.enr.gen]
    BY <1>1, <1>2, <1>5, BindingIs
  <2> QED BY <1>1, <1>3, <1>4, <1>5, <2>2, <2>3, <2>4 DEF Vouched
<1>6. CASE entry'.enr = Unbound /\ (entry.enr.gen \in gens \/ entry.enr = Unbound)
  <2>1. \A g \in Gens : creds'[g] = 0
    BY <1>1, <1>2, <1>3, <1>6
  <2> QED BY <1>1, <1>4, <1>6, <2>1 DEF Vouched
<1> QED BY <1>5, <1>6

\* Nothing is enrolled, and nothing will be in this step.
LEMMA UnboundVouched ==
  ASSUME Typed, Vouched, UNCHANGED <<creds, revoked>>, Issued' \in Nat, Issued <= Issued',
         entry.enr = Unbound, entry'.enr = Unbound
  PROVE  Vouched'
<1>1. Issued \in Nat /\ entry.enr.tok \in Nat /\ Unbound.tok = 0
  BY CredNames, BindingIs, IdleIsRec DEF Typed
<1> QED BY <1>1 DEF Vouched

-----------------------------------------------------------------------------
(* One turn at a time.                                                     *)

LEMMA OthersIdle ==
  ASSUME Typed, Alone, patient, NEW o \in Slots, Acts(o) \/ Provides(o)
  PROVE  \A p \in Slots : p # o => ops[p] = Idle /\ ops'[p] = Idle
<1>1. ops \in [Slots -> Recs]
  BY TypeNames DEF Typed
<1>2. \A p \in Slots : p # o => ops[p] = Idle
  <2>1. CASE Asked(o)
    BY <2>1 DEF Asked, Quiet
  <2>2. CASE ops[o].pc # "idle"
    <3>1. ops[o] # Idle
      BY <2>2 DEF Idle
    <3> QED BY <3>1 DEF Alone
  <2> QED BY <2>1, <2>2 DEF Acts, Provides
<1>3. PICK r \in Recs : ops' = [ops EXCEPT ![o] = r]
  BY DEF Acts, Provides, Turns
<1> QED BY <1>1, <1>2, <1>3

LEMMA StandsIdle == Stands(Idle)'
BY DEF Stands, Idle

LEMMA TurnStands ==
  ASSUME Typed, Alone, patient, NEW o \in Slots, Acts(o) \/ Provides(o),
         NEW r, Turns(o, r), Stands(r)'
  PROVE  Current'
<1>1. ops \in [Slots -> Recs]
  BY TypeNames DEF Typed
<1>2. ops'[o] = r
  BY <1>1 DEF Turns
<1>3. \A p \in Slots : p # o => ops'[p] = Idle
  BY OthersIdle
<1>4. ASSUME NEW p \in Slots PROVE Stands(ops[p])'
  <2>1. CASE p = o
    <3>1. ops'[p] = r
      BY <1>2, <2>1
    <3> QED BY <3>1 DEF Stands
  <2>2. CASE p # o
    <3>1. ops'[p] = Idle
      BY <1>3, <2>2
    <3> QED BY <3>1, StandsIdle DEF Stands
  <2> QED BY <2>1, <2>2
<1> QED BY <1>4 DEF Current

LEMMA AloneStep ==
  ASSUME Typed, Guarded, Alone, patient, [Next]_vars
  PROVE  Alone'
<1>1. TypeOK
  BY DEF Typed
<1>2. ASSUME NEW o \in Slots, Acts(o) \/ Provides(o) PROVE Alone'
  BY <1>2, OthersIdle DEF Alone
<1>3. CASE UNCHANGED ops
  BY <1>3 DEF Alone
<1>4. CASE Restart
  <2>1. \A o \in Slots : ops'[o] = Idle \/ o = Boot
    BY <1>4, RestartIs
  <2> QED BY <2>1 DEF Alone
<1>5. AsideStep \/ SpawnedForNobody \/ (\E b \in Boxes : BoxStep(b)) \/ UNCHANGED vars
        => UNCHANGED ops
  BY <1>1, AsideIs, BoxStepIs DEF Aside, SpawnedForNobody, vars
<1> QED BY <1>2, <1>3, <1>4, <1>5, Steps, ServiceActs, ProvideIs, LookedActs

-----------------------------------------------------------------------------
(* The service keeps the credentials as they were vouched for.             *)

Trusted == Fenced /\ Alone /\ Current /\ Vouched /\ patient

Settled(o) == Vouched' /\ \E r \in Recs : Turns(o, r) /\ Stands(r)'

LEMMA IssuedGrows ==
  ASSUME Typed, NEW o \in Slots, Asked(o) \/ Issued' = Issued
  PROVE  Issued \in Nat /\ Issued' \in Nat /\ Issued <= Issued'
BY AskedIs, TypeNames DEF Typed

\* The credential an operation may still make is new.
LEMMA NewIsNew ==
  ASSUME Typed, Vouched
  PROVE  Issued + 1 \notin revoked /\ Issued + 1 # entry.enr.tok
BY CredNames DEF Typed, Vouched

LEMMA GiveUpSettled ==
  ASSUME Trusted, NEW o \in Slots, NEW e \in Entries, Alike(e, entry), e.enr = entry.enr,
         GiveUp(o, e), Issued' = Issued
  PROVE  Settled(o)
<1>1. /\ Turns(o, Idle) /\ Alike(entry', e) /\ entry'.enr = e.enr
      /\ UNCHANGED <<credVars, handover>> /\ Typed /\ Vouched
  BY GiveUpIs DEF Trusted, Fenced, Typed
<1>2. Alike(entry', entry)
  BY <1>1 DEF Alike
<1>3. Vouched'
  BY <1>1, <1>2, AlikeUntouched, IssuedGrows, SameVouched DEF Alike, credVars
<1> QED BY <1>1, <1>3, StandsIdle, IdleIsRec DEF Settled

LEMMA EnsureSettled ==
  ASSUME Trusted, NEW o \in Slots, NEW rec \in Recs, rec.num \in Toks, Ensure(o, rec),
         Untouched, rec.auth = entry.auth, rec.bind = entry.enr,
         rec.num \notin revoked, rec.num # entry.enr.tok,
         Issued' \in Nat, Issued <= Issued', rec.num <= Issued'
  PROVE  Settled(o)
<1>1. Typed /\ TypeOK /\ Vouched
  BY DEF Trusted, Fenced, Typed
<1>2. \/ rec.auth = 0 /\ \E e \in Entries : /\ Alike(e, entry) /\ e.enr = entry.enr
                                            /\ Enroll(o, rec, e, 1, rec.num)
      \/ Looks(o, rec)
  BY <1>1, EnsureIs
<1>3. 1 \in Gens
  BY BoundsInNat DEF Toks, Gens, Boxes
<1>4. ASSUME rec.auth = 0, NEW e \in Entries, Alike(e, entry), e.enr = entry.enr,
             Enroll(o, rec, e, 1, rec.num)
      PROVE  Settled(o)
  <2>1. PICK tok \in Toks : tok = rec.num
    OBVIOUS
  <2>2. 1 = rec.auth + 1 /\ tok \notin revoked /\ tok # entry.enr.tok /\ tok <= Issued'
        /\ Enroll(o, rec, e, 1, tok)
    BY <1>4, <2>1
  <2> QED BY <1>1, <1>3, <1>4, <2>2, EnrollVouched DEF Settled
<1>5. CASE Looks(o, rec)
  <2>1. /\ UNCHANGED <<credVars, handover>>
        /\ Alike(entry', entry) /\ entry'.enr = entry.enr
    BY <1>5 DEF Looks
  <2>2. PICK r \in Recs : /\ Turns(o, r) /\ r.pc = "inspect" /\ r.num = rec.num
                          /\ r.auth = rec.auth /\ r.bind = rec.bind
    BY <1>5 DEF Looks
  <2>3. Vouched'
    BY <1>1, <2>1, AlikeUntouched, SameVouched DEF Alike, credVars
  <2>4. Stands(r)'
    BY <2>1, <2>2, AlikeUntouched DEF Stands, Alike, credVars
  <2> QED BY <2>2, <2>3, <2>4 DEF Settled
<1> QED BY <1>2, <1>4, <1>5

LEMMA CreateSettled ==
  ASSUME Trusted, NEW o \in Slots, Create(o)
  PROVE  Settled(o)
<1>1. Typed /\ TypeOK /\ Vouched /\ Fresh
  BY DEF Trusted, Fenced, Typed
<1>2. /\ Asked(o) /\ used.calls = 0 /\ UNCHANGED <<credVars, providerVars>>
      /\ entry'.exists /\ entry'.auth = 0 /\ entry'.enr = Unbound
  BY <1>1, CreateIs
<1>3. PICK r \in Recs : Turns(o, r) /\ r.pc = "prepare" /\ r.num = Issued + 1
  BY <1>1, CreateIs
<1>4. entry.enr = Unbound
  BY <1>1, <1>2 DEF Fresh, Vouched, Untouched
<1>5. Vouched'
  BY <1>1, <1>2, <1>4, IssuedGrows, UnboundVouched DEF credVars
<1>6. Issued + 1 \notin revoked /\ Issued + 1 # 0
  BY <1>1, NewIsNew, CredNames
<1>7. Stands(r)'
  BY <1>2, <1>3, <1>6 DEF Stands, credVars, Unbound
<1> QED BY <1>3, <1>5, <1>7 DEF Settled

LEMMA StartSettled ==
  ASSUME Trusted, NEW o \in Slots, Start(o)
  PROVE  Settled(o)
<1>1. Typed /\ TypeOK /\ Vouched
  BY DEF Trusted, Fenced, Typed
<1>2. Asked(o) /\ Untouched /\ Ensure(o, Snapshot("start"))
  BY DEF Start, Untouched
<1>3. Issued' = Issued + 1 /\ Issued < MaxOps /\ Issued \in Nat
  BY <1>1, <1>2, AskedIs
<1>4. PICK rec \in Recs : /\ rec = Snapshot("start") /\ rec.num = Issued + 1 /\ rec.num \in Toks
                          /\ rec.auth = entry.auth /\ rec.bind = entry.enr
  BY <1>1, <1>3, SnapshotIs DEF Kinds
<1>5. rec.num \notin revoked /\ rec.num # entry.enr.tok /\ Issued' \in Nat /\ Issued <= Issued'
      /\ rec.num <= Issued'
  BY <1>1, <1>3, <1>4, NewIsNew
<1> QED BY <1>2, <1>4, <1>5, EnsureSettled

LEMMA PreparedSettled ==
  ASSUME Trusted, NEW o \in Slots, Prepared(o) \/ (Looked /\ o = Boot)
  PROVE  Settled(o)
<1>1. Typed /\ TypeOK /\ Vouched /\ Current
  BY DEF Trusted, Fenced, Typed
<1>2. /\ ops[o].pc \in {"prepare", "look"} /\ Inside
      /\ \/ /\ entry.exists /\ entry.deletion = "none"
            /\ \E rec \in Recs : /\ rec.num = ops[o].num
                                 /\ rec.auth = entry.auth /\ rec.bind = entry.enr
                                 /\ Ensure(o, rec)
         \/ \E e \in Entries : Alike(e, entry) /\ e.enr = entry.enr /\ GiveUp(o, e)
  BY <1>1, PreparedIs, LookedIs
<1>3. Issued' = Issued
  BY <1>2 DEF Inside, Issued
<1>4. Flying(o) /\ Issued \in Nat
  BY <1>1, <1>2, InFlight, TypeNames
<1>5. Stands(ops[o])
  BY <1>1 DEF Current
<1>6. ASSUME Untouched, NEW rec \in Recs, rec.num = ops[o].num, rec.auth = entry.auth,
             rec.bind = entry.enr, Ensure(o, rec)
      PROVE  Settled(o)
  <2>1. rec.num \in Toks /\ rec.num <= Issued' /\ Issued' \in Nat /\ Issued <= Issued'
    BY <1>3, <1>4, <1>6 DEF Flying
  <2>2. rec.num \notin revoked /\ rec.num # entry.enr.tok
    BY <1>2, <1>5, <1>6 DEF Stands
  <2> QED BY <1>6, <2>1, <2>2, EnsureSettled
<1>7. ASSUME NEW e \in Entries, Alike(e, entry), e.enr = entry.enr, GiveUp(o, e)
      PROVE  Settled(o)
  BY <1>3, <1>7, GiveUpSettled
<1> QED BY <1>2, <1>6, <1>7 DEF Untouched

\* An operation that ends before anything was enrolled, or with the entry.
LEMMA UnpreparedSettled ==
  ASSUME Trusted, NEW o \in Slots, NotPrepared(o) \/ PreparedInVain(o) \/ Removed(o)
  PROVE  Settled(o)
<1>1. Typed /\ TypeOK /\ Vouched /\ Current /\ Guarded
  BY DEF Trusted, Fenced, Typed
<1>2. Turns(o, Idle) /\ UNCHANGED <<creds, revoked>> /\ entry' \in {entry, NoEntry}
      /\ ops[o].pc \in {"prepare", "remove"}
  BY IdleIsRec DEF NotPrepared, PreparedInVain, Removed, End, Put, Turns, credVars
<1>3. Issued' = Issued
  BY <1>1, FailureIs DEF NotPrepared, PreparedInVain, Removed, Issued
<1>4. entry.enr = Unbound
  <2>1. CASE ops[o].pc = "prepare"
    BY <1>1, <2>1 DEF Current, Stands
  <2>2. CASE ops[o].pc = "remove"
    <3>1. ~Untouched
      BY <1>1, <2>2 DEF Guarded, Ungated, GatePlaces
    <3> QED BY <1>1, <3>1 DEF Vouched
  <2> QED BY <1>2, <2>1, <2>2
<1>5. entry'.enr = Unbound
  BY <1>2, <1>4 DEF NoEntry
<1>6. Vouched'
  BY <1>1, <1>2, <1>3, <1>4, <1>5, IssuedGrows, UnboundVouched
<1> QED BY <1>2, <1>6, StandsIdle, IdleIsRec DEF Settled

LEMMA InspectedSettled ==
  ASSUME Trusted, NEW o \in Slots, Inspected(o) \/ Replaced(o)
  PROVE  Settled(o)
<1>1. Typed /\ TypeOK /\ Vouched /\ Current
  BY DEF Trusted, Fenced, Typed
<1>2. ops[o].pc \in {"inspect", "replace"} /\ Inside
  BY <1>1, InspectedIs, ReplacedIs DEF Inside
<1>3. Issued' = Issued
  BY <1>2 DEF Inside, Issued
<1>4. Flying(o) /\ Issued \in Nat
  BY <1>1, <1>2, InFlight, TypeNames
<1>5. /\ Untouched /\ ops[o].auth = entry.auth /\ ops[o].bind = entry.enr
      /\ ops[o].num \notin revoked /\ ops[o].num # entry.enr.tok
  BY <1>1, <1>2 DEF Current, Stands
<1>6. /\ ops[o] \in Recs /\ entry \in Entries /\ Alike(entry, entry) /\ ops[o].num \in Toks
      /\ Issued' \in Nat /\ Issued <= Issued' /\ ops[o].num <= Issued'
  BY <1>3, <1>4 DEF Flying, Alike
<1>7. ASSUME ops[o].auth + 1 \in Gens, Enroll(o, ops[o], entry, ops[o].auth + 1, ops[o].num)
      PROVE  Settled(o)
  <2>1. PICK rec \in Recs, gen \in Gens, tok \in Toks :
          rec = ops[o] /\ gen = ops[o].auth + 1 /\ tok = ops[o].num
    BY <1>6, <1>7
  <2>2. Enroll(o, rec, entry, gen, tok) /\ rec.auth = entry.auth /\ gen = rec.auth + 1
        /\ tok \notin revoked /\ tok # entry.enr.tok /\ tok <= Issued'
    BY <1>5, <1>6, <1>7, <2>1
  <2> QED BY <1>1, <1>5, <1>6, <2>2, EnrollVouched DEF Settled
<1>8. ASSUME Reusable(ops[o]), handover.tok \in Toks, ops[o].auth \in Gens,
             Enroll(o, ops[o], entry, ops[o].auth, handover.tok)
      PROVE  Settled(o)
  <2>1. PICK rec \in Recs, gen \in Gens, tok \in Toks :
          rec = ops[o] /\ gen = ops[o].auth /\ tok = handover.tok
    BY <1>6, <1>8
  <2>2. Enroll(o, rec, entry, gen, tok) /\ rec.auth = entry.auth /\ gen = rec.auth
        /\ tok = handover.tok /\ handover.gen = gen /\ entry.enr.gen = gen
    BY <1>5, <1>8, <2>1 DEF Reusable
  <2> QED BY <1>1, <1>5, <1>6, <2>2, EnrollVouched DEF Settled
<1>9. ASSUME GiveUp(o, entry) PROVE Settled(o)
  BY <1>3, <1>6, <1>9, GiveUpSettled
<1>10. ASSUME Await(o, ops[o], "replace"), UNCHANGED <<entry, credVars, handover>>
       PROVE  Settled(o)
  <2>1. PICK r \in Recs : /\ Turns(o, r) /\ r.pc = "replace" /\ r.num = ops[o].num
                          /\ r.auth = ops[o].auth /\ r.bind = ops[o].bind
    BY <1>6, <1>10, AwaitIs DEF Places, Awaiting
  <2>2. Vouched'
    BY <1>1, <1>3, <1>6, <1>10, SameVouched DEF credVars, Untouched
  <2>3. Stands(r)'
    BY <1>5, <1>10, <2>1 DEF Stands, credVars, Untouched
  <2> QED BY <2>1, <2>2, <2>3 DEF Settled
<1>11. CASE Inspected(o)
  BY <1>1, <1>7, <1>8, <1>9, <1>10, <1>11, InspectedIs
<1>12. CASE Replaced(o)
  BY <1>1, <1>7, <1>9, <1>12, ReplacedIs
<1> QED BY <1>11, <1>12

LEMMA EnsuredSettled ==
  ASSUME Trusted, NEW o \in Slots, Ensured(o)
  PROVE  Settled(o)
<1>1. Typed /\ TypeOK /\ Vouched /\ Current
  BY DEF Trusted, Fenced, Typed
<1>2. /\ ops[o].pc = "ensure" /\ Turns(o, Idle) /\ UNCHANGED <<providerVars, used>>
      /\ (Upped(o) \/ Dropped(o))
  BY <1>1, EnsuredIs
<1>3. Issued' = Issued /\ UNCHANGED handover
  BY <1>2 DEF Issued, providerVars
<1>4. Issued \in Nat /\ Issued' \in Nat /\ Issued <= Issued'
  BY <1>1, <1>3, IssuedGrows
<1>5. /\ entry.enr = [gen |-> ops[o].gen, tok |-> ops[o].tok] /\ ops[o].gen # 0 /\ Untouched
  BY <1>1, <1>2 DEF Current, Stands
<1>6. CASE Upped(o)
  <2>1. /\ UNCHANGED <<creds, revoked>> /\ entry'.enr = entry.enr /\ entry'.auth = entry.enr.gen
        /\ Untouched'
    BY <1>5, <1>6 DEF Upped, credVars, Untouched
  <2>2. entry.enr.tok \in Nat
    BY <1>1, CredNames
  <2>3. Vouched'
    BY <1>3, <1>4, <1>1, <2>1, <2>2 DEF Vouched
  <2> QED BY <1>2, <2>3, StandsIdle, IdleIsRec DEF Settled
<1>7. CASE Dropped(o)
  <2>1. Revoke({ops[o].gen}) /\ entry'.auth = entry.auth /\ entry'.enr = Unbound
        /\ entry.enr.gen \in {ops[o].gen}
    BY <1>5, <1>7 DEF Dropped, Alike
  <2>2. PICK gens : gens = {ops[o].gen}
    OBVIOUS
  <2>3. Revoke(gens) /\ entry'.auth = entry.auth /\ entry'.enr = Unbound
        /\ entry.enr.gen \in gens
    BY <2>1, <2>2
  <2>4. Vouched'
    BY <1>1, <1>3, <1>4, <2>3, RevokeVouched
  <2> QED BY <1>2, <2>4, StandsIdle, IdleIsRec DEF Settled
<1> QED BY <1>2, <1>6, <1>7

LEMMA StopSettled ==
  ASSUME Trusted, NEW o \in Slots, Stop(o)
  PROVE  Settled(o)
<1>1. Typed /\ TypeOK /\ Vouched /\ ops \in [Slots -> Recs]
  BY TypeNames DEF Trusted, Fenced, Typed
<1>2. /\ Asked(o) /\ UNCHANGED <<creds, revoked, handover>>
      /\ Alike(entry', entry) /\ entry'.enr = entry.enr
      /\ \/ \E r \in Recs : Turns(o, r) /\ r.pc = "stop"
         \/ UNCHANGED ops
  BY <1>1, StopIs DEF credVars, providerVars
<1>3. Vouched'
  BY <1>1, <1>2, AlikeUntouched, IssuedGrows, SameVouched DEF Alike
<1>4. ASSUME NEW r \in Recs, Turns(o, r), r.pc = "stop" PROVE Settled(o)
  BY <1>3, <1>4 DEF Settled, Stands
<1>5. CASE UNCHANGED ops
  <2>1. ops[o] = Idle /\ Turns(o, Idle)
    BY <1>1, <1>2, <1>5, IdleIsRec DEF Asked, Turns
  <2> QED BY <1>3, <2>1, StandsIdle, IdleIsRec DEF Settled
<1> QED BY <1>2, <1>4, <1>5

LEMMA StoppedSettled ==
  ASSUME Trusted, NEW o \in Slots, Stopped(o)
  PROVE  Settled(o)
<1>1. Typed /\ TypeOK /\ Vouched
  BY DEF Trusted, Fenced, Typed
<1>2. /\ Turns(o, Idle) /\ Inside /\ UNCHANGED handover /\ Alike(entry', entry)
      /\ \/ UNCHANGED <<entry, credVars>>
         \/ /\ Revoke({ops[o].auth})
            /\ entry'.enr = IF entry.enr.gen = ops[o].auth THEN Unbound ELSE entry.enr
  BY <1>1, StoppedIs
<1>3. Issued' = Issued
  BY <1>2 DEF Inside, Issued
<1>4. Issued' \in Nat /\ Issued <= Issued'
  BY <1>1, <1>3, IssuedGrows
<1>5. CASE UNCHANGED <<entry, credVars>>
  <2>1. Vouched'
    BY <1>1, <1>2, <1>4, <1>5, AlikeUntouched, SameVouched DEF credVars
  <2> QED BY <1>2, <2>1, StandsIdle, IdleIsRec DEF Settled
<1>6. CASE /\ Revoke({ops[o].auth})
           /\ entry'.enr = IF entry.enr.gen = ops[o].auth THEN Unbound ELSE entry.enr
  <2>1. PICK gens : gens = {ops[o].auth}
    OBVIOUS
  <2>2. /\ Revoke(gens) /\ entry'.auth = entry.auth
        /\ \/ entry'.enr = entry.enr /\ entry.enr.gen \notin gens
           \/ entry'.enr = Unbound /\ entry.enr.gen \in gens
        /\ Untouched => Untouched'
    BY <1>2, <1>6, <2>1, AlikeUntouched DEF Alike
  <2>3. Vouched'
    BY <1>1, <1>2, <1>4, <2>2, RevokeVouched
  <2> QED BY <1>2, <2>3, StandsIdle, IdleIsRec DEF Settled
<1> QED BY <1>2, <1>5, <1>6

LEMMA DeleteSettled ==
  ASSUME Trusted, NEW o \in Slots, Delete(o)
  PROVE  Settled(o)
<1>1. Typed /\ TypeOK /\ Vouched
  BY DEF Trusted, Fenced, Typed
<1>2. /\ Asked(o) /\ Revoke({entry.enr.gen}) /\ UNCHANGED handover
      /\ entry'.enr = Unbound /\ entry'.auth = entry.auth
  BY <1>1, DeleteIs DEF providerVars
<1>3. PICK r \in Recs : Turns(o, r) /\ r.pc \in {"quiesce", "verify"}
  BY <1>1, DeleteIs
<1>4. PICK gens : gens = {entry.enr.gen}
  OBVIOUS
<1>5. Revoke(gens) /\ entry.enr.gen \in gens
  BY <1>2, <1>4
<1>6. Issued' \in Nat /\ Issued <= Issued'
  BY <1>1, <1>2, IssuedGrows
<1>7. Vouched'
  BY <1>1, <1>2, <1>5, <1>6, RevokeVouched
<1> QED BY <1>3, <1>7 DEF Settled, Stands

LEMMA RefusedSettled ==
  ASSUME Trusted, NEW o \in Slots, DeleteRefused(o)
  PROVE  Settled(o)
<1>1. Typed /\ TypeOK /\ Vouched
  BY DEF Trusted, Fenced, Typed
<1>2. /\ Asked(o) /\ UNCHANGED <<creds, revoked, handover>> /\ Turns(o, Idle)
      /\ entry'.enr = entry.enr /\ entry'.auth = entry.auth
      /\ entry.deletion = "deleting" /\ entry'.deletion = "retry"
  BY <1>1, DeleteRefusedIs DEF credVars, providerVars
<1>3. Issued' \in Nat /\ Issued <= Issued'
  BY <1>1, <1>2, IssuedGrows
<1>4. Untouched' <=> Untouched
  BY <1>2 DEF Untouched
<1>5. Vouched'
  BY <1>1, <1>2, <1>3, <1>4, SameVouched
<1>6. Stands(Idle)'
  BY DEF Stands, Idle
<1> QED BY <1>2, <1>5, <1>6, IdleIsRec DEF Settled

\* At the gate nothing is bound, so that whatever the gate revokes is nobody's.
LEMMA GateSettled ==
  ASSUME Trusted, NEW o \in Slots,
         Quiesced(o) \/ Verified(o) \/ Destroyed(o) \/ GateFails(o) \/ GateThrows(o)
  PROVE  Settled(o)
<1>1. Typed /\ TypeOK /\ Vouched /\ Guarded
  BY DEF Trusted, Fenced, Typed
<1>2. /\ ops[o].pc \in GatePlaces /\ UNCHANGED handover
      /\ used'.calls = used.calls /\ used'.restarts = used.restarts
      /\ UNCHANGED <<creds, revoked>> \/ Revoke({ops[o].gen})
      /\ \/ Blocked(o)
         \/ /\ entry'.auth = entry.auth /\ entry'.enr \in {Unbound, entry.enr}
            /\ \E r \in Recs : Turns(o, r) /\ r.pc \in {"idle", "verify", "destroy", "remove"}
  <2>1. CASE Quiesced(o)
    BY <1>1, <2>1, QuiescedIs DEF credVars, providerVars, GatePlaces, Proceeds, Alike
  <2>2. CASE Verified(o)
    BY <1>1, <2>2, VerifiedIs DEF credVars, providerVars, GatePlaces, Proceeds, Alike
  <2>3. CASE Destroyed(o)
    BY <1>1, <2>3, DestroyedIs DEF credVars, providerVars, GatePlaces, Proceeds, Alike
  <2>4. CASE GateFails(o)
    <3>1. used'.calls = used.calls /\ used'.restarts = used.restarts
      BY <1>1, <2>4, FailureIs DEF GateFails
    <3> QED BY <2>4, <3>1 DEF GateFails, credVars, providerVars, GatePlaces
  <2>5. CASE GateThrows(o)
    BY <1>1, <2>5, GateThrowsIs, IdleIsRec DEF Idle, credVars, providerVars, GatePlaces
  <2> QED BY <2>1, <2>2, <2>3, <2>4, <2>5
<1>3. entry.enr = Unbound
  BY <1>1, <1>2 DEF Guarded, Ungated, Vouched
<1>4. entry'.enr = Unbound /\ entry'.auth = entry.auth
      /\ \E r \in Recs : Turns(o, r) /\ r.pc \in {"idle", "verify", "destroy", "remove"}
  <2>1. CASE Blocked(o)
    BY <1>1, <1>3, <2>1, BlockedIs, IdleIsRec DEF Idle
  <2> QED BY <1>2, <1>3, <2>1
<1>5. Issued' = Issued
  BY <1>2 DEF Issued
<1>6. Issued' \in Nat /\ Issued <= Issued'
  BY <1>1, <1>5, IssuedGrows
<1>7. Vouched'
  <2>1. CASE UNCHANGED <<creds, revoked>>
    BY <1>1, <1>3, <1>4, <1>6, <2>1, UnboundVouched
  <2>2. CASE Revoke({ops[o].gen})
    <3>1. PICK gens : gens = {ops[o].gen}
      OBVIOUS
    <3>2. Revoke(gens)
      BY <2>2, <3>1
    <3> QED BY <1>1, <1>2, <1>3, <1>4, <1>6, <3>2, RevokeVouched
  <2> QED BY <1>2, <2>1, <2>2
<1> QED BY <1>4, <1>7 DEF Settled, Stands

LEMMA ServiceSettled ==
  ASSUME Trusted, NEW o \in Slots, ServiceStep(o)
  PROVE  Settled(o)
BY CreateSettled, StartSettled, StopSettled, DeleteSettled, RefusedSettled, PreparedSettled,
   UnpreparedSettled, InspectedSettled, EnsuredSettled, StoppedSettled, GateSettled DEF ServiceStep, Continue

-----------------------------------------------------------------------------
(* So does everything else.                                                *)

\* Only a provider that deletes touches the hand-over file.
LEMMA ProvideHandover ==
  ASSUME Typed, NEW o \in Slots, Provide(o) \/ ProviderFails(o), ~Deletes(o)
  PROVE  UNCHANGED handover
BY DEF Provide, ProviderFails, Inspects, Stops, EnsuresNothing, Spawns, EnsuresBehindLock, Spawned,
   Spawn, providerVars

LEMMA ProvideSettled ==
  ASSUME Trusted, NEW o \in Slots, Provide(o) \/ ProviderFails(o)
  PROVE  Settled(o)
<1>1. Typed /\ TypeOK /\ Vouched /\ Guarded /\ Current
  BY DEF Trusted, Fenced, Typed
<1>2. Provides(o)
  BY <1>1, ProvideIs
<1>3. UNCHANGED <<entry, creds, revoked>> /\ Issued' = Issued
  BY <1>2 DEF Provides
<1>4. Issued' \in Nat /\ Issued <= Issued'
  BY <1>1, <1>3, IssuedGrows
<1>5. PICK r \in Recs : /\ Turns(o, r) /\ r.pc = ops[o].pc /\ r.num = ops[o].num
                        /\ r.auth = ops[o].auth /\ r.gen = ops[o].gen /\ r.bind = ops[o].bind
                        /\ r.tok = ops[o].tok
  BY <1>2 DEF Provides
<1>6. CASE Deletes(o)
  <2>1. ops[o].pc = "destroy"
    BY <1>6 DEF Deletes, Asks
  <2>2. entry.enr = Unbound
    BY <1>1, <2>1 DEF Guarded, Ungated, GatePlaces, Vouched
  <2>3. Vouched'
    BY <1>1, <1>3, <1>4, <2>2, UnboundVouched
  <2> QED BY <1>5, <2>1, <2>3 DEF Settled, Stands
<1>7. CASE ~Deletes(o)
  <2>1. UNCHANGED handover
    BY <1>1, <1>7, ProvideHandover
  <2>2. Vouched'
    BY <1>1, <1>3, <1>4, <2>1, SameVouched DEF Untouched
  <2>3. Stands(ops[o])
    BY <1>1 DEF Current
  <2>4. Stands(r)'
    BY <1>3, <1>5, <2>1, <2>3 DEF Stands, Untouched
  <2> QED BY <1>5, <2>2, <2>4 DEF Settled
<1> QED BY <1>6, <1>7

\* No operation turns and the entry stays in its place.
LEMMA StillSettled ==
  ASSUME Trusted, UNCHANGED <<creds, revoked, ops, handover>>, Issued' = Issued,
         Alike(entry', entry), entry'.enr = entry.enr
  PROVE  Vouched' /\ Current'
<1>1. Typed /\ Vouched /\ Current /\ (Untouched' <=> Untouched)
  BY AlikeUntouched DEF Trusted, Fenced
<1>2. Issued \in Nat
  BY CredNames DEF Trusted, Fenced, Typed
<1>3. Vouched'
  BY <1>1, <1>2, SameVouched DEF Alike
<1>4. ASSUME NEW o \in Slots PROVE Stands(ops[o])'
  <2>1. Stands(ops[o])
    BY <1>1 DEF Current
  <2> QED BY <1>1, <2>1 DEF Stands, Alike
<1> QED BY <1>3, <1>4 DEF Current

\* A boot enrolls what is bound.
LEMMA RestartSettled ==
  ASSUME Trusted, Restart
  PROVE  Vouched' /\ Current'
<1>1. Typed /\ TypeOK /\ Vouched
  BY DEF Trusted, Fenced, Typed
<1>2. /\ Issued' = Issued + 1
      /\ entry'.exists = entry.exists /\ entry'.auth = entry.auth
      /\ entry'.enr = entry.enr /\ (entry'.deletion = "none" <=> entry.deletion = "none")
      /\ \A o \in Slots : \/ ops'[o] = Idle
                          \/ ops'[o].pc = "look" /\ ops'[o].num = Issued + 1
      /\ creds' = [g \in Gens |-> IF g = entry.enr.gen THEN entry.enr.tok ELSE 0]
      /\ UNCHANGED <<providerVars, revoked>>
  BY <1>1, RestartIs
<1>3. UNCHANGED handover /\ (Untouched' <=> Untouched)
  BY <1>2 DEF providerVars, Untouched
<1>4. /\ Issued \in Nat /\ entry.enr.tok \in Nat
      /\ entry.enr # Unbound => entry.enr.gen \in Gens /\ entry.enr.tok \in Toks
  BY <1>1, CredNames, BindingIs
<1>5. Vouched'
  BY <1>1, <1>2, <1>3, <1>4 DEF Vouched
<1>6. Issued + 1 \notin revoked /\ Issued + 1 # entry.enr.tok
  BY <1>1, NewIsNew
<1>7. ASSUME NEW o \in Slots PROVE Stands(ops[o])'
  <2>1. CASE ops'[o] = Idle
    BY <2>1 DEF Stands, Idle
  <2>2. CASE ops'[o].pc = "look" /\ ops'[o].num = Issued + 1
    BY <1>2, <1>6, <2>2 DEF Stands
  <2> QED BY <1>2, <2>1, <2>2
<1> QED BY <1>5, <1>7 DEF Current

LEMMA TrustedStep ==
  ASSUME Trusted, [Next]_vars
  PROVE  Vouched' /\ Current'
<1>1. Typed /\ TypeOK /\ Guarded /\ Alone /\ patient
  BY DEF Trusted, Fenced, Typed
<1>2. ASSUME NEW o \in Slots, Settled(o), Acts(o) \/ Provides(o) PROVE Vouched' /\ Current'
  <2>1. PICK r \in Recs : Turns(o, r) /\ Stands(r)'
    BY <1>2 DEF Settled
  <2> QED BY <1>1, <1>2, <2>1, TurnStands DEF Settled
<1>3. ASSUME NEW o \in Slots, ServiceStep(o) PROVE Vouched' /\ Current'
  BY <1>1, <1>2, <1>3, ServiceActs, ServiceSettled
<1>4. ASSUME NEW o \in Slots, Provide(o) \/ ProviderFails(o) PROVE Vouched' /\ Current'
  BY <1>1, <1>2, <1>4, ProvideIs, ProvideSettled
<1>5. CASE Looked
  BY <1>1, <1>2, <1>5, LookedActs, PreparedSettled
<1>6. CASE \/ AsideStep \/ SpawnedForNobody \/ UNCHANGED vars \/ \E b \in Boxes : BoxStep(b)
  <2>1. Alike(entry, entry)
    BY DEF Alike
  <2>2. CASE AsideStep
    <3>1. Aside
      BY <1>1, <2>2, AsideIs
    <3> QED BY <3>1, StillSettled DEF Aside, providerVars, Issued
  <2>3. CASE SpawnedForNobody \/ UNCHANGED vars
    <3>1. UNCHANGED <<entry, creds, revoked, ops, handover, used>>
      BY <2>3 DEF SpawnedForNobody, vars, credVars, providerVars
    <3> QED BY <2>1, <3>1, StillSettled DEF Issued
  <2>4. ASSUME NEW b \in Boxes, BoxStep(b) PROVE Vouched' /\ Current'
    <3>1. /\ UNCHANGED <<entry, creds, revoked, ops, handover>>
          /\ used'.calls = used.calls /\ used'.restarts = used.restarts
      BY <1>1, <2>4, BoxStepIs
    <3> QED BY <2>1, <3>1, StillSettled DEF Issued
  <2> QED BY <1>6, <2>2, <2>3, <2>4
<1> QED BY <1>3, <1>4, <1>5, <1>6, RestartSettled, Steps

-----------------------------------------------------------------------------
(* One sandbox at a time.                                                  *)

\* No sandbox is made but by a spawn, and whoever may spawn is before any
\* deletion: what is up then has the lock or the record.
LEMMA SingleStep ==
  ASSUME Trusted, Single, [Next]_vars
  PROVE  Single'
<1>1. Typed /\ TypeOK /\ Guarded /\ Current
  BY DEF Trusted, Fenced, Typed
<1>2. box \in Sandboxes /\ pidfile \in {0} \cup Boxes /\ lock \in {0} \cup Boxes /\ 0 \notin Boxes
  BY <1>1, BoxNames
<1>3. ASSUME \A c \in Boxes : Up(c)' => Up(c) PROVE Single'
  <2>1. ASSUME NEW b \in Boxes, NEW c \in Boxes, Up(b)', Up(c)' PROVE b = c
    BY <1>3, <2>1 DEF Single
  <2> QED BY <2>1 DEF Single, Up
<1>4. ASSUME UNCHANGED box PROVE Single'
  BY <1>4 DEF Single, Up
<1>5. ASSUME StopRecorded PROVE Single'
  <2>1. \A c \in Boxes : box'[c].state = IF c = pidfile /\ IsLive(c) THEN "dead" ELSE box[c].state
    BY <1>1, <1>5, StopRecordedIs
  <2> QED BY <1>3, <2>1 DEF Up
<1>6. ASSUME NEW o \in Slots, Spawns(o) PROVE Single'
  <2>1. ops[o].pc = "ensure" /\ Spawn(ops[o].num, ops[o].gen)
    BY <1>6 DEF Spawns, MayEnsure, Asks
  <2>2. Flying(o) /\ Untouched
    BY <1>1, <2>1, InFlight DEF Current, Stands
  <2>3. PICK b \in Boxes, gen \in {0} \cup Gens : b = ops[o].num /\ gen = ops[o].gen
    BY <2>2 DEF Flying, Recs, Toks
  <2>4. lock = 0 /\ ~IsLive(pidfile) /\ \A c \in Boxes : c # b => box'[c] = box[c]
    BY <1>1, <2>1, <2>3, SpawnIs
  <2>5. \A c \in Boxes : ~Up(c)
    BY <1>1, <1>2, <2>2, <2>4 DEF Guarded, Locked, Up, IsLive
  <2>6. \A c \in Boxes : Up(c)' => c = b
    BY <2>4, <2>5 DEF Up
  <2> QED BY <2>6 DEF Single, Up
<1>7. ASSUME NEW o \in Slots, Provide(o) \/ ProviderFails(o) PROVE Single'
  <2>1. \/ Spawns(o) \/ UNCHANGED box \/ StopRecorded
    BY <1>7 DEF Provide, ProviderFails, Inspects, Stops, Deletes, EnsuresNothing, EnsuresBehindLock,
       Spawned, ClearState, providerVars
  <2> QED BY <1>4, <1>5, <1>6, <2>1
<1>8. ASSUME NEW b \in Boxes, BoxStep(b) PROVE Single'
  <2>1. /\ box[b].state \in {"starting", "live"}
        /\ \A c \in Boxes : c # b => box'[c].state = box[c].state
    BY <1>1, <1>8, BoxStepIs
  <2> QED BY <1>3, <2>1 DEF Up
<1>9. ASSUME NEW o \in Slots, Acts(o) PROVE Single'
  BY <1>4, <1>9 DEF Acts, runVars
<1>10. AsideStep \/ Restart \/ SpawnedForNobody \/ UNCHANGED vars => UNCHANGED box
  BY <1>1, AsideIs, RestartIs DEF Aside, SpawnedForNobody, vars, providerVars
<1> QED BY <1>1, <1>4, <1>7, <1>8, <1>9, <1>10, Steps, ServiceActs, LookedActs

-----------------------------------------------------------------------------
(* What holds of every behavior.                                           *)

Minded == Alone /\ Single /\ Current /\ Vouched

Managed == Fenced /\ (patient => Minded)

LEMMA ManagedStart ==
  ASSUME Init
  PROVE  Alone /\ Single /\ Current /\ Vouched
<1>1. /\ ops = [o \in Slots |-> Idle] /\ box = [b \in Boxes |-> Unborn] /\ entry = NoEntry
      /\ creds = [g \in Gens |-> 0] /\ revoked = {}
      /\ used = [calls |-> 0, restarts |-> 0, failures |-> 0, deaths |-> 0]
  BY DEF Init, ProviderInit
<1>2. Alone /\ Single
  BY <1>1 DEF Alone, Single, Up, Unborn
<1>3. Current
  BY <1>1 DEF Current, Stands, Idle
<1>4. Vouched
  BY <1>1 DEF Vouched, NoEntry, Unbound, Issued
<1> QED BY <1>2, <1>3, <1>4

LEMMA PatientStays ==
  ASSUME Fenced, [Next]_vars
  PROVE  patient' = patient
<1>1. Typed /\ TypeOK /\ Guarded
  BY DEF Fenced, Typed
<1>2. ASSUME NEW o \in Slots, Provide(o) \/ ProviderFails(o) PROVE patient' = patient
  BY <1>1, <1>2, ProvideIs DEF Provides
<1>3. AsideStep \/ Restart \/ SpawnedForNobody \/ UNCHANGED vars \/ (\E b \in Boxes : BoxStep(b))
        => patient' = patient
  BY <1>1, AsideIs, RestartIs, BoxStepIs DEF Aside, SpawnedForNobody, vars
<1> QED BY <1>1, <1>2, <1>3, Steps, ServiceActs, LookedActs DEF Acts

LEMMA ManagedStep ==
  ASSUME Managed, Fenced', [Next]_vars
  PROVE  Managed'
<1>1. patient' = patient
  BY PatientStays DEF Managed
<1>2. ASSUME patient PROVE Minded'
  <2>1. Trusted /\ Single
    BY <1>2 DEF Managed, Minded, Trusted
  <2>2. Alone'
    BY <1>2, <2>1, AloneStep DEF Trusted, Fenced
  <2> QED BY <2>1, <2>2, TrustedStep, SingleStep DEF Minded
<1> QED BY <1>1, <1>2 DEF Managed

LEMMA ManagedAlways == Spec => []Managed
<1>1. Init /\ Fenced => Managed
  BY ManagedStart DEF Managed, Minded
<1>2. Managed /\ Fenced' /\ [Next]_vars => Managed'
  BY ManagedStep
<1> QED BY <1>1, <1>2, FencedAlways, PTL DEF Spec

\* However starts, stops, restarts and failures interleave, two sandboxes never
\* write the volume of a workspace that is not being deleted; nor while or after
\* it is, if clients wait for one another (the spawn lock and the launch record of
\* fleet/bwrap-provider.ts, the delete gate of fleet/workspace-lifecycle.ts).
THEOREM OneSandboxWrites == Spec => []OneWriter
<1>1. Managed => OneWriter
  <2> SUFFICES ASSUME Managed, patient \/ Untouched, NEW b \in Boxes, NEW c \in Boxes,
                      IsLive(b), IsLive(c)
               PROVE  b = c
    BY DEF OneWriter, Untouched
  <2>1. CASE patient
    BY <2>1 DEF Managed, Minded, Single, Up, IsLive
  <2>2. CASE Untouched
    BY <2>2 DEF Managed, Fenced, Guarded, Locked
  <2> QED BY <2>1, <2>2
<1> QED BY <1>1, ManagedAlways, PTL

\* A credential that was revoked is never accepted again, not by the boot that
\* enrolls what the registry binds either, as long as clients wait for one another
\* (the enrollments of fleet/daemon-transport.ts).
THEOREM RevokedForGood == Spec => []RevokedStaysRevoked
<1>1. Managed => RevokedStaysRevoked
  <2> SUFFICES ASSUME Managed, patient, NEW g \in Enrolled
               PROVE  creds[g] \notin revoked
    BY DEF RevokedStaysRevoked
  <2>1. Vouched /\ TypeOK /\ g \in Gens /\ creds[g] # 0
    BY DEF Managed, Minded, Fenced, Typed, Enrolled
  <2>2. entry.enr.gen = g /\ entry.enr.tok = creds[g]
    BY <2>1 DEF Vouched
  <2>3. entry.enr # Unbound
    BY <2>1, <2>2, CredNames DEF Unbound
  <2> QED BY <2>1, <2>2, <2>3 DEF Vouched
<1> QED BY <1>1, ManagedAlways, PTL

\* No step takes a deletion back.
LEMMA TouchedStays ==
  ASSUME Fenced, [Next]_vars, entry.exists, ~Untouched
  PROVE  ~Untouched'
<1>1. Typed /\ TypeOK /\ Guarded /\ Fresh
  BY DEF Fenced, Typed
<1>2. ASSUME NEW o \in Slots, Acts(o) PROVE ~Untouched'
  <2>1. ~Create(o)
    BY <1>1, CreateIs DEF Fresh
  <2> QED BY <1>2, <2>1 DEF Acts
<1>3. ASSUME NEW o \in Slots, Provides(o) PROVE ~Untouched'
  BY <1>3 DEF Provides, Untouched
<1>4. CASE Restart
  BY <1>1, <1>4, RestartIs DEF Untouched
<1>5. CASE AsideStep
  BY <1>1, <1>5, AsideIs, AlikeUntouched DEF Aside
<1>6. CASE SpawnedForNobody \/ UNCHANGED vars \/ \E b \in Boxes : BoxStep(b)
  <2>1. UNCHANGED entry
    BY <1>1, <1>6, BoxStepIs DEF SpawnedForNobody, vars
  <2> QED BY <2>1 DEF Untouched
<1> QED BY <1>1, <1>2, <1>3, <1>4, <1>5, <1>6, Steps, ServiceActs, ProvideIs, LookedActs

\* Once a deletion has begun no step enrolls anything, a boot in its middle and
\* an operation that was in flight included, as long as clients wait for one
\* another (the admission barrier of fleet/workspace-lifecycle.ts).
THEOREM NothingEnrollsDeleted == Spec => DeletionFences
<1>1. Managed /\ Managed' /\ [Next]_vars
        => [patient /\ entry.exists /\ entry'.exists /\ entry.deletion # "none" =>
              \A g \in Gens : creds'[g] \in {0, creds[g]}]_vars
  <2> SUFFICES ASSUME Managed, Managed', [Next]_vars, patient, entry.exists,
                      entry.deletion # "none", NEW g \in Gens
               PROVE  creds'[g] = 0
    OBVIOUS
  <2>1. ~Untouched' /\ patient' = patient
    BY TouchedStays, PatientStays DEF Managed, Untouched
  <2>2. Vouched' /\ TypeOK'
    BY <2>1 DEF Managed, Minded, Fenced, Typed
  <2>3. entry'.enr = Unbound
    BY <2>1, <2>2 DEF Vouched
  <2>4. g # 0
    BY BoundsInNat DEF Gens, Boxes
  <2> QED BY <2>2, <2>3, <2>4 DEF Vouched, Unbound
<1> QED BY <1>1, ManagedAlways, PTL DEF Spec, DeletionFences

-----------------------------------------------------------------------------
(* Whoever runs has the credential.                                        *)

\* What is up has the credential the entry binds, and what starts beside an
\* authorized generation does so because a sandbox died.
Calling ==
  \A b \in Boxes :
    /\ Up(b) => box[b].gen # 0 /\ entry.enr = [gen |-> box[b].gen, tok |-> box[b].tok]
    /\ box[b].state = "starting" /\ box[b].gen = entry.auth =>
         used.deaths > 0 /\ \E o \in Slots : ops[o].pc = "ensure"

\* What the answer an operation has tells it of the sandboxes.
Heard(r) ==
  /\ \/ r.pc = "inspect" /\ r.reply \in {"stopped", "missing"}
     \/ r.pc \in {"replace", "stop"} /\ r.reply \notin {"none", "failed"}
     => \A b \in Boxes : Up(b) => box[b].gen # entry.auth
  /\ \/ r.pc = "inspect" /\ r.reply = "running"
     \/ r.pc = "ensure" /\ r.gen = entry.auth
     => IsLive(pidfile) \/ used.deaths > 0
  /\ r.pc = "ensure" /\ r.reply \notin {"none", "running"} => \A b \in Boxes : ~Up(b)
  /\ r.pc = "ensure" /\ r.reply = "running" => \A b \in Boxes : box[b].state # "starting"
  /\ r.pc = "ensure" /\ r.reply = "none" /\ box[r.num].state # "unborn" =>
       \A b \in Boxes : box[b].state = "starting" => b = r.num
  /\ r.pc = "stop" => r.auth = entry.auth

Reached == Orderly /\ Untouched => Calling /\ \A o \in Slots : Heard(ops[o])

\* An operation that has turned has heard what it goes by.
Knows(o) == Calling' /\ \E r \in Recs : Turns(o, r) /\ Heard(r)'

\* All that an operation starts from.
Sound(o) ==
  /\ Trusted /\ Calling /\ Heard(ops[o]) /\ Untouched
  /\ UNCHANGED runVars /\ used'.deaths = used.deaths

LEMMA HeardIdle == Heard(Idle)'
BY DEF Heard, Idle

LEMMA KnowsReached ==
  ASSUME Typed, Alone, patient, NEW o \in Slots, Acts(o) \/ Provides(o), Knows(o)
  PROVE  Reached'
<1>1. ops \in [Slots -> Recs]
  BY TypeNames DEF Typed
<1>2. PICK r \in Recs : Turns(o, r) /\ Heard(r)'
  BY DEF Knows
<1>3. ops'[o] = r
  BY <1>1, <1>2 DEF Turns
<1>4. \A p \in Slots : p # o => ops'[p] = Idle
  BY OthersIdle
<1>5. ASSUME NEW p \in Slots PROVE Heard(ops[p])'
  <2>1. CASE p = o
    <3>1. ops'[p] = r
      BY <1>3, <2>1
    <3> QED BY <1>2, <3>1 DEF Heard
  <2>2. CASE p # o
    <3>1. ops'[p] = Idle
      BY <1>4, <2>2
    <3> QED BY <3>1, HeardIdle DEF Heard
  <2> QED BY <2>1, <2>2
<1> QED BY <1>5 DEF Reached, Knows

\* Nobody else is in flight to spawn.
LEMMA NoneStarting ==
  ASSUME Typed, Alone, patient, Calling, NEW o \in Slots, Acts(o) \/ Provides(o),
         ops[o].pc # "ensure"
  PROVE  \A b \in Boxes : box[b].state = "starting" => box[b].gen # entry.auth
<1>1. \A p \in Slots : ops[p].pc # "ensure"
  BY OthersIdle DEF Idle
<1> QED BY <1>1 DEF Calling

LEMMA StillCalling ==
  ASSUME Calling, UNCHANGED runVars, entry'.auth = entry.auth,
         \A b \in Boxes : box[b].state = "starting" => box[b].gen # entry.auth,
         entry'.enr = entry.enr \/ \A b \in Boxes : ~Up(b)
  PROVE  Calling'
BY DEF Calling, runVars, Up

LEMMA GiveUpKnows ==
  ASSUME NEW o \in Slots, Sound(o), Acts(o), ops[o].pc # "ensure",
         NEW e \in Entries, Alike(e, entry), e.enr = entry.enr, GiveUp(o, e)
  PROVE  Knows(o)
<1>1. Turns(o, Idle) /\ entry'.auth = entry.auth /\ entry'.enr = entry.enr
  BY GiveUpIs DEF Sound, Trusted, Fenced, Typed, Alike
<1>2. Calling'
  BY <1>1, NoneStarting, StillCalling DEF Sound, Trusted, Fenced
<1> QED BY <1>1, <1>2, HeardIdle, IdleIsRec DEF Knows

\* A binding of the next generation is made when nothing of the last one is up,
\* and one that is made again is the one there is.
LEMMA EnrollKnows ==
  ASSUME NEW o \in Slots, Sound(o), Acts(o), ops[o].pc # "ensure",
         NEW rec \in Recs, NEW e \in Entries, Alike(e, entry), e.enr = entry.enr,
         rec.auth = entry.auth,
         NEW gen \in Gens, NEW tok \in Toks, Enroll(o, rec, e, gen, tok),
         \/ /\ gen = rec.auth + 1 /\ tok # entry.enr.tok
            /\ rec.auth = 0 \/ \A b \in Boxes : Up(b) => box[b].gen # entry.auth
         \/ /\ gen = rec.auth /\ tok = handover.tok /\ handover.gen = gen
            /\ entry.enr.gen = gen /\ (IsLive(pidfile) \/ used.deaths > 0)
  PROVE  Knows(o)
<1>1. /\ entry.enr \in Bindings /\ handover \in Bindings /\ creds \in [Gens -> {0} \cup Toks]
      /\ entry.auth \in Nat /\ 0 \notin Gens /\ 0 \notin Toks
      /\ Gens \subseteq Nat /\ Toks \subseteq Nat /\ TypeOK /\ Typed /\ Calling /\ Vouched
  BY CredNames DEF Typed, Sound, Trusted, Fenced
<1>2. \A b \in Boxes : box[b].state = "starting" => box[b].gen # entry.auth
  BY NoneStarting DEF Sound, Trusted, Fenced
<1>3. \A b \in Boxes : Up(b) => /\ entry.enr.gen = box[b].gen /\ box[b].gen \in Gens
                                /\ entry.enr.gen \in {entry.auth, entry.auth + 1}
                                /\ creds[entry.enr.gen] = entry.enr.tok
                                /\ entry.enr.tok \in Toks
  <2>1. ASSUME NEW b \in Boxes, Up(b)
        PROVE  /\ entry.enr.gen = box[b].gen /\ box[b].gen \in Gens
               /\ entry.enr.gen \in {entry.auth, entry.auth + 1}
               /\ creds[entry.enr.gen] = entry.enr.tok /\ entry.enr.tok \in Toks
    <3>1. entry.enr.gen = box[b].gen /\ box[b].gen # 0
      <4>1. entry.enr = [gen |-> box[b].gen, tok |-> box[b].tok] /\ box[b].gen # 0
        BY <1>1, <2>1, Zenon DEF Calling
      <4> QED BY <4>1
    <3>2. entry.enr # Unbound
      BY <3>1 DEF Unbound
    <3> QED BY <1>1, <3>1, <3>2, BindingIs DEF Vouched
  <2> QED BY <2>1
<1>4. Binds(o, rec, e, gen, tok) \/ Refuses(o, rec, e, gen, tok)
  BY <1>1, EnrollIs
<1>5. entry'.auth = entry.auth /\ e.exists
  BY <1>4 DEF Binds, Refuses, Alike, Sound, Untouched
<1>6. CASE Binds(o, rec, e, gen, tok) /\ gen = rec.auth + 1
  <2>1. tok # entry.enr.tok /\ (rec.auth = 0 \/ \A b \in Boxes : Up(b) => box[b].gen # entry.auth)
    BY <1>1, <1>6
  <2>2. creds[gen] \in {0, tok}
    BY <1>6 DEF Binds
  <2>3. \A b \in Boxes : ~Up(b)
    <3> SUFFICES ASSUME NEW b \in Boxes, Up(b) PROVE FALSE
      OBVIOUS
    <3>1. entry.enr.gen # entry.auth
      BY <1>1, <1>3, <2>1
    <3>2. entry.enr.gen = gen
      BY <1>3, <1>6, <3>1
    <3> QED BY <1>1, <1>3, <2>1, <2>2, <3>2
  <2>4. Calling'
    BY <1>1, <1>2, <1>5, <2>3, StillCalling DEF Sound
  <2>5. PICK r \in Recs : Turns(o, r) /\ r.pc = "ensure" /\ r.reply = "none" /\ r.gen = gen
    BY <1>6 DEF Binds
  <2>6. r.gen # entry'.auth
    BY <1>1, <1>5, <1>6, <2>5
  <2>7. \A b \in Boxes : box'[b].state # "starting"
    BY <2>3 DEF Up, Sound, runVars
  <2>8. Heard(r)'
    BY <2>5, <2>6, <2>7 DEF Heard
  <2> QED BY <2>4, <2>5, <2>8 DEF Knows
<1>7. CASE Binds(o, rec, e, gen, tok) /\ gen # rec.auth + 1
  <2>1. /\ gen = entry.auth /\ tok = handover.tok /\ handover.gen = gen
        /\ entry.enr.gen = gen /\ (IsLive(pidfile) \/ used.deaths > 0)
    BY <1>7
  <2>2. entry.enr # Unbound
    BY <1>1, <2>1 DEF Unbound
  <2>3. handover = entry.enr /\ handover = [gen |-> gen, tok |-> tok]
    BY <1>1, <2>1, <2>2, BindingIs DEF Vouched
  <2>4. entry'.enr = entry.enr
    BY <1>7, <2>3 DEF Binds
  <2>5. Calling'
    BY <1>1, <1>2, <1>5, <2>4, StillCalling DEF Sound
  <2>6. PICK r \in Recs : Turns(o, r) /\ r.pc = "ensure" /\ r.reply = "none"
    BY <1>7 DEF Binds
  <2>7. \A b \in Boxes : box'[b].state # "starting"
    <3>1. \A b \in Boxes : box[b].state # "starting"
      BY <1>2, <1>3, <2>1 DEF Up
    <3> QED BY <3>1 DEF Sound, runVars
  <2>8. IsLive(pidfile)' \/ used'.deaths > 0
    BY <2>1 DEF Sound, runVars, IsLive
  <2>9. Heard(r)'
    BY <2>6, <2>7, <2>8 DEF Heard
  <2> QED BY <2>5, <2>6, <2>9 DEF Knows
<1>8. CASE Refuses(o, rec, e, gen, tok)
  <2>1. entry'.enr = IF rec.auth # 0 /\ gen > rec.auth /\ e.enr.gen = rec.auth
                     THEN Unbound ELSE e.enr
    BY <1>5, <1>8 DEF Refuses
  <2>2. entry'.enr = entry.enr \/ \A b \in Boxes : ~Up(b)
    <3>1. ASSUME entry'.enr # entry.enr, NEW b \in Boxes, Up(b) PROVE FALSE
      <4>1. rec.auth # 0 /\ gen > rec.auth /\ entry.enr.gen = entry.auth
        BY <2>1, <3>1
      <4>2. gen = rec.auth + 1
        BY <1>1, <4>1
      <4>3. box[b].gen # entry.auth
        BY <1>1, <3>1, <4>1, <4>2
      <4> QED BY <1>3, <3>1, <4>1, <4>3
    <3> QED BY <3>1
  <2>3. Calling'
    BY <1>1, <1>2, <1>5, <2>2, StillCalling DEF Sound
  <2> QED BY <1>8, <2>3, HeardIdle, IdleIsRec DEF Knows, Refuses
<1> QED BY <1>4, <1>6, <1>7, <1>8

LEMMA EnsureKnows ==
  ASSUME NEW o \in Slots, Sound(o), Acts(o), ops[o].pc # "ensure",
         NEW rec \in Recs, rec.num \in Toks, Ensure(o, rec),
         rec.auth = entry.auth, rec.num # entry.enr.tok
  PROVE  Knows(o)
<1>1. Typed /\ TypeOK /\ Calling /\ UNCHANGED runVars
  BY DEF Sound, Trusted, Fenced, Typed
<1>2. \/ rec.auth = 0 /\ \E e \in Entries : /\ Alike(e, entry) /\ e.enr = entry.enr
                                            /\ Enroll(o, rec, e, 1, rec.num)
      \/ Looks(o, rec)
  BY <1>1, EnsureIs
<1>3. 1 \in Gens
  BY BoundsInNat DEF Toks, Gens, Boxes
<1>4. ASSUME rec.auth = 0, NEW e \in Entries, Alike(e, entry), e.enr = entry.enr,
             Enroll(o, rec, e, 1, rec.num)
      PROVE  Knows(o)
  <2>1. PICK tok \in Toks : tok = rec.num
    OBVIOUS
  <2>2. 1 = rec.auth + 1 /\ tok # entry.enr.tok /\ Enroll(o, rec, e, 1, tok)
    BY <1>4, <2>1
  <2> QED BY <1>3, <1>4, <2>2, EnrollKnows
<1>5. CASE Looks(o, rec)
  <2>1. entry'.auth = entry.auth /\ entry'.enr = entry.enr
    BY <1>5 DEF Looks, Alike
  <2>2. PICK r \in Recs : Turns(o, r) /\ r.pc = "inspect" /\ r.reply = "none"
    BY <1>5 DEF Looks
  <2>3. Calling'
    BY <1>1, <2>1, NoneStarting, StillCalling DEF Sound, Trusted
  <2>4. Heard(r)'
    BY <2>2 DEF Heard
  <2> QED BY <2>2, <2>3, <2>4 DEF Knows
<1> QED BY <1>2, <1>4, <1>5

LEMMA StartKnows ==
  ASSUME NEW o \in Slots, Sound(o), Acts(o), Start(o)
  PROVE  Knows(o)
<1>1. Typed /\ TypeOK /\ Vouched
  BY DEF Sound, Trusted, Fenced, Typed
<1>2. Asked(o) /\ Ensure(o, Snapshot("start"))
  BY DEF Start
<1>3. Issued < MaxOps /\ ops[o].pc # "ensure"
  BY <1>1, <1>2, AskedIs DEF Idle
<1>4. PICK rec \in Recs : /\ rec = Snapshot("start") /\ rec.num = Issued + 1 /\ rec.num \in Toks
                          /\ rec.auth = entry.auth
  BY <1>1, <1>3, SnapshotIs DEF Kinds
<1>5. rec.num # entry.enr.tok
  BY <1>1, <1>4, NewIsNew
<1> QED BY <1>2, <1>3, <1>4, <1>5, EnsureKnows

LEMMA PreparedKnows ==
  ASSUME NEW o \in Slots, Sound(o), Acts(o), Prepared(o) \/ (Looked /\ o = Boot)
  PROVE  Knows(o)
<1>1. Typed /\ TypeOK /\ Stands(ops[o])
  BY DEF Sound, Trusted, Fenced, Typed, Current
<1>2. /\ ops[o].pc \in {"prepare", "look"}
      /\ \/ \E rec \in Recs : /\ rec.num = ops[o].num /\ rec.auth = entry.auth
                              /\ Ensure(o, rec)
         \/ \E e \in Entries : Alike(e, entry) /\ e.enr = entry.enr /\ GiveUp(o, e)
  BY <1>1, PreparedIs, LookedIs
<1>3. ops[o].num \in Toks /\ ops[o].num # entry.enr.tok /\ ops[o].pc # "ensure"
  BY <1>1, <1>2, InFlight DEF Flying, Stands
<1> QED BY <1>2, <1>3, EnsureKnows, GiveUpKnows

LEMMA InspectedKnows ==
  ASSUME NEW o \in Slots, Sound(o), Acts(o), Inspected(o) \/ Replaced(o)
  PROVE  Knows(o)
<1>1. Typed /\ TypeOK /\ Calling /\ Stands(ops[o]) /\ UNCHANGED runVars /\ Heard(ops[o])
  BY DEF Sound, Trusted, Fenced, Typed, Current
<1>2. ops[o].pc \in {"inspect", "replace"} /\ ops[o].reply # "none"
  BY <1>1, InspectedIs, ReplacedIs
<1>3. /\ ops[o] \in Recs /\ entry \in Entries /\ Alike(entry, entry) /\ ops[o].num \in Toks
      /\ ops[o].auth = entry.auth /\ ops[o].bind = entry.enr /\ ops[o].num # entry.enr.tok
      /\ ops[o].pc # "ensure"
  BY <1>1, <1>2, InFlight DEF Flying, Alike, Stands
<1>4. ASSUME ops[o].auth + 1 \in Gens, Enroll(o, ops[o], entry, ops[o].auth + 1, ops[o].num),
             \A b \in Boxes : Up(b) => box[b].gen # entry.auth
      PROVE  Knows(o)
  <2>1. PICK rec \in Recs, gen \in Gens, tok \in Toks :
          rec = ops[o] /\ gen = ops[o].auth + 1 /\ tok = ops[o].num
    BY <1>3, <1>4
  <2>2. Enroll(o, rec, entry, gen, tok) /\ rec.auth = entry.auth /\ gen = rec.auth + 1
        /\ tok # entry.enr.tok
    BY <1>3, <1>4, <2>1
  <2> QED BY <1>3, <1>4, <2>2, EnrollKnows
<1>5. ASSUME Reusable(ops[o]), handover.tok \in Toks, ops[o].auth \in Gens,
             Enroll(o, ops[o], entry, ops[o].auth, handover.tok),
             IsLive(pidfile) \/ used.deaths > 0
      PROVE  Knows(o)
  <2>1. PICK rec \in Recs, gen \in Gens, tok \in Toks :
          rec = ops[o] /\ gen = ops[o].auth /\ tok = handover.tok
    BY <1>3, <1>5
  <2>2. Enroll(o, rec, entry, gen, tok) /\ rec.auth = entry.auth /\ gen = rec.auth
        /\ tok = handover.tok /\ handover.gen = gen /\ entry.enr.gen = gen
    BY <1>3, <1>5, <2>1 DEF Reusable
  <2> QED BY <1>3, <1>5, <2>2, EnrollKnows
<1>6. ASSUME GiveUp(o, entry) PROVE Knows(o)
  BY <1>3, <1>6, GiveUpKnows
<1>7. ASSUME Await(o, ops[o], "replace"), UNCHANGED entry PROVE Knows(o)
  <2>1. PICK r \in Recs : Turns(o, r) /\ r.pc = "replace" /\ r.reply = "none"
    BY <1>3, <1>7, AwaitIs DEF Places, Awaiting
  <2>2. Calling'
    BY <1>1, <1>3, <1>7, NoneStarting, StillCalling DEF Sound, Trusted
  <2>3. Heard(r)'
    BY <2>1 DEF Heard
  <2> QED BY <2>1, <2>2, <2>3 DEF Knows
<1>8. CASE Inspected(o)
  <2>1. ops[o].pc = "inspect"
    BY <1>1, <1>8, InspectedIs
  <2>2. ops[o].reply = "running" => IsLive(pidfile) \/ used.deaths > 0
    BY <1>1, <2>1 DEF Heard
  <2>3. ops[o].reply \in {"stopped", "missing"} => \A b \in Boxes : Up(b) => box[b].gen # entry.auth
    BY <1>1, <2>1 DEF Heard
  <2> QED BY <1>1, <1>4, <1>5, <1>6, <1>7, <1>8, <2>2, <2>3, InspectedIs
<1>9. CASE Replaced(o)
  <2>1. ops[o].pc = "replace"
    BY <1>1, <1>9, ReplacedIs
  <2>2. ops[o].reply # "failed" => \A b \in Boxes : Up(b) => box[b].gen # entry.auth
    BY <1>1, <1>2, <2>1 DEF Heard
  <2> QED BY <1>1, <1>4, <1>6, <1>9, <2>2, ReplacedIs
<1> QED BY <1>8, <1>9

LEMMA EnsuredKnows ==
  ASSUME NEW o \in Slots, Sound(o), Ensured(o)
  PROVE  Knows(o)
<1>1. Typed /\ Calling /\ Stands(ops[o]) /\ UNCHANGED runVars /\ Heard(ops[o]) /\ entry.exists
  BY DEF Sound, Trusted, Fenced, Current, Untouched
<1>2. /\ ops[o].pc = "ensure" /\ ops[o].reply # "none" /\ Turns(o, Idle)
      /\ (Upped(o) \/ Dropped(o))
  BY <1>1, EnsuredIs
<1>3. CASE Upped(o)
  <2>1. ops[o].reply = "running" /\ entry'.enr = entry.enr
    BY <1>3 DEF Upped
  <2>2. \A b \in Boxes : box[b].state # "starting"
    BY <1>1, <1>2, <2>1 DEF Heard
  <2>3. Calling'
    BY <1>1, <2>1, <2>2 DEF Calling, runVars, Up
  <2> QED BY <1>2, <2>3, HeardIdle, IdleIsRec DEF Knows
<1>4. CASE Dropped(o)
  <2>1. \A b \in Boxes : ~Up(b)
    BY <1>1, <1>2, <1>4 DEF Heard, Dropped
  <2>2. Calling'
    BY <1>1, <2>1 DEF Calling, runVars, Up
  <2> QED BY <1>2, <2>2, HeardIdle, IdleIsRec DEF Knows
<1> QED BY <1>2, <1>3, <1>4

LEMMA StopKnows ==
  ASSUME NEW o \in Slots, Sound(o), Acts(o), Stop(o)
  PROVE  Knows(o)
<1>1. Typed /\ TypeOK /\ Calling /\ UNCHANGED runVars /\ ops \in [Slots -> Recs]
  BY TypeNames DEF Sound, Trusted, Fenced, Typed
<1>2. /\ Asked(o) /\ entry'.auth = entry.auth /\ entry'.enr = entry.enr
      /\ \/ \E r \in Recs : Turns(o, r) /\ r.pc = "stop" /\ r.reply = "none" /\ r.auth = entry.auth
         \/ UNCHANGED ops
  BY <1>1, StopIs DEF Alike
<1>3. ops[o].pc # "ensure" /\ ops[o] = Idle
  BY <1>1, <1>2, AskedIs DEF Idle
<1>4. Calling'
  BY <1>1, <1>2, <1>3, NoneStarting, StillCalling DEF Sound, Trusted
<1>5. ASSUME NEW r \in Recs, Turns(o, r), r.pc = "stop", r.reply = "none", r.auth = entry.auth
      PROVE  Knows(o)
  <2>1. Heard(r)'
    BY <1>2, <1>5 DEF Heard
  <2> QED BY <1>4, <1>5, <2>1 DEF Knows
<1>6. CASE UNCHANGED ops
  <2>1. Turns(o, Idle)
    BY <1>1, <1>3, <1>6, IdleIsRec DEF Turns
  <2> QED BY <1>4, <2>1, HeardIdle, IdleIsRec DEF Knows
<1> QED BY <1>2, <1>5, <1>6

\* What a stop proved dead was all there was of the generation it unbinds.
LEMMA StoppedKnows ==
  ASSUME NEW o \in Slots, Sound(o), Acts(o), Stopped(o)
  PROVE  Knows(o)
<1>1. Typed /\ Calling /\ Vouched /\ UNCHANGED runVars /\ Heard(ops[o])
  BY DEF Sound, Trusted, Fenced
<1>2. /\ ops[o].pc = "stop" /\ ops[o].reply # "none" /\ Turns(o, Idle)
      /\ entry'.auth = entry.auth
      /\ \/ entry'.enr = entry.enr
         \/ /\ ops[o].reply # "failed"
            /\ entry'.enr = IF entry.enr.gen = ops[o].auth THEN Unbound ELSE entry.enr
  BY <1>1, StoppedIs DEF Alike
<1>3. ops[o].auth = entry.auth
  BY <1>1, <1>2 DEF Heard
<1>4. entry'.enr = entry.enr \/ \A b \in Boxes : ~Up(b)
  <2> SUFFICES ASSUME entry'.enr # entry.enr, NEW b \in Boxes, Up(b) PROVE FALSE
    OBVIOUS
  <2>1. ops[o].reply # "failed" /\ entry.enr.gen = entry.auth
    BY <1>2, <1>3
  <2>2. box[b].gen # entry.auth
    BY <1>1, <1>2, <2>1 DEF Heard
  <2>3. entry.enr = [gen |-> box[b].gen, tok |-> box[b].tok]
    BY <1>1, Zenon DEF Calling
  <2> QED BY <2>1, <2>2, <2>3
<1>5. Calling'
  BY <1>1, <1>2, <1>4, NoneStarting, StillCalling DEF Sound, Trusted
<1> QED BY <1>2, <1>5, HeardIdle, IdleIsRec DEF Knows

\* A turn of the service that leaves a workspace nobody deletes.
LEMMA ServiceReached ==
  ASSUME Trusted, Reached, NEW o \in Slots, ServiceStep(o) \/ (Looked /\ o = Boot)
  PROVE  Reached'
<1>1. Typed /\ TypeOK /\ Guarded /\ Fresh /\ Alone /\ patient
  BY DEF Trusted, Fenced, Typed
<1>2. Acts(o)
  BY <1>1, ServiceActs, LookedActs
<1> SUFFICES ASSUME Orderly', Untouched' PROVE Reached'
  BY DEF Reached
<1>3. CASE Create(o)
  <2>1. used.calls = 0 /\ UNCHANGED providerVars
    BY <1>1, <1>3, CreateIs
  <2>2. PICK r \in Recs : Turns(o, r) /\ r.pc = "prepare"
    BY <1>1, <1>3, CreateIs
  <2>3. \A b \in Boxes : ~Up(b)
    BY <1>1, <2>1 DEF Fresh
  <2>4. Calling'
    BY <2>1, <2>3 DEF Calling, Up, providerVars
  <2>5. Heard(r)'
    BY <2>2 DEF Heard
  <2>6. Knows(o)
    BY <2>2, <2>4, <2>5 DEF Knows
  <2> QED BY <1>1, <1>2, <2>6, KnowsReached
<1>4. CASE ~Create(o)
  <2>1. Untouched
    BY <1>2, <1>4 DEF Acts
  <2>2. \/ Start(o) \/ Stop(o) \/ Inspected(o) \/ Replaced(o) \/ Ensured(o) \/ Prepared(o)
        \/ Stopped(o) \/ (Looked /\ o = Boot)
    <3>1. ~(\/ Delete(o) \/ DeleteRefused(o) \/ Quiesced(o) \/ Verified(o) \/ Destroyed(o)
            \/ GateFails(o) \/ GateThrows(o) \/ Removed(o))
      BY <1>1, GateActs
    <3>2. ~(NotPrepared(o) \/ PreparedInVain(o))
      BY <2>1 DEF NotPrepared, PreparedInVain, Untouched, NoEntry
    <3> QED BY <1>4, <3>1, <3>2 DEF ServiceStep, Continue
  <2>3. used'.failures = used.failures /\ used'.restarts = used.restarts
        /\ used'.deaths = used.deaths
    <3>1. Start(o) \/ Stop(o) => Asked(o)
      BY DEF Start, Stop
    <3>2. ~(Start(o) \/ Stop(o)) => UNCHANGED used
      BY <1>1, <2>2, InspectedIs, ReplacedIs, EnsuredIs, PreparedIs, StoppedIs, LookedIs
         DEF Inside
    <3> QED BY <1>1, <3>1, <3>2, AskedIs
  <2>4. Orderly
    BY <1>1, <2>3 DEF Orderly
  <2>5. Sound(o)
    BY <1>2, <2>1, <2>3, <2>4 DEF Sound, Reached, Acts
  <2>6. Knows(o)
    BY <1>2, <2>2, <2>5, StartKnows, StopKnows, InspectedKnows, EnsuredKnows, PreparedKnows,
       StoppedKnows
  <2> QED BY <1>1, <1>2, <2>6, KnowsReached
<1> QED BY <1>3, <1>4

\* What the provider does before any deletion, and what it answers.
LEMMA ProvideReached ==
  ASSUME Trusted, Reached, NEW o \in Slots, Provide(o) \/ ProviderFails(o)
  PROVE  Reached'
<1>1. /\ Typed /\ TypeOK /\ Guarded /\ Alone /\ patient /\ Current
      /\ box \in Sandboxes /\ pidfile \in {0} \cup Boxes /\ lock \in {0} \cup Boxes
      /\ 0 \notin Boxes
  BY BoxNames DEF Trusted, Fenced, Typed
<1>2. Provides(o) /\ patient' = patient /\ UNCHANGED entry
      /\ used'.restarts = used.restarts /\ used'.deaths = used.deaths
  BY <1>1, ProvideIs DEF Provides
<1> SUFFICES ASSUME Orderly', Untouched' PROVE Reached'
  BY DEF Reached
<1>3. ~ProviderFails(o)
  BY <1>1, FailureIs DEF ProviderFails, Orderly
<1>4. Untouched /\ Ungated /\ Locked
  BY <1>1, <1>2 DEF Untouched, Guarded
<1>5. Orderly
  <2>1. ~Spawns(o) \/ UNCHANGED used
    BY DEF Spawns
  <2>2. UNCHANGED used
    BY <1>3, <2>1 DEF Provide, Inspects, Stops, Deletes, EnsuresNothing, EnsuresBehindLock, Spawned
  <2> QED BY <1>1, <2>2 DEF Orderly
<1>6. Calling /\ Heard(ops[o]) /\ Stands(ops[o])
  BY <1>1, <1>4, <1>5 DEF Reached, Current
<1>7. ASSUME Knows(o) PROVE Reached'
  BY <1>1, <1>2, <1>7, KnowsReached
<1>8. ASSUME UNCHANGED <<box, pidfile>> PROVE Calling'
  <2>1. PICK r \in Recs : Turns(o, r) /\ r.pc = ops[o].pc
    BY <1>2 DEF Provides
  <2>2. \A p \in Slots : ops'[p].pc = ops[p].pc
    BY <1>1, <2>1, TypeNames DEF Turns
  <2> QED BY <1>2, <1>6, <1>8, <2>2 DEF Calling, Up
<1>9. CASE Inspects(o)
  <2>1. ops[o].pc \in {"look", "inspect"} /\ Reply(o, Observed) /\ UNCHANGED <<box, pidfile>>
    BY <1>9 DEF Inspects, Asks, providerVars
  <2>2. PICK r \in Recs : Turns(o, r) /\ r.pc = ops[o].pc /\ r.reply = Observed
    BY <1>1, <2>1, ReplyIs, ObservedIs
  <2>3. \A b \in Boxes : box[b].state = "starting" => box[b].gen # entry.auth
    BY <1>1, <1>2, <1>6, <2>1, NoneStarting
  <2>4. CASE IsLive(pidfile)
    <3>1. r.reply = "running" /\ IsLive(pidfile)'
      BY <1>1, <2>1, <2>2, <2>4 DEF Observed, IsLive
    <3>2. Heard(r)'
      BY <2>1, <2>2, <3>1 DEF Heard
    <3> QED BY <1>7, <1>8, <2>1, <2>2, <3>2 DEF Knows
  <2>5. CASE ~IsLive(pidfile)
    <3>1. r.reply # "running"
      BY <2>2, <2>5 DEF Observed
    <3>2. \A b \in Boxes : Up(b) => box[b].gen # entry.auth
      BY <1>1, <1>4, <2>3, <2>5 DEF Locked, Up, IsLive
    <3>3. \A b \in Boxes : Up(b)' => box'[b].gen # entry'.auth
      BY <1>2, <2>1, <3>2 DEF Up
    <3>4. Heard(r)'
      BY <2>1, <2>2, <3>1, <3>3 DEF Heard
    <3> QED BY <1>7, <1>8, <2>1, <2>2, <3>4 DEF Knows
  <2> QED BY <2>4, <2>5
<1>10. CASE Stops(o)
  <2>1. ops[o].pc \in {"replace", "stop"} /\ StopRecorded /\ Reply(o, "stopped")
    BY <1>4, <1>10 DEF Stops, Asks, Ungated, GatePlaces
  <2>2. PICK r \in Recs : /\ Turns(o, r) /\ r.pc = ops[o].pc /\ r.reply = "stopped"
                          /\ r.auth = ops[o].auth
    BY <1>1, <2>1, ReplyIs DEF Answers
  <2>3. \A b \in Boxes : box[b].state = "starting" => box[b].gen # entry.auth
    BY <1>1, <1>2, <1>6, <2>1, NoneStarting
  <2>4. \A c \in Boxes : /\ box'[c].gen = box[c].gen /\ box'[c].tok = box[c].tok
                         /\ box'[c].state = IF c = pidfile /\ IsLive(c) THEN "dead"
                                            ELSE box[c].state
    BY <1>1, <2>1, StopRecordedIs
  <2>5. \A b \in Boxes : Up(b)' => box[b].state = "starting" /\ box'[b].state = "starting"
    BY <1>1, <1>4, <2>4 DEF Locked, Up, IsLive
  <2>6. \A b \in Boxes : Up(b)' => Up(b) /\ box'[b].gen # entry'.auth
    BY <1>2, <2>3, <2>4, <2>5 DEF Up
  <2>7. Calling'
    BY <1>2, <1>6, <2>4, <2>6 DEF Calling, Up
  <2>8. r.pc = "stop" => r.auth = entry'.auth
    BY <1>2, <1>6, <2>2 DEF Heard
  <2>9. Heard(r)'
    BY <2>1, <2>2, <2>6, <2>8 DEF Heard
  <2> QED BY <1>7, <2>2, <2>7, <2>9 DEF Knows
<1>11. CASE Deletes(o)
  BY <1>4, <1>11 DEF Deletes, Asks, Ungated, GatePlaces
<1>12. CASE Spawns(o)
  <2>1. /\ ops[o].pc = "ensure" /\ ops[o].reply = "none" /\ UNCHANGED ops
        /\ Spawn(ops[o].num, ops[o].gen)
    BY <1>12 DEF Spawns, MayEnsure, Asks
  <2>2. Flying(o)
    BY <1>1, <2>1, InFlight
  <2>3. PICK b \in Boxes, gen \in {0} \cup Gens : b = ops[o].num /\ gen = ops[o].gen
    BY <2>2 DEF Flying, Recs, Toks
  <2>4. /\ lock = 0 /\ ~IsLive(pidfile) /\ \A c \in Boxes : c # b => box'[c] = box[c]
        /\ box'[b].state = "starting" /\ box'[b].gen = gen /\ box'[b].tok = handover.tok
        /\ UNCHANGED handover
    BY <1>1, <2>1, <2>3, SpawnIs
  <2>5. \A c \in Boxes : ~Up(c)
    BY <1>1, <1>4, <2>4 DEF Locked, Up, IsLive
  <2>6. \A c \in Boxes : Up(c)' => c = b
    BY <2>4, <2>5 DEF Up
  <2>7. entry.enr = [gen |-> gen, tok |-> ops[o].tok] /\ handover = entry.enr /\ gen # 0
    BY <1>6, <2>1, <2>3 DEF Stands
  <2>8. entry'.enr = [gen |-> box'[b].gen, tok |-> box'[b].tok]
    BY <1>2, <2>4, <2>7
  <2>9. gen = entry'.auth => used'.deaths > 0
    BY <1>2, <1>6, <2>1, <2>3, <2>4 DEF Heard
  <2>10. Calling'
    BY <2>1, <2>4, <2>6, <2>7, <2>8, <2>9 DEF Calling, Up
  <2>11. \A c \in Boxes : box'[c].state = "starting" => c = ops[o].num
    BY <2>3, <2>6 DEF Up
  <2>12. PICK r \in Recs : r = ops[o] /\ Turns(o, r)
    BY <1>1, <2>1, <2>2, TypeNames DEF Flying, Turns
  <2>13. Heard(r)'
    BY <2>1, <2>3, <2>9, <2>11, <2>12 DEF Heard
  <2> QED BY <1>7, <2>10, <2>12, <2>13 DEF Knows
<1>13. CASE EnsuresNothing(o) \/ EnsuresBehindLock(o) \/ Spawned(o)
  <2>1. ops[o].pc = "ensure" /\ ops[o].reply = "none" /\ UNCHANGED <<box, pidfile>>
    BY <1>13 DEF EnsuresNothing, EnsuresBehindLock, Spawned, MayEnsure, Asks, providerVars
  <2>2. /\ entry.enr = [gen |-> ops[o].gen, tok |-> ops[o].tok] /\ handover = entry.enr
        /\ \A b \in Boxes : Up(b) => box[b].gen # 0
                                     /\ entry.enr = [gen |-> box[b].gen, tok |-> box[b].tok]
    BY <1>6, <2>1, Zenon DEF Stands, Calling
  <2>3. \E answer \in {"running", "failed"} :
          /\ Reply(o, answer)
          /\ answer = "running" => IsLive(pidfile)
          /\ answer = "failed" => \A b \in Boxes : ~Up(b)
    <3>1. ASSUME IsLive(pidfile) PROVE NothingSpawned(ops[o].gen) = "running"
      <4>1. pidfile \in Boxes /\ Up(pidfile)
        BY <1>1, <3>1 DEF IsLive, Up
      <4>2. entry.enr = [gen |-> box[pidfile].gen, tok |-> box[pidfile].tok]
        BY <2>2, <4>1
      <4>3. box[pidfile].gen = ops[o].gen
        BY <2>2, <4>2
      <4> QED BY <3>1, <4>3 DEF NothingSpawned
    <3>2. CASE EnsuresNothing(o)
      <4>1. NothingToSpawn(ops[o].gen) /\ Reply(o, NothingSpawned(ops[o].gen))
        BY <3>2 DEF EnsuresNothing
      <4>2. handover.gen = ops[o].gen
        BY <2>2
      <4>3. IsLive(pidfile)
        BY <4>1, <4>2 DEF NothingToSpawn
      <4>4. Reply(o, "running")
        BY <3>1, <4>1, <4>3
      <4> QED BY <4>3, <4>4
    <3>3. CASE EnsuresBehindLock(o)
      <4>1. SpawnSettled(lock) /\ Reply(o, AnswerOfWait)
        BY <3>3 DEF EnsuresBehindLock
      <4>2. ~IsLive(pidfile) => \A b \in Boxes : ~Up(b)
        BY <1>1, <1>4, <4>1 DEF SpawnSettled, Locked, Up, IsLive
      <4> QED BY <4>1, <4>2 DEF AnswerOfWait
    <3>4. CASE Spawned(o)
      <4>1. SpawnSettled(ops[o].num) /\ Reply(o, AnswerOfWait) /\ box[ops[o].num].state # "unborn"
        BY <2>1, <3>4 DEF Spawned, MayEnsure, Asks
      <4>2. \A b \in Boxes : box[b].state = "starting" => b = ops[o].num
        BY <1>6, <2>1, <4>1 DEF Heard
      <4>3. ~IsLive(pidfile) => \A b \in Boxes : ~Up(b)
        BY <1>1, <1>4, <4>1, <4>2 DEF SpawnSettled, Locked, Up, IsLive
      <4> QED BY <4>1, <4>3 DEF AnswerOfWait
    <3> QED BY <1>13, <3>2, <3>3, <3>4
  <2>4. PICK answer \in {"running", "failed"} :
          /\ Reply(o, answer)
          /\ answer = "running" => IsLive(pidfile)
          /\ answer = "failed" => \A b \in Boxes : ~Up(b)
    BY <2>3
  <2>5. PICK r \in Recs : /\ Turns(o, r) /\ r.pc = "ensure" /\ r.reply = answer
                          /\ r.gen = ops[o].gen
    BY <1>1, <2>1, <2>4, ReplyIs DEF Answers
  <2>6. answer = "running" => \A b \in Boxes : box'[b].state # "starting"
    BY <1>1, <1>4, <2>1, <2>4 DEF Locked
  <2>7. answer = "failed" => \A b \in Boxes : ~Up(b)'
    BY <2>1, <2>4 DEF Up
  <2>8. r.gen = entry'.auth => IsLive(pidfile)' \/ used'.deaths > 0
    BY <1>2, <1>6, <2>1, <2>5 DEF Heard, IsLive
  <2>9. Heard(r)'
    BY <2>5, <2>6, <2>7, <2>8 DEF Heard
  <2> QED BY <1>7, <1>8, <2>1, <2>5, <2>9 DEF Knows
<1> QED BY <1>3, <1>9, <1>10, <1>11, <1>12, <1>13 DEF Provide

\* No operation turns and no sandbox either.
LEMMA StillReached ==
  ASSUME Reached, UNCHANGED <<ops, box, pidfile, used, patient>>,
         Alike(entry', entry), entry'.enr = entry.enr
  PROVE  Reached'
<1> SUFFICES ASSUME Orderly', Untouched' PROVE Calling' /\ \A o \in Slots : Heard(ops[o])'
  BY DEF Reached
<1>1. Orderly /\ Untouched
  BY AlikeUntouched DEF Orderly
<1>2. Calling /\ \A o \in Slots : Heard(ops[o])
  BY <1>1 DEF Reached
<1>3. Calling'
  BY <1>2 DEF Calling, Up, Alike
<1>4. ASSUME NEW o \in Slots PROVE Heard(ops[o])'
  <2>1. Heard(ops[o])
    BY <1>2
  <2> QED BY <2>1 DEF Heard, Up, IsLive, Alike
<1> QED BY <1>3, <1>4

\* A sandbox that starts has been waited for; one that dies is what Heard allows for.
LEMMA BoxStepReached ==
  ASSUME Trusted, Reached, NEW b \in Boxes, BoxStep(b)
  PROVE  Reached'
<1>1. /\ Typed /\ TypeOK /\ Guarded
      /\ box \in Sandboxes /\ pidfile \in {0} \cup Boxes /\ 0 \notin Boxes
      /\ ops \in [Slots -> Recs]
  BY BoxNames, TypeNames DEF Trusted, Fenced, Typed
<1>2. /\ UNCHANGED <<entry, ops, patient>>
      /\ used'.restarts = used.restarts /\ used'.failures = used.failures
      /\ used'.deaths \in Nat /\ used.deaths \in Nat /\ used.deaths <= used'.deaths
      /\ \A c \in Boxes : /\ box'[c].gen = box[c].gen /\ box'[c].tok = box[c].tok
                          /\ c # b => box'[c].state = box[c].state
      /\ \/ /\ box[b].state = "starting" /\ box'[b].state = "live" /\ pidfile' = b
            /\ used' = used
         \/ /\ box[b].state \in {"starting", "live"} /\ box'[b].state = "dead"
            /\ UNCHANGED pidfile /\ (~entry.exists \/ used'.deaths > 0)
  BY <1>1, BoxStepIs
<1> SUFFICES ASSUME Orderly', Untouched' PROVE Calling' /\ \A o \in Slots : Heard(ops[o])'
  BY DEF Reached
<1>3. Orderly /\ Untouched
  BY <1>2 DEF Orderly, Untouched
<1>4. Calling /\ \A o \in Slots : Heard(ops[o])
  BY <1>3 DEF Reached
<1>5. \A c \in Boxes : /\ Up(c)' => Up(c)
                       /\ box'[c].state = "starting" => box[c].state = "starting"
                       /\ box[c].state = "unborn" <=> box'[c].state = "unborn"
  BY <1>2 DEF Up
<1>6. IsLive(pidfile)' \/ used'.deaths > 0
  BY <1>1, <1>2, <1>3 DEF IsLive, Untouched
<1>7. Calling'
  BY <1>2, <1>4, <1>5 DEF Calling, Up
<1>8. ASSUME NEW o \in Slots PROVE Heard(ops[o])'
  <2>1. Heard(ops[o]) /\ ops[o] \in Recs
    BY <1>1, <1>4
  <2>2. PICK r \in Recs : r = ops[o] /\ Heard(r)
    BY <2>1
  <2>3. r.pc = "ensure" => r.num \in Boxes
    BY <1>1, <2>2, InFlight DEF Flying, Toks
  <2>4. Heard(r)'
    <3>1. \/ r.pc = "inspect" /\ r.reply \in {"stopped", "missing"}
          \/ r.pc \in {"replace", "stop"} /\ r.reply \notin {"none", "failed"}
          => \A c \in Boxes : Up(c)' => box'[c].gen # entry'.auth
      BY <1>2, <1>5, <2>2 DEF Heard
    <3>2. r.pc = "ensure" /\ r.reply \notin {"none", "running"} => \A c \in Boxes : ~Up(c)'
      BY <1>5, <2>2 DEF Heard
    <3>3. r.pc = "ensure" /\ r.reply = "running" => \A c \in Boxes : box'[c].state # "starting"
      BY <1>5, <2>2 DEF Heard
    <3>4. r.pc = "ensure" /\ r.reply = "none" /\ box'[r.num].state # "unborn" =>
            \A c \in Boxes : box'[c].state = "starting" => c = r.num
      BY <1>5, <2>2, <2>3 DEF Heard
    <3>5. r.pc = "stop" => r.auth = entry'.auth
      BY <1>2, <2>2 DEF Heard
    <3> QED BY <1>6, <3>1, <3>2, <3>3, <3>4, <3>5 DEF Heard
  <2>5. ops'[o] = r
    BY <1>2, <2>2
  <2> QED BY <2>4, <2>5 DEF Heard
<1> QED BY <1>7, <1>8

\* A boot forgets what was asked; no sandbox died, so none of the authorized
\* generation is starting.
LEMMA RestartReached ==
  ASSUME Trusted, Reached, Restart
  PROVE  Reached'
<1>1. Typed /\ TypeOK
  BY DEF Trusted, Fenced, Typed
<1>2. /\ used'.deaths = used.deaths /\ used'.failures = used.failures /\ used'.restarts # 0
      /\ entry'.exists = entry.exists /\ entry'.auth = entry.auth
      /\ entry'.enr = entry.enr /\ (entry'.deletion = "none" <=> entry.deletion = "none")
      /\ \A o \in Slots : ops'[o] = Idle \/ ops'[o].pc = "look"
      /\ UNCHANGED <<providerVars, patient>>
  BY <1>1, RestartIs
<1> SUFFICES ASSUME Orderly', Untouched' PROVE Calling' /\ \A o \in Slots : Heard(ops[o])'
  BY DEF Reached
<1>3. used.deaths = 0 /\ Orderly /\ Untouched
  BY <1>2 DEF Orderly, Untouched
<1>4. Calling
  BY <1>3 DEF Reached
<1>5. Calling'
  BY <1>2, <1>3, <1>4 DEF Calling, Up, providerVars
<1>6. ASSUME NEW o \in Slots PROVE Heard(ops[o])'
  <2>1. CASE ops'[o] = Idle
    BY <2>1 DEF Heard, Idle
  <2>2. CASE ops'[o].pc = "look"
    BY <2>2 DEF Heard
  <2> QED BY <1>2, <2>1, <2>2
<1> QED BY <1>5, <1>6

LEMMA ReachedStep ==
  ASSUME Trusted, Reached, [Next]_vars
  PROVE  Reached'
<1>1. Typed /\ TypeOK /\ Guarded
  BY DEF Trusted, Fenced, Typed
<1>2. Alike(entry, entry)
  BY DEF Alike
<1>3. CASE AsideStep
  <2>1. Aside
    BY <1>1, <1>3, AsideIs
  <2> QED BY <2>1, StillReached DEF Aside, providerVars
<1>4. CASE SpawnedForNobody \/ UNCHANGED vars
  <2>1. UNCHANGED <<entry, ops, box, pidfile, used, patient>>
    BY <1>4 DEF SpawnedForNobody, vars, providerVars
  <2> QED BY <1>2, <2>1, StillReached
<1>5. CASE Looked
  BY <1>1, <1>5, LookedActs, ServiceReached
<1> QED BY <1>3, <1>4, <1>5, ServiceReached, ProvideReached, BoxStepReached, RestartReached, Steps

LEMMA ReachedAlways == Spec => [](patient => Reached)
<1>1. Init => (patient => Reached)
  <2> SUFFICES ASSUME Init PROVE Reached
    OBVIOUS
  <2>1. entry = NoEntry
    BY DEF Init
  <2> QED BY <2>1 DEF Reached, Untouched, NoEntry
<1>2. Managed /\ (patient => Reached) /\ [Next]_vars => (patient => Reached)'
  <2> SUFFICES ASSUME Managed, patient => Reached, [Next]_vars, patient' PROVE Reached'
    OBVIOUS
  <2>1. patient
    BY PatientStays DEF Managed
  <2>2. Trusted
    BY <2>1 DEF Managed, Minded, Trusted
  <2> QED BY <2>1, <2>2, ReachedStep
<1> QED BY <1>1, <1>2, ManagedAlways, PTL DEF Spec

\* Without failures and overlaps, a clone that runs and nobody deletes has the
\* credential the fleet accepts whenever nothing is in flight, whatever was
\* started, stopped, taken back and replaced before: the generation and the
\* hand-over file of fleet/bwrap-provider.ts, the enrollment and the registry's
\* binding of fleet/workspace-lifecycle.ts never part.
THEOREM ReadyCanCallBack == Spec => []ReadyIsReachable
<1>1. Managed /\ (patient => Reached) => ReadyIsReachable
  <2> SUFFICES ASSUME Managed, patient => Reached, Orderly, Untouched, IsLive(pidfile)
               PROVE  creds[box[pidfile].gen] = box[pidfile].tok
    BY DEF ReadyIsReachable, Untouched
  <2>1. patient /\ Calling
    BY DEF Orderly, Reached
  <2>2. Vouched /\ pidfile \in Boxes
    BY <2>1, BoxNames DEF Managed, Minded, Fenced, Typed, IsLive
  <2>3. box[pidfile].gen # 0
        /\ entry.enr = [gen |-> box[pidfile].gen, tok |-> box[pidfile].tok]
    BY <2>1, <2>2, Zenon DEF Calling, Up, IsLive
  <2>4. entry.enr.gen = box[pidfile].gen /\ entry.enr.tok = box[pidfile].tok
        /\ entry.enr # Unbound
    BY <2>3 DEF Unbound
  <2> QED BY <2>2, <2>4 DEF Vouched
<1> QED BY <1>1, ManagedAlways, ReachedAlways, PTL
=============================================================================
