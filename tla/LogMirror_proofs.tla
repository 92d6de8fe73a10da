-------------------------- MODULE LogMirror_proofs --------------------------
(***************************************************************************)
(* That the fleet's mirror holds the bytes of one file, that what is acked *)
(* is stored, and that the gate of a deletion opens on the whole file,     *)
(* proved of LogMirror for every number of files, faults and lengths,      *)
(* every place of the line ends and every limit of the tailer.             *)
(*                                                                         *)
(* The first inductive invariant (IInv) says what the store and the queue  *)
(* owe to the history: named gives one file to each generation unless      *)
(* "reused" is among the flaws (OneFileEach), every chunk under way is of  *)
(* one file, which named gives to its generation (Carried), and every byte *)
(* stored is of a file that named gives to the generation of the store's   *)
(* entry, with the entry of index.json of that generation or missing while *)
(* nothing is stored (Kept).                                               *)
(*                                                                         *)
(* The second (SInv) adds what an offset stands for.  Every ack on its     *)
(* way, every watermark on disk or in memory, and the stream's own acked   *)
(* offset is of a file that named gives to its generation, the index has   *)
(* not fallen behind that generation, and while that file is the one       *)
(* followed the index has that many bytes of it and nothing newer is on    *)
(* its way (Held).  Around it: the chunks and the store have no byte the   *)
(* files do not (Bounded), a generation is given to no file before the     *)
(* tailer looks at it (Waits), and a stream that a quiesce has closed is   *)
(* the whole of a file that is written no more (Closing).                  *)
(***************************************************************************)
EXTENDS LogMirror, SequenceTheorems, NaturalsInduction, WellFoundedInduction, TLAPS

Marks == [offset: Nat, generation: Nat, ino: Nat]

Streams ==
  [generation: Nat, acked: Nat, sent: Nat, ino: Nat, size: Nat, watermark: Nat,
   closed: BOOLEAN, eofSent: BOOLEAN, gap: Int]

Files == [ino: Nat, len: Nat]

Entries == [generation: Nat, acked: Nat, eof: BOOLEAN]

Stores == [data: Seq(Nat), entry: Entries, index: Entries]

\* A chunk's bytes are of one file.
Uniform(data) == \A i, j \in DOMAIN data : data[i] = data[j]

Chunks ==
  {c \in [generation: Nat \ {0}, offset: Nat, eof: BOOLEAN, data: Seq(Nat)] : Uniform(c.data)}

Tailers ==
  [life: Lives, assigned: Nat, mark: Marks, timer: BOOLEAN, boundary: Int]

Acks == [offset: Nat, generation: Nat]

Answers == [type: {"log_ack", "log_gap"}, offset: Nat, generation: Nat]

Typed ==
  /\ file \in Files /\ files \in Nat
  /\ stream \in Streams /\ tailer \in Tailers /\ sidecar \in Marks
  /\ pending \in Acks /\ down \in Seq(Answers)

OneFileEach == "reused" \in flaws \/ \A p, q \in named : p[1] = q[1] => p[2] = q[2]

Carried ==
  /\ up \in Seq(Chunks)
  /\ NamedIn(up) \subseteq named

\* The bytes are of files that names gives to the generation.
Owed(data, generation, names) == \A i \in DOMAIN data : <<generation, data[i]>> \in names

Kept(st, names) ==
  /\ st \in Stores
  /\ st.index = NoEntry => st.data = <<>>
  /\ st.index # NoEntry => st.index.generation = st.entry.generation /\ st.entry.generation > 0
  /\ Owed(st.data, st.entry.generation, names)

IInv == Typed /\ OneFileEach /\ Carried /\ Kept(store, named)
-----------------------------------------------------------------------------
(* Numbers.                                                                *)

(* A set of naturals that is not empty has a least element.                *)
LEMMA Minimum ==
  ASSUME NEW S \in SUBSET Nat, S # {}
  PROVE  \E x \in S : \A y \in S : x <= y
<1>1. IsWellFoundedOn(OpToRel(<, Nat), Nat)
  BY NatLessThanWellFounded
<1>2. PICK x \in S : \A y \in S : <<y, x>> \notin OpToRel(<, Nat)
  BY <1>1, WFMin
<1>3. ASSUME NEW y \in S PROVE x <= y
  <2>1. x \in Nat /\ y \in Nat
    OBVIOUS
  <2>2. ~(y < x)
    BY <1>2, <2>1 DEF OpToRel
  <2> QED BY <2>1, <2>2
<1> QED BY <1>3

(* The last line end before n is no further than n.                        *)
LEMMA LastLineEndBelow ==
  ASSUME NEW n \in Nat
  PROVE  LastLineEnd(n) \in 0..n
<1> DEFINE S == {0} \cup (LineEnds \cap 1..n)
           T == {m \in Nat : \A x \in S : x <= m}
<1>1. S \subseteq 0..n /\ 0 \in S
  OBVIOUS
<1>2. n \in T
  BY <1>1
<1>3. PICK m \in T : \A k \in T : m <= k
  BY <1>2, Minimum
<1>4. m \in S
  <2> SUFFICES ASSUME m \notin S PROVE FALSE
    OBVIOUS
  <2>1. m \in Nat /\ \A x \in S : x <= m
    OBVIOUS
  <2>2. m # 0 /\ m - 1 \in Nat
    BY <1>1, <2>1
  <2>3. \A x \in S : x <= m - 1
    BY <1>1, <2>1
  <2>4. m - 1 \in T
    BY <2>2, <2>3
  <2> QED BY <1>3, <2>1, <2>4
<1>5. \E x \in S : \A y \in S : x >= y
  BY <1>1, <1>4
<1>6. Max(S) \in S
  BY <1>5 DEF Max
<1> QED BY <1>1, <1>6 DEF LastLineEnd

-----------------------------------------------------------------------------
(* The tailer.                                                             *)

Following == {t \in [stream: Streams, queue: Seq(Chunks)] : Tracks(t.stream)}

\* The first m turns of a drain's read loop, as f.
Turning(tail, m, f) ==
  f = [n \in 0..m |-> IF n = 0 THEN {tail} ELSE {SendNext(t) : t \in f[n - 1]}]

(* There is such a function, though its definition is recursive.           *)
LEMMA TurnsExist ==
  ASSUME NEW tail, NEW m \in Nat
  PROVE  \E f : Turning(tail, m, f)
<1> DEFINE S == {n \in Nat : ~\E f : Turning(tail, n, f)}
<1> SUFFICES ASSUME S # {} PROVE FALSE
  OBVIOUS
<1>1. PICK n \in S : \A k \in S : n <= k
  BY Minimum
<1>2. n # 0
  <2> DEFINE f == [i \in 0..0 |-> {tail}]
  <2>1. Turning(tail, 0, f)
    BY DEF Turning
  <2> QED BY <2>1
<1>3. n - 1 \in Nat /\ n \in Nat
  BY <1>2
<1>4. PICK f : Turning(tail, n - 1, f)
  <2>1. ~(n <= n - 1)
    BY <1>3
  <2>2. n - 1 \notin S
    BY <1>1, <2>1
  <2> QED BY <1>3, <2>2
<1> DEFINE g == [i \in 0..n |-> IF i = n THEN {SendNext(t) : t \in f[n - 1]} ELSE f[i]]
<1>5. ASSUME NEW i \in 0..n PROVE g[i] = IF i = 0 THEN {tail} ELSE {SendNext(t) : t \in g[i - 1]}
  <2>1. CASE i = 0
    <3>1. f[0] = {tail}
      BY <1>3, <1>4 DEF Turning
    <3> QED BY <1>2, <2>1, <3>1
  <2>2. CASE i # 0 /\ i = n
    <3>1. g[i - 1] = f[n - 1]
      BY <1>3, <2>2
    <3> QED BY <2>2, <3>1
  <2>3. CASE i # 0 /\ i # n
    <3>1. i - 1 \in 0..n /\ i - 1 # n /\ i \in 0..(n - 1)
      BY <1>3, <2>3
    <3>2. g[i - 1] = f[i - 1] /\ g[i] = f[i]
      BY <2>3, <3>1
    <3>3. f[i] = {SendNext(t) : t \in f[i - 1]}
      BY <1>4, <2>3, <3>1 DEF Turning
    <3> QED BY <2>3, <3>2, <3>3
  <2> QED BY <2>1, <2>2, <2>3
<1>6. Turning(tail, n, g)
  BY <1>5 DEF Turning
<1> QED BY <1>6

LEMMA SendAllKeeps ==
  ASSUME NEW S, NEW tail \in S,
         \A t \in S : SendNext(t) \in S
  PROVE  SendAll(tail) \subseteq S
<1> DEFINE turns == CHOOSE f : Turning(tail, QueueMax, f)
           late == {n \in 0..QueueMax : ~(turns[n] \subseteq S)}
<1>0. QueueMax \in Nat
  BY TailerLimits
<1>1. turns = [n \in 0..QueueMax |->
                IF n = 0 THEN {tail} ELSE {SendNext(t) : t \in turns[n - 1]}]
  <2>1. \E f : Turning(tail, QueueMax, f)
    BY <1>0, TurnsExist
  <2>2. Turning(tail, QueueMax, turns)
    BY <2>1, Zenon
  <2> QED BY <2>2 DEF Turning
<1>2. SendAll(tail) = turns[QueueMax]
  BY DEF SendAll, Turning
<1> HIDE DEF turns
<1>3. late = {}
  <2> SUFFICES ASSUME late # {} PROVE FALSE
    OBVIOUS
  <2>1. PICK n \in late : \A k \in late : n <= k
    <3>1. late \in SUBSET Nat
      BY <1>0
    <3> QED BY <3>1, Minimum
  <2>2. n \in 0..QueueMax /\ ~(turns[n] \subseteq S)
    OBVIOUS
  <2>3. n # 0
    BY <1>0, <1>1, <2>2
  <2>4. n - 1 \in 0..QueueMax /\ n - 1 \notin late
    BY <1>0, <2>1, <2>2, <2>3
  <2>5. turns[n - 1] \subseteq S
    BY <2>4
  <2>6. turns[n] = {SendNext(t) : t \in turns[n - 1]}
    BY <1>1, <2>2, <2>3
  <2> QED BY <2>2, <2>5, <2>6
<1> QED BY <1>0, <1>2, <1>3

\* What a drain leaves: a stream that may have been dropped.
Left == [stream: Streams, queue: Seq(Chunks)]

LEMMA FollowingIsLeft == Following \subseteq Left
BY DEF Following, Left

LEMMA TailsTyped ==
  ASSUME NEW s \in Streams, NEW queue \in Seq(Chunks)
  PROVE  Tails(s, queue) \in Left /\ (Tracks(s) => Tails(s, queue) \in Following)
BY DEF Tails, Left, Following

\* A rewound stream, the end of the range under repair in gap.
LEMMA RewoundTyped ==
  ASSUME NEW s \in Streams, NEW x \in Nat
  PROVE  LET r == [s EXCEPT !.gap = s.sent, !.sent = x]
         IN  r \in Streams /\ (Tracks(s) => Tracks(r))
<1> DEFINE g == s.sent
           r == [s EXCEPT !.gap = g, !.sent = x]
<1>1. g \in Int
  BY DEF Streams
<1> HIDE DEF g
<1>2. r \in Streams /\ (Tracks(s) => Tracks(r))
  BY <1>1 DEF Streams, Tracks
<1> QED BY <1>2 DEF g

LEMMA ResyncFollows ==
  ASSUME NEW s \in Streams
  PROVE  Resync(s) \in Streams /\ Tracks(Resync(s))
<1> DEFINE k == s.generation + 1
           a == [s EXCEPT !.generation = k, !.acked = 0, !.sent = 0]
           b == [a EXCEPT !.gap = NoGap, !.closed = FALSE, !.eofSent = FALSE]
<1>0. NoGap \in Int /\ k \in Nat /\ k > 0
  BY DEF NoGap, Streams
<1>3. Resync(s) = b
  BY DEF Resync
<1> HIDE DEF k
<1>1. a \in Streams /\ a.generation > 0
  BY <1>0 DEF Streams
<1> HIDE DEF a
<1>2. b \in Streams /\ b.generation > 0
  BY <1>0, <1>1 DEF Streams
<1> QED BY <1>2, <1>3 DEF Tracks

LEMMA LookedFollows ==
  ASSUME NEW s \in Streams, Tracks(s), NEW f \in Files
  PROVE  Looked(s, f) \in Streams /\ Tracks(Looked(s, f))
<1> DEFINE d == IF Diverged(s, f) THEN Resync(s) ELSE s
           w == IF Outdated(d, f) THEN Resync(d) ELSE d
<1>1. d \in Streams /\ Tracks(d)
  BY ResyncFollows
<1> HIDE DEF d
<1>2. w \in Streams /\ Tracks(w)
  BY <1>1, ResyncFollows
<1>3. Looked(s, f) = [w EXCEPT !.ino = f.ino, !.size = f.len, !.watermark = f.ino]
  BY DEF Looked, d
<1> HIDE DEF w
<1> QED BY <1>2, <1>3 DEF Streams, Files, Tracks

LEMMA CutIsPosition ==
  ASSUME NEW s \in Streams
  PROVE  Cut(s) \in Nat
<1> DEFINE full == IF s.sent + ChunkMax < s.size THEN s.sent + ChunkMax ELSE s.size
<1>1. s.sent \in Nat /\ s.size \in Nat /\ ChunkMax \in Nat
  BY TailerLimits DEF Streams
<1>2. full \in Nat
  BY <1>1
<1>3. LastLineEnd(full) \in Nat
  BY <1>2, LastLineEndBelow
<1>4. Cut(s) \in {full, LastLineEnd(full), s.sent}
  BY DEF Cut
<1> QED BY <1>1, <1>2, <1>3, <1>4

LEMMA ChunkIsOfOneFile ==
  ASSUME NEW s \in Streams, Tracks(s), NEW end \in Nat, s.sent <= end, NEW eof \in BOOLEAN
  PROVE  Chunk(s, end, eof) \in Chunks
<1>1. s.generation \in Nat \ {0} /\ s.sent \in Nat /\ s.ino \in Nat /\ end - s.sent \in Nat
  BY DEF Streams, Tracks
<1>2. Bytes(s.ino, end - s.sent) \in Seq(Nat) /\ Uniform(Bytes(s.ino, end - s.sent))
  BY <1>1 DEF Bytes, Uniform
<1> QED BY <1>1, <1>2 DEF Chunk, Chunks

LEMMA SendNextFollows ==
  ASSUME NEW tail \in Following
  PROVE  SendNext(tail) \in Following
<1> DEFINE s == tail.stream
           end == Cut(s)
           eof == s.closed /\ end = s.size
           c == Chunk(s, end, eof)
           r == [s EXCEPT !.sent = end]
<1>1. s \in Streams /\ Tracks(s) /\ tail.queue \in Seq(Chunks)
  BY DEF Following
<1>2. end \in Nat
  BY <1>1, CutIsPosition
<1>3. CASE s.sent < s.size /\ ~RingExhausted(s) /\ end > s.sent /\ Room(tail.queue)
  <2>1. SendNext(tail) = Tails(r, Append(tail.queue, c))
    BY <1>3 DEF SendNext
  <2>2. s.closed \in BOOLEAN /\ s.sent \in Nat
    BY <1>1 DEF Streams
  <2>3. c \in Chunks
    <3>1. eof \in BOOLEAN /\ s.sent <= end
      BY <1>2, <1>3, <2>2
    <3> QED BY <1>1, <1>2, <3>1, ChunkIsOfOneFile
  <2> HIDE DEF s, c, end
  <2>4. r \in Streams /\ Tracks(r)
    BY <1>1, <1>2 DEF Streams, Tracks
  <2>5. Append(tail.queue, c) \in Seq(Chunks)
    BY <1>1, <2>3
  <2> QED BY <2>1, <2>4, <2>5, TailsTyped
<1>4. CASE ~(s.sent < s.size /\ ~RingExhausted(s) /\ end > s.sent /\ Room(tail.queue))
  <2>1. SendNext(tail) = tail
    BY <1>4 DEF SendNext
  <2> QED BY <2>1
<1> QED BY <1>3, <1>4

LEMMA SendEofFollows ==
  ASSUME NEW tail \in Following
  PROVE  SendEof(tail) \in Following
<1> DEFINE s == tail.stream
           c == Chunk(s, s.sent, TRUE)
           r == [s EXCEPT !.eofSent = TRUE]
<1>1. s \in Streams /\ Tracks(s) /\ tail.queue \in Seq(Chunks) /\ s.sent \in Nat
  BY DEF Following, Streams
<1>2. c \in Chunks
  <2>1. s.sent <= s.sent
    BY <1>1
  <2> HIDE DEF s
  <2> QED BY <1>1, <2>1, ChunkIsOfOneFile
<1>3. SendEof(tail) \in {tail, Tails(r, Append(tail.queue, c))}
  BY DEF SendEof
<1> HIDE DEF s, c
<1>4. r \in Streams /\ Tracks(r)
  BY <1>1 DEF Streams, Tracks
<1>5. Append(tail.queue, c) \in Seq(Chunks)
  BY <1>1, <1>2
<1> QED BY <1>3, <1>4, <1>5, TailsTyped

LEMMA DrainLeaves ==
  ASSUME NEW s \in Streams, Tracks(s), NEW f \in Files, NEW queue \in Seq(Chunks)
  PROVE  Drain(s, f, queue) \subseteq Left
<1>1. Tails(s, queue) \in Following
  BY TailsTyped
<1>2. Untracked \in Streams
  BY DEF Untracked, Streams, NoGap
<1>3. CASE f = NoFile
  <2>1. SendEof(Tails(s, queue)).queue \in Seq(Chunks)
    BY <1>1, SendEofFollows DEF Following
  <2>2. DropStream(s, queue) \in Left
    BY <1>2, <2>1, TailsTyped DEF DropStream
  <2> QED BY <1>3, <2>2 DEF Drain
<1>4. CASE f # NoFile
  <2> DEFINE looked == Looked(s, f)
             t0 == Tails(looked, queue)
  <2>1. looked \in Streams /\ Tracks(looked)
    BY LookedFollows
  <2> HIDE DEF looked
  <2>2. t0 \in Following
    BY <2>1, TailsTyped
  <2>3. Sent(looked, queue) \subseteq Following
    <3>1. CASE Finished(looked)
      BY <2>2, <3>1 DEF Sent
    <3>2. CASE ~Finished(looked)
      <4>1. SendAll(t0) \subseteq Following
        BY <2>2, SendNextFollows, SendAllKeeps
      <4>2. ASSUME NEW t \in SendAll(t0) PROVE Settled(looked, t) \in Following
        BY <4>1, SendEofFollows DEF Settled
      <4> QED BY <3>2, <4>2 DEF Sent
    <3> QED BY <3>1, <3>2
  <2>4. Drain(s, f, queue) = Sent(looked, queue)
    <3>1. Drain(s, f, queue) = UNION {Sent(l, queue) : l \in {Looked(s, f)}}
      BY <1>4 DEF Drain
    <3> QED BY <3>1 DEF looked
  <2> QED BY <2>3, <2>4, FollowingIsLeft
<1> QED BY <1>3, <1>4

LEMMA FinalizeLeaves ==
  ASSUME NEW s \in Streams, NEW f \in Files, NEW queue \in Seq(Chunks)
  PROVE  Finalize(s, f, queue) \subseteq Left
<1> DEFINE c == [s EXCEPT !.closed = TRUE]
<1>1. c \in Streams /\ (Tracks(s) => Tracks(c))
  BY DEF Streams, Tracks
<1>2. Tracks(s) => Drain(c, f, queue) \subseteq Left
  BY <1>1, DrainLeaves
<1> QED BY <1>2, TailsTyped DEF Finalize

LEMMA CheckRingLeaves ==
  ASSUME NEW tail \in Left, NEW f \in Files
  PROVE  CheckRing(tail, f) \subseteq Left
<1> DEFINE s == tail.stream
           r == [s EXCEPT !.gap = s.sent, !.sent = s.acked]
<1>1. s \in Streams /\ tail.queue \in Seq(Chunks)
  BY DEF Left
<1> HIDE DEF s
<1>2. r \in Streams /\ (Tracks(s) => Tracks(r))
  <2>1. s.acked \in Nat
    BY <1>1 DEF Streams
  <2> QED BY <1>1, <2>1, RewoundTyped
<1>3. Tracks(s) => Drain(r, f, tail.queue) \subseteq Left
  BY <1>1, <1>2, DrainLeaves
<1> QED BY <1>3 DEF CheckRing, Overflows, s

LEMMA RepairRangeLeaves ==
  ASSUME NEW s \in Streams, NEW from \in Nat, NEW f \in Files, NEW queue \in Seq(Chunks)
  PROVE  RepairRange(s, from, f, queue) \subseteq Left
<1> DEFINE target == IF from < s.sent THEN from ELSE s.sent
           r == [s EXCEPT !.gap = s.sent, !.sent = target]
<1>1. target \in Nat
  BY DEF Streams
<1> HIDE DEF target
<1>2. r \in Streams /\ (Tracks(s) => Tracks(r))
  BY <1>1, RewoundTyped
<1>3. Tracks(s) => Drain(r, f, queue) \subseteq Left
  BY <1>2, DrainLeaves
<1>4. RepairRange(s, from, f, queue) =
        IF ~Tracks(s) \/ (target >= s.sent /\ s.gap = NoGap) THEN {Tails(s, queue)}
        ELSE Drain(r, f, queue)
  BY DEF RepairRange, target
<1> QED BY <1>3, <1>4, TailsTyped

LEMMA AcknowledgedTyped ==
  ASSUME NEW s \in Streams, NEW offset \in Nat
  PROVE  Acknowledged(s, offset) \in Streams /\ (Tracks(s) => Tracks(Acknowledged(s, offset)))
<1> DEFINE acked == IF offset > s.acked THEN offset ELSE s.acked
           gap == IF s.gap # NoGap /\ acked >= s.gap THEN NoGap ELSE s.gap
           b == [s EXCEPT !.acked = acked, !.gap = gap]
<1>1. NoGap \in Int /\ acked \in Nat /\ gap \in Int
  BY DEF NoGap, Streams
<1>2. Acknowledged(s, offset) = b
  BY DEF Acknowledged
<1> HIDE DEF acked, gap
<1>3. b \in Streams /\ (Tracks(s) => Tracks(b))
  BY <1>1 DEF Streams, Tracks
<1> QED BY <1>2, <1>3

LEMMA TrackFollows ==
  ASSUME NEW assigned \in Nat, NEW mark \in Marks
  PROVE  Track(assigned, mark) \in Streams /\ Tracks(Track(assigned, mark))
<1> DEFINE m == IF assigned = 0 THEN mark ELSE NoMark
           g == NextGeneration(assigned, mark)
           o == m.offset
           i == m.ino
           a == [Untracked EXCEPT !.generation = g, !.acked = o]
           b == [a EXCEPT !.sent = o, !.watermark = i]
<1>1. m \in Marks
  BY DEF Marks, NoMark
<1>2. g \in Nat /\ g > 0
  BY DEF NextGeneration, Marks
<1>3. Track(assigned, mark) = b
  BY DEF Track
<1> HIDE DEF m
<1>5. o \in Nat /\ i \in Nat
  BY <1>1 DEF Marks
<1> HIDE DEF o, i, g
<1>6. Untracked \in Streams
  BY DEF Untracked, Streams, NoGap
<1>4. a \in Streams /\ a.generation > 0
  BY <1>2, <1>5, <1>6 DEF Streams
<1> HIDE DEF a
<1>7. b \in Streams /\ b.generation > 0
  BY <1>4, <1>5 DEF Streams
<1> QED BY <1>3, <1>7 DEF Tracks

LEMMA MarkOfTyped ==
  ASSUME NEW s \in Streams
  PROVE  MarkOf(s) \in Marks
BY DEF MarkOf, Marks, NoMark, Streams

-----------------------------------------------------------------------------
(* The store.                                                              *)

LEMMA PartOf ==
  ASSUME NEW S, NEW s \in Seq(S), NEW m \in Nat \ {0}, NEW n \in 0..Len(s)
  PROVE  /\ SubSeq(s, m, n) \in Seq(S)
         /\ \A i \in DOMAIN SubSeq(s, m, n) :
              /\ m + i - 1 \in DOMAIN s /\ SubSeq(s, m, n)[i] = s[m + i - 1]
<1>1. \A i \in m..n : s[i] \in S
  OBVIOUS
<1>2. m \in Int /\ n \in Int
  OBVIOUS
<1>3. /\ SubSeq(s, m, n) \in Seq(S)
      /\ Len(SubSeq(s, m, n)) = IF m <= n THEN n - m + 1 ELSE 0
      /\ \A i \in 1..(n - m + 1) : SubSeq(s, m, n)[i] = s[m + i - 1]
  BY <1>1, <1>2, SubSeqProperties
<1> DEFINE p == SubSeq(s, m, n)
<1>4. DOMAIN p = 1..Len(p) /\ DOMAIN s = 1..Len(s) /\ Len(s) \in Nat
  BY <1>3
<1> HIDE DEF p
<1>5. ASSUME NEW i \in DOMAIN p PROVE i \in 1..(n - m + 1) /\ m + i - 1 \in DOMAIN s
  <2>1. Len(p) = IF m <= n THEN n - m + 1 ELSE 0
    BY <1>3 DEF p
  <2> QED BY <1>4, <2>1
<1> QED BY <1>3, <1>5 DEF p

LEMMA KeptGrows ==
  ASSUME NEW st, NEW names, NEW more, Kept(st, names), names \subseteq more
  PROVE  Kept(st, more)
BY DEF Kept, Owed

ChunkNamed(c, names) == c.data # <<>> => <<c.generation, c.data[1]>> \in names

LEMMA FreshTyped ==
  ASSUME NEW c \in Chunks
  PROVE  Fresh(c) \in Entries /\ Fresh(c) # NoEntry /\ Fresh(c).generation = c.generation
BY DEF Fresh, Entries, NoEntry, Chunks

LEMMA AdmittedKept ==
  ASSUME NEW names, NEW st, Kept(st, names), NEW c \in Chunks, ~Obsolete(st, c)
  PROVE  Kept(Admitted(st, c), names) /\ Admitted(st, c).entry.generation = c.generation
<1>1. st \in Stores /\ st.entry \in Entries /\ st.index \in Entries
  BY DEF Kept, Stores
<1>2. c.generation \in Nat \ {0} /\ st.entry.generation \in Nat
  BY <1>1 DEF Chunks, Entries
<1>3. CASE Renews(st, c)
  <2>1. Admitted(st, c) = [data |-> <<>>, entry |-> Fresh(c), index |-> Fresh(c)]
    BY <1>3 DEF Admitted, Renews
  <2>2. Admitted(st, c) \in Stores
    BY <2>1, FreshTyped DEF Stores
  <2> QED BY <1>2, <2>1, <2>2, FreshTyped DEF Kept, Owed
<1>4. CASE st.entry = NoEntry
  <2>1. ~Renews(st, c)
    BY <1>4 DEF Renews
  <2>2. Admitted(st, c) = [st EXCEPT !.entry = Fresh(c)]
    BY <1>4, <2>1 DEF Admitted
  <2>3. st.index = NoEntry /\ st.data = <<>>
    BY <1>4 DEF Kept, NoEntry
  <2>4. Admitted(st, c) \in Stores
    BY <1>1, <2>2, FreshTyped DEF Stores
  <2>5. /\ Admitted(st, c).index = NoEntry /\ Admitted(st, c).data = <<>>
        /\ Admitted(st, c).entry = Fresh(c)
    BY <1>1, <2>2, <2>3 DEF Stores
  <2> QED BY <2>4, <2>5, FreshTyped DEF Kept, Owed
<1>5. CASE ~Renews(st, c) /\ st.entry # NoEntry
  <2>1. Admitted(st, c) = st
    BY <1>5 DEF Admitted
  <2>2. st.entry.generation = c.generation
    BY <1>2, <1>5 DEF Obsolete, Renews
  <2> QED BY <2>1, <2>2
<1> QED BY <1>3, <1>4, <1>5

LEMMA SuffixOfOneFile ==
  ASSUME NEW names, NEW a \in Stores, NEW c \in Chunks, ~Gap(a, c), ChunkNamed(c, names)
  PROVE  /\ Suffix(a, c) \in Seq(Nat) /\ Uniform(Suffix(a, c))
         /\ Owed(Suffix(a, c), c.generation, names)
<1> DEFINE m == Len(a.data) - c.offset + 1
<1>1. c.data \in Seq(Nat) /\ Uniform(c.data) /\ c.offset \in Nat /\ Len(a.data) \in Nat
  BY DEF Chunks, Stores
<1>2. m \in Nat \ {0}
  BY <1>1 DEF Gap
<1>3. Len(c.data) \in 0..Len(c.data)
  BY <1>1
<1> HIDE DEF m
<1>4. /\ SubSeq(c.data, m, Len(c.data)) \in Seq(Nat)
      /\ \A i \in DOMAIN SubSeq(c.data, m, Len(c.data)) :
           /\ m + i - 1 \in DOMAIN c.data
           /\ SubSeq(c.data, m, Len(c.data))[i] = c.data[m + i - 1]
  BY <1>1, <1>2, <1>3, PartOf
<1>5. Suffix(a, c) = SubSeq(c.data, m, Len(c.data))
  BY DEF Suffix, m
<1>6. ASSUME NEW i \in DOMAIN Suffix(a, c)
      PROVE  c.data # <<>> /\ Suffix(a, c)[i] = c.data[1]
  <2>1. m + i - 1 \in DOMAIN c.data /\ Suffix(a, c)[i] = c.data[m + i - 1]
    BY <1>4, <1>5
  <2>2. c.data # <<>> /\ 1 \in DOMAIN c.data
    BY <1>1, <2>1
  <2> QED BY <1>1, <2>1, <2>2 DEF Uniform
<1> QED BY <1>4, <1>5, <1>6 DEF Uniform, Owed, ChunkNamed

LEMMA ConcatOwed ==
  ASSUME NEW s \in Seq(Nat), NEW t \in Seq(Nat), NEW g, NEW names,
         Owed(s, g, names), Owed(t, g, names)
  PROVE  s \o t \in Seq(Nat) /\ Owed(s \o t, g, names)
<1>1. /\ s \o t \in Seq(Nat) /\ Len(s \o t) = Len(s) + Len(t)
      /\ \A i \in 1..(Len(s) + Len(t)) :
           (s \o t)[i] = IF i <= Len(s) THEN s[i] ELSE t[i - Len(s)]
  BY ConcatProperties
<1>2. ASSUME NEW i \in DOMAIN (s \o t) PROVE <<g, (s \o t)[i]>> \in names
  <2>1. i \in 1..(Len(s) + Len(t)) /\ Len(s) \in Nat /\ Len(t) \in Nat
    BY <1>1
  <2>2. CASE i <= Len(s)
    <3>1. i \in DOMAIN s /\ (s \o t)[i] = s[i]
      BY <1>1, <2>1, <2>2
    <3> QED BY <3>1 DEF Owed
  <2>3. CASE ~(i <= Len(s))
    <3>1. i - Len(s) \in DOMAIN t /\ (s \o t)[i] = t[i - Len(s)]
      BY <1>1, <2>1, <2>3
    <3> QED BY <3>1 DEF Owed
  <2> QED BY <2>2, <2>3
<1> QED BY <1>1, <1>2 DEF Owed

LEMMA IngestKept ==
  ASSUME NEW names, NEW st, Kept(st, names), NEW c \in Chunks, ChunkNamed(c, names)
  PROVE  Kept(Ingest(st, c), names)
<1>1. CASE Verdict(st, c) = "obsolete"
  BY <1>1 DEF Ingest
<1>2. CASE Verdict(st, c) # "obsolete"
  <2> DEFINE a == Admitted(st, c)
  <2>0. ~Obsolete(st, c)
    BY <1>2 DEF Verdict
  <2>1. Kept(a, names) /\ a.entry.generation = c.generation
    BY <2>0, AdmittedKept
  <2>2. a \in Stores /\ c.generation \in Nat \ {0} /\ a.data \in Seq(Nat)
    BY <2>1 DEF Kept, Stores, Chunks
  <2>3. CASE Verdict(st, c) = "acked"
    <3> DEFINE e == [generation |-> a.entry.generation, acked |-> End(c), eof |-> c.eof]
               d == a.data \o Suffix(a, c)
    <3>1. ~Gap(a, c)
      BY <2>0, <2>3 DEF Verdict
    <3>2. Ingest(st, c) = [data |-> d, entry |-> e, index |-> e]
      BY <2>3 DEF Ingest, Appended
    <3>3. d \in Seq(Nat) /\ Owed(d, c.generation, names)
      BY <2>1, <2>2, <3>1, SuffixOfOneFile, ConcatOwed DEF Kept
    <3>4. End(c) \in Nat /\ c.eof \in BOOLEAN
      BY DEF End, Chunks
    <3>5. e \in Entries /\ e.generation = c.generation /\ e # NoEntry
      BY <2>1, <2>2, <3>4 DEF Entries, NoEntry
    <3> HIDE DEF d, e
    <3> QED BY <2>2, <3>2, <3>3, <3>5 DEF Kept, Stores
  <2>4. CASE Verdict(st, c) # "acked"
    <3>1. Ingest(st, c) = Healed(a)
      BY <1>2, <2>4 DEF Ingest
    <3> HIDE DEF a
    <3> DEFINE e == [a.entry EXCEPT !.acked = Len(a.data)]
    <3>2. e \in Entries /\ e.generation = a.entry.generation
      BY <2>2 DEF Entries, Stores
    <3>3. Healed(a) = [a EXCEPT !.entry = e]
      BY DEF Healed
    <3> HIDE DEF e
    <3>4. /\ Healed(a) \in Stores /\ Healed(a).data = a.data
          /\ Healed(a).entry = e /\ Healed(a).index = a.index
      BY <2>2, <3>2, <3>3 DEF Stores
    <3> QED BY <2>1, <3>1, <3>2, <3>4 DEF Kept
  <2> QED BY <2>3, <2>4
<1> QED BY <1>1, <1>2

\* What is on disk when the fleet ends: an entry of index.json for its bytes,
\* or bytes of one file that load() adopts.
Recoverable(disk, names) ==
  /\ disk.data \in Seq(Nat) /\ disk.index \in Entries
  /\ disk.index = NoEntry => Uniform(disk.data)
  /\ disk.index # NoEntry =>
       disk.index.generation > 0 /\ Owed(disk.data, disk.index.generation, names)

LEMMA KeptIsRecoverable ==
  ASSUME NEW names, NEW st, Kept(st, names)
  PROVE  Recoverable(st, names)
BY DEF Kept, Recoverable, Stores, Uniform

LEMMA InterruptedIsRecoverable ==
  ASSUME NEW names, NEW st, Kept(st, names), NEW c \in Chunks, ChunkNamed(c, names),
         NEW disk \in Interrupted(st, c)
  PROVE  Recoverable(disk, names)
<1> DEFINE a == Admitted(st, c)
<1>0. st \in Stores
  BY DEF Kept
<1>1. CASE disk = st
  BY <1>1, KeptIsRecoverable
<1>2. CASE Renews(st, c) /\ disk = [st EXCEPT !.data = <<>>]
  <2>1. disk.data = <<>> /\ disk.index = st.index /\ st.index \in Entries
    BY <1>0, <1>2 DEF Stores
  <2> QED BY <2>1 DEF Recoverable, Kept, Uniform, Owed
<1>3. CASE Renews(st, c) /\ disk = a
  <2>1. ~Obsolete(st, c)
    BY <1>0, <1>3 DEF Renews, Obsolete, Stores, Entries, Chunks
  <2> QED BY <1>3, <2>1, AdmittedKept, KeptIsRecoverable
<1>4. ASSUME Verdict(st, c) = "acked", NEW k \in 0..Len(Suffix(a, c)),
             disk = [a EXCEPT !.data = @ \o SubSeq(Suffix(a, c), 1, k)]
      PROVE  Recoverable(disk, names)
  <2>1. ~Obsolete(st, c) /\ ~Gap(a, c)
    BY <1>4 DEF Verdict
  <2>2. Kept(a, names) /\ a.entry.generation = c.generation
    BY <2>1, AdmittedKept
  <2> HIDE DEF a
  <2>3. /\ a \in Stores /\ a.data \in Seq(Nat) /\ a.index \in Entries
        /\ Owed(a.data, c.generation, names)
    BY <2>2 DEF Kept, Stores
  <2> DEFINE x == Suffix(a, c)
             y == SubSeq(x, 1, k)
  <2>4. x \in Seq(Nat) /\ Uniform(x) /\ Owed(x, c.generation, names)
    BY <2>1, <2>3, SuffixOfOneFile
  <2>5. k \in 0..Len(x)
    BY <1>4
  <2> HIDE DEF x
  <2>6. y \in Seq(Nat) /\ \A i \in DOMAIN y : i \in DOMAIN x /\ y[i] = x[i]
    <3>1. 1 \in Nat \ {0}
      OBVIOUS
    <3>2. /\ y \in Seq(Nat)
          /\ \A i \in DOMAIN y : 1 + i - 1 \in DOMAIN x /\ y[i] = x[1 + i - 1]
      BY <2>4, <2>5, <3>1, PartOf
    <3>3. \A i \in DOMAIN y : i \in Nat
      BY <3>2
    <3>4. \A i \in DOMAIN y : 1 + i - 1 = i
      BY <3>3
    <3> HIDE DEF y
    <3> QED BY <3>2, <3>4
  <2> HIDE DEF y
  <2>7. Uniform(y) /\ Owed(y, c.generation, names)
    BY <2>4, <2>6 DEF Uniform, Owed
  <2>8. disk = [a EXCEPT !.data = a.data \o y]
    BY <1>4 DEF x, y
  <2>9. disk.data = a.data \o y /\ disk.index = a.index
    BY <2>3, <2>8 DEF Stores
  <2>10. disk.data \in Seq(Nat) /\ Owed(disk.data, c.generation, names)
    BY <2>3, <2>6, <2>7, <2>9, ConcatOwed
  <2>11. a.index = NoEntry => disk.data = y
    BY <2>2, <2>6, <2>9 DEF Kept
  <2>12. a.index # NoEntry => a.index.generation = c.generation /\ c.generation > 0
    BY <2>2 DEF Kept
  <2> QED BY <2>3, <2>7, <2>9, <2>10, <2>11, <2>12 DEF Recoverable
<1>5. CASE disk = Ingest(st, c)
  BY <1>5, IngestKept, KeptIsRecoverable
<1> QED BY <1>1, <1>2, <1>3, <1>4, <1>5 DEF Interrupted

LEMMA TrustedBelow ==
  ASSUME NEW n \in Nat, NEW acked \in Nat
  PROVE  Trusted(n, acked) \in 0..n
BY LastLineEndBelow DEF Trusted

LEMMA LoadedKept ==
  ASSUME NEW names, NEW disk, Recoverable(disk, names)
  PROVE  Kept(Loaded(disk), names \cup NamedByLoad(disk, Loaded(disk)))
<1> DEFINE n == Trusted(Len(disk.data), disk.index.acked)
           d == SubSeq(disk.data, 1, n)
           e == CASE disk.index # NoEntry -> [disk.index EXCEPT !.acked = n]
                  [] disk.index = NoEntry /\ disk.data = <<>> -> NoEntry
                  [] OTHER -> [generation |-> 1, acked |-> n, eof |-> FALSE]
           names1 == names \cup NamedByLoad(disk, Loaded(disk))
<1>1. Loaded(disk) = [data |-> d, entry |-> e, index |-> e]
  BY DEF Loaded
<1>2. n \in 0..Len(disk.data)
  <2>1. Len(disk.data) \in Nat /\ disk.index.acked \in Nat
    BY DEF Recoverable, Entries
  <2> QED BY <2>1, TrustedBelow
<1>7. n \in Nat
  BY <1>2 DEF Recoverable
<1> HIDE DEF n
<1>3. d \in Seq(Nat) /\ \A i \in DOMAIN d : i \in DOMAIN disk.data /\ d[i] = disk.data[i]
  <2>1. 1 \in Nat \ {0} /\ disk.data \in Seq(Nat)
    BY DEF Recoverable
  <2>2. /\ d \in Seq(Nat)
        /\ \A i \in DOMAIN d : 1 + i - 1 \in DOMAIN disk.data /\ d[i] = disk.data[1 + i - 1]
    BY <1>2, <2>1, PartOf
  <2>3. \A i \in DOMAIN d : 1 + i - 1 = i
    BY <2>2
  <2> HIDE DEF d
  <2> QED BY <2>2, <2>3
<1> HIDE DEF d
<1>4. CASE disk.index # NoEntry
  <2>1. e = [disk.index EXCEPT !.acked = n]
    BY <1>4
  <2>2. e \in Entries /\ e.generation = disk.index.generation /\ e.generation > 0 /\ e # NoEntry
    BY <1>2, <1>4, <2>1 DEF Recoverable, Entries, NoEntry
  <2>3. Owed(d, e.generation, names1)
    BY <1>3, <1>4, <2>2 DEF Recoverable, Owed
  <2> HIDE DEF e, names1
  <2> QED BY <1>1, <1>3, <2>2, <2>3 DEF Kept, Stores, names1
<1>5. CASE disk.index = NoEntry /\ disk.data = <<>>
  <2>1. e = NoEntry /\ d = <<>>
    BY <1>3, <1>5
  <2>2. NoEntry \in Entries
    BY DEF NoEntry, Entries
  <2> HIDE DEF e
  <2>3. /\ Loaded(disk).data = <<>> /\ Loaded(disk).entry = NoEntry /\ Loaded(disk).index = NoEntry
        /\ Loaded(disk) \in Stores
    BY <1>1, <2>1, <2>2 DEF Stores
  <2> QED BY <2>3 DEF Kept, Owed
<1>6. CASE disk.index = NoEntry /\ disk.data # <<>>
  <2>1. e = [generation |-> 1, acked |-> n, eof |-> FALSE]
    BY <1>6
  <2>2. e \in Entries /\ e.generation = 1 /\ e # NoEntry
    <3> HIDE DEF e
    <3> QED BY <1>7, <2>1 DEF Entries, NoEntry
  <2>3. ASSUME NEW i \in DOMAIN d PROVE <<1, d[i]>> \in names1
    <3>1. d # <<>> /\ 1 \in DOMAIN d
      BY <1>3
    <3>2. d[i] = d[1]
      BY <1>3, <1>6, <3>1 DEF Recoverable, Uniform
    <3>3. <<1, d[1]>> \in NamedByLoad(disk, Loaded(disk))
      BY <1>1, <1>6, <3>1 DEF NamedByLoad
    <3> QED BY <3>2, <3>3
  <2> HIDE DEF e, names1
  <2> QED BY <1>1, <1>3, <2>2, <2>3 DEF Kept, Stores, Owed, names1
<1> QED BY <1>4, <1>5, <1>6

-----------------------------------------------------------------------------
(* The steps.                                                              *)

LEMMA ChunksAreNamed ==
  ASSUME NEW queue \in Seq(Chunks), NEW names, NamedIn(queue) \subseteq names,
         NEW i \in DOMAIN queue
  PROVE  ChunkNamed(queue[i], names)
BY DEF NamedIn, ChunkNamed

LEMMA PartIsCarried ==
  ASSUME Carried, NEW n \in 0..Len(up)
  PROVE  /\ SubSeq(up, n + 1, Len(up)) \in Seq(Chunks)
         /\ NamedIn(SubSeq(up, n + 1, Len(up))) \subseteq named
<1> DEFINE q == SubSeq(up, n + 1, Len(up))
<1>1. up \in Seq(Chunks) /\ n + 1 \in Nat \ {0} /\ Len(up) \in 0..Len(up)
  BY DEF Carried
<1>2. q \in Seq(Chunks) /\ \A i \in DOMAIN q : n + 1 + i - 1 \in DOMAIN up /\ q[i] = up[n + 1 + i - 1]
  BY <1>1, PartOf
<1> HIDE DEF q
<1>3. \A i \in DOMAIN q : \E j \in DOMAIN up : q[i] = up[j]
  BY <1>2
<1>4. NamedIn(q) \subseteq NamedIn(up)
  <2> SUFFICES ASSUME NEW i \in DOMAIN q, q[i].data # <<>>
               PROVE  <<q[i].generation, q[i].data[1]>> \in NamedIn(up)
    BY DEF NamedIn
  <2>1. PICK j \in DOMAIN up : q[i] = up[j]
    BY <1>3
  <2> QED BY <2>1 DEF NamedIn
<1> QED BY <1>2, <1>4 DEF Carried, q

LEMMA TailIsCarried ==
  ASSUME Carried, up # <<>>
  PROVE  /\ Head(up) \in Chunks /\ ChunkNamed(Head(up), named)
         /\ Tail(up) \in Seq(Chunks) /\ NamedIn(Tail(up)) \subseteq named
<1>1. up \in Seq(Chunks) /\ 1 \in DOMAIN up /\ Head(up) = up[1] /\ 1 \in 0..Len(up)
  BY DEF Carried
<1>2. Head(up) \in Chunks /\ ChunkNamed(Head(up), named)
  BY <1>1, ChunksAreNamed DEF Carried
<1>3. Tail(up) = SubSeq(up, 1 + 1, Len(up))
  BY <1>1, TailIsSubSeq
<1> QED BY <1>1, <1>2, <1>3, PartIsCarried

LEMMA ReuseShown ==
  ASSUME NEW names, "reused" \notin Reuse(names)
  PROVE  \A p, q \in names : p[1] = q[1] => p[2] = q[2]
BY DEF Reuse

LEMMA SendsKeeps ==
  ASSUME IInv, NEW tail \in Left, NEW more, Sends(tail, more)
  PROVE  stream' \in Streams /\ Carried' /\ OneFileEach' /\ named \subseteq named'
<1>1. stream' \in Streams /\ up' \in Seq(Chunks) /\ named' = named \cup NamedIn(up')
  BY DEF Sends, Left
<1>2. OneFileEach'
  BY ReuseShown DEF Sends, OneFileEach
<1> QED BY <1>1, <1>2 DEF Carried

LEMMA ScanKeeps ==
  ASSUME IInv, Scan
  PROVE  /\ stream' \in Streams /\ Carried' /\ OneFileEach' /\ named \subseteq named'
         /\ tailer' \in Tailers
<1>1. Discovered \in Streams /\ Discovered.generation \in Nat
  <2>1. tailer.assigned \in Nat /\ tailer.mark \in Marks
    BY DEF IInv, Typed, Tailers
  <2>2. Discovered \in Streams
    BY <2>1, TrackFollows DEF Discovered, IInv, Typed
  <2> QED BY <2>2 DEF Streams
<1>2. PICK tail \in (IF Tracks(Discovered) THEN Drain(Discovered, file, up)
                      ELSE {Tails(Discovered, up)}) :
           \E next \in CheckRing(tail, file) :
              Sends(next, IF Overflows(tail.stream) THEN {"rewound"} ELSE {})
  BY DEF Scan
<1>3. tail \in Left
  BY <1>1, DrainLeaves, TailsTyped DEF IInv, Typed, Carried
<1>4. PICK next \in CheckRing(tail, file) :
              Sends(next, IF Overflows(tail.stream) THEN {"rewound"} ELSE {})
  BY <1>2
<1>5. next \in Left
  BY <1>3, CheckRingLeaves DEF IInv, Typed
<1>6. tailer' \in Tailers
  <2> DEFINE a == IF Found THEN Discovered.generation ELSE tailer.assigned
  <2>1. a \in Nat
    BY <1>1 DEF IInv, Typed, Tailers
  <2>2. tailer' = [tailer EXCEPT !.life = "running", !.assigned = a]
    BY DEF Scan
  <2> HIDE DEF a
  <2> QED BY <2>1, <2>2 DEF IInv, Typed, Tailers, Lives
<1> QED BY <1>4, <1>5, <1>6, SendsKeeps

LEMMA StoreStays ==
  ASSUME Kept(store, named), named \subseteq named', UNCHANGED store
  PROVE  Kept(store, named)'
BY KeptGrows

LEMMA Initially == Init => IInv
<1> SUFFICES ASSUME Init PROVE IInv
  OBVIOUS
<1> USE DEF Init
<1>1. Typed
  <2>1. file \in Files /\ files \in Nat /\ sidecar \in Marks /\ NoMark \in Marks
    BY DEF NoFile, NoMark, Files, Marks
  <2>2. stream \in Streams
    BY DEF Untracked, Streams, NoGap
  <2>3. tailer \in Tailers
    BY <2>1 DEF NewTailer, Tailers, Lives, NoBoundary
  <2>4. pending \in Acks /\ down \in Seq(Answers)
    BY DEF NoAck, Acks
  <2> QED BY <2>1, <2>2, <2>3, <2>4 DEF Typed
<1>2. OneFileEach /\ Carried
  BY DEF OneFileEach, Carried, NamedIn
<1>3. Kept(store, named)
  BY DEF Kept, Owed, Stores, Entries, EmptyStore, NoEntry
<1> QED BY <1>1, <1>2, <1>3 DEF IInv

LEMMA WritersKeep ==
  ASSUME IInv, AppendToFile \/ Replace \/ DeleteFile
  PROVE  IInv'
<1>1. file' \in Files /\ files' \in Nat
  <2>1. CASE AppendToFile
    BY <2>1 DEF AppendToFile, IInv, Typed, Files
  <2>2. CASE Replace
    <3>1. PICK n \in 0..MaxLen : file' = [ino |-> files + 1, len |-> n]
      BY <2>2 DEF Replace
    <3>2. n \in Nat /\ files + 1 \in Nat /\ files' = files + 1
      BY <2>2, <3>1, MirrorBounds DEF Replace, IInv, Typed
    <3> QED BY <3>1, <3>2 DEF Files
  <2>3. CASE DeleteFile
    BY <2>3 DEF DeleteFile, IInv, Typed, Files, NoFile
  <2> QED BY <2>1, <2>2, <2>3
<1>2. WriterUnchanged
  BY DEF AppendToFile, Replace, DeleteFile
<1> QED BY <1>1, <1>2 DEF WriterUnchanged, IInv, Typed, OneFileEach, Carried

LEMMA TickKeeps ==
  ASSUME IInv, Tick
  PROVE  IInv'
<1>1. Scan /\ UNCHANGED <<file, files, sidecar, store, pending, down>>
  BY DEF Tick
<1>2. Kept(store, named)'
  BY <1>1, ScanKeeps, StoreStays DEF IInv
<1> QED BY <1>1, <1>2, ScanKeeps DEF IInv, Typed

LEMMA DownTyped ==
  ASSUME IInv, down # <<>>
  PROVE  Head(down) \in Answers /\ Tail(down) \in Seq(Answers)
BY DEF IInv, Typed

LEMMA TakeAckKeeps ==
  ASSUME IInv, TakeAck
  PROVE  IInv'
<1> DEFINE m == Head(down)
           running == tailer.life = "running"
           s == IF Heeds(stream, m.offset) THEN Acknowledged(stream, m.offset) ELSE stream
           advanced == s.acked > stream.acked
           more == IF advanced /\ m.generation # stream.generation THEN {"misread"} ELSE {}
           due == tailer.timer \/ (running /\ advanced)
<1>1. /\ down' \in Seq(Answers) /\ m.offset \in Nat
      /\ UNCHANGED <<file, files, sidecar, store, pending>>
  BY DownTyped DEF TakeAck, Answers
<1>2. s \in Streams /\ (Tracks(stream) => Tracks(s))
  BY <1>1, AcknowledgedTyped DEF IInv, Typed
<1>3. PICK tail \in (IF running /\ Heeds(stream, m.offset) THEN Drain(s, file, up)
                      ELSE {Tails(s, up)}) : Sends(tail, more)
  BY DEF TakeAck
<1>4. tail \in Left
  <2> HIDE DEF s
  <2> QED BY <1>2, DrainLeaves, TailsTyped DEF IInv, Typed, Carried, Heeds
<1>5. stream' \in Streams /\ Carried' /\ OneFileEach' /\ named \subseteq named'
  BY <1>3, <1>4, SendsKeeps
<1>6. tailer' \in Tailers
  <2>1. due \in BOOLEAN
    BY DEF IInv, Typed, Tailers
  <2>2. tailer' = [tailer EXCEPT !.timer = due]
    BY DEF TakeAck
  <2> HIDE DEF due
  <2> QED BY <2>1, <2>2 DEF IInv, Typed, Tailers
<1>7. Kept(store, named)'
  BY <1>1, <1>5, StoreStays DEF IInv
<1> HIDE DEF s, m, running, due, more, advanced
<1> QED BY <1>1, <1>5, <1>6, <1>7 DEF IInv, Typed

LEMMA TakeGapKeeps ==
  ASSUME IInv, TakeGap
  PROVE  IInv'
<1>1. /\ down' \in Seq(Answers) /\ Head(down).offset \in Nat
      /\ UNCHANGED <<file, files, tailer, sidecar, store, pending>>
  BY DownTyped DEF TakeGap, Answers
<1>2. PICK tail \in RepairRange(stream, Head(down).offset, file, up) : Sends(tail, {})
  BY DEF TakeGap
<1>3. tail \in Left
  BY <1>1, RepairRangeLeaves DEF IInv, Typed, Carried
<1>4. stream' \in Streams /\ Carried' /\ OneFileEach' /\ named \subseteq named'
  BY <1>2, <1>3, SendsKeeps
<1>5. Kept(store, named)'
  BY <1>1, <1>4, StoreStays DEF IInv
<1> QED BY <1>1, <1>4, <1>5 DEF IInv, Typed

LEMMA WriteSidecarKeeps ==
  ASSUME IInv, WriteSidecar
  PROVE  IInv'
<1>1. tailer' \in Tailers
  BY DEF WriteSidecar, IInv, Typed, Tailers
<1>2. sidecar' \in Marks
  BY MarkOfTyped DEF WriteSidecar, IInv, Typed
<1> QED BY <1>1, <1>2 DEF WriteSidecar, IInv, Typed, OneFileEach, Carried

LEMMA QuiesceKeeps ==
  ASSUME IInv, Quiesce
  PROVE  IInv'
<1> DEFINE more == IF Finished(stream) /\ stream.sent < stream.size THEN {"retried"} ELSE {}
<1>1. UNCHANGED <<file, files, store, pending, down>>
  BY DEF Quiesce
<1>2. PICK tail \in Finalize(stream, file, up) :
         /\ Sends(tail, more)
         /\ sidecar' = MarkOf(tail.stream)
         /\ tailer' = [tailer EXCEPT !.life = "quiesced", !.timer = FALSE, !.boundary = Boundary(tail)]
  BY DEF Quiesce
<1>3. tail \in Left
  BY FinalizeLeaves DEF IInv, Typed, Carried
<1>4. stream' \in Streams /\ Carried' /\ OneFileEach' /\ named \subseteq named'
  BY <1>2, <1>3, SendsKeeps
<1>5. sidecar' \in Marks
  BY <1>2, <1>3, MarkOfTyped DEF Left
<1>6. tailer' \in Tailers
  <2>1. Boundary(tail) \in Int
    BY <1>3 DEF Boundary, NoBoundary, Left, Streams, IInv, Typed
  <2> QED BY <1>2, <2>1 DEF IInv, Typed, Tailers, Lives
<1>7. Kept(store, named)'
  BY <1>1, <1>4, StoreStays DEF IInv
<1> QED BY <1>1, <1>4, <1>5, <1>6, <1>7 DEF IInv, Typed

LEMMA DaemonEndsKeeps ==
  ASSUME IInv, NEW mark \in Marks, DaemonEnds(mark)
  PROVE  IInv'
<1>1. /\ sidecar' = mark /\ tailer' = NewTailer(mark) /\ stream' = Untracked
      /\ up' = <<>> /\ down' = <<>> /\ flaws' = flaws \cup {"lost"}
      /\ UNCHANGED <<file, files, store, pending, named>>
  BY DEF DaemonEnds
<1>2. stream' \in Streams
  BY <1>1 DEF Untracked, Streams, NoGap
<1>3. tailer' \in Tailers
  BY <1>1 DEF NewTailer, Tailers, Lives, NoBoundary
<1>4. Carried'
  BY <1>1 DEF Carried, NamedIn
<1>5. OneFileEach'
  BY <1>1 DEF IInv, OneFileEach
<1>6. down' \in Seq(Answers)
  BY <1>1
<1> QED BY <1>1, <1>2, <1>3, <1>4, <1>5, <1>6 DEF IInv, Typed

LEMMA PairUpKeeps ==
  ASSUME IInv, PairUp
  PROVE  IInv'
<1>1. UNCHANGED <<file, files, sidecar, store, pending, down>>
  BY DEF PairUp
<1>2. CASE Scan
  <2>1. Kept(store, named)'
    BY <1>1, <1>2, ScanKeeps, StoreStays DEF IInv
  <2> QED BY <1>1, <1>2, <2>1, ScanKeeps DEF IInv, Typed
<1>3. CASE UNCHANGED <<stream, up, tailer, flaws, named>>
  BY <1>1, <1>3 DEF IInv, Typed, Carried, OneFileEach
<1> QED BY <1>2, <1>3 DEF PairUp

LEMMA BreaksCarries ==
  ASSUME IInv, NEW n \in 0..Len(up), NEW more, Breaks(n, more), named \subseteq named'
  PROVE  Carried' /\ down' \in Seq(Answers) /\ flaws \cup more \subseteq flaws'
<1>1. up' = SubSeq(up, n + 1, Len(up)) /\ down' = <<>> /\ flaws \cup more \subseteq flaws'
  BY DEF Breaks
<1>2. up' \in Seq(Chunks) /\ NamedIn(up') \subseteq named
  BY <1>1, PartIsCarried DEF IInv
<1> QED BY <1>1, <1>2 DEF Carried

LEMMA PairBreaksKeeps ==
  ASSUME IInv, PairBreaks
  PROVE  IInv'
<1>1. UNCHANGED <<file, files, stream, tailer, sidecar, store, pending, named>>
  BY DEF PairBreaks
<1>2. PICK n \in 0..Len(up) : Breaks(n, {})
  BY DEF PairBreaks
<1>3. Carried' /\ down' \in Seq(Answers) /\ flaws \subseteq flaws'
  BY <1>1, <1>2, BreaksCarries
<1> QED BY <1>1, <1>3 DEF IInv, Typed, OneFileEach

LEMMA DeliverKeeps ==
  ASSUME IInv, Deliver
  PROVE  IInv'
<1> DEFINE c == Head(up)
           verdict == Verdict(store, c)
<1>1. /\ up # <<>> /\ up' = Tail(up) /\ store' = Ingest(store, c)
      /\ pending' = IF verdict = "acked"
                    THEN [offset |-> End(c), generation |-> c.generation] ELSE pending
      /\ down' = IF verdict = "gap"
                 THEN Append(down, [type |-> "log_gap", offset |-> Len(store'.data),
                                    generation |-> c.generation])
                 ELSE down
      /\ UNCHANGED <<file, files, stream, tailer, sidecar, flaws, named>>
  BY DEF Deliver
<1>2. c \in Chunks /\ ChunkNamed(c, named) /\ Carried'
  BY <1>1, TailIsCarried DEF IInv, Carried
<1>3. Kept(store, named)'
  BY <1>1, <1>2, IngestKept DEF IInv
<1>4. End(c) \in Nat /\ c.generation \in Nat /\ Len(store'.data) \in Nat
  BY <1>2, <1>3 DEF End, Chunks, Kept, Stores
<1>5. pending' \in Acks
  BY <1>1, <1>4 DEF Acks, IInv, Typed
<1>6. down' \in Seq(Answers)
  <2> DEFINE x == [type |-> "log_gap", offset |-> Len(store'.data), generation |-> c.generation]
  <2>1. x \in Answers /\ down \in Seq(Answers)
    BY <1>4 DEF Answers, IInv, Typed
  <2>2. down' \in {down, Append(down, x)}
    BY <1>1
  <2> HIDE DEF x
  <2> QED BY <2>1, <2>2
<1> QED BY <1>1, <1>2, <1>3, <1>5, <1>6 DEF IInv, Typed, OneFileEach

LEMMA FlushAcksKeeps ==
  ASSUME IInv, FlushAcks
  PROVE  IInv'
<1>1. /\ pending' = NoAck /\ flaws \subseteq flaws'
      /\ down' \in {down, Append(down, [type |-> "log_ack", offset |-> pending.offset,
                                        generation |-> pending.generation])}
      /\ UNCHANGED <<file, files, stream, tailer, sidecar, up, store, named>>
  BY DEF FlushAcks
<1>2. pending' \in Acks
  BY <1>1 DEF NoAck, Acks
<1>3. down' \in Seq(Answers)
  <2> DEFINE x == [type |-> "log_ack", offset |-> pending.offset, generation |-> pending.generation]
  <2>1. x \in Answers /\ down \in Seq(Answers)
    BY DEF Answers, Acks, IInv, Typed
  <2>2. down' \in {down, Append(down, x)}
    BY <1>1
  <2> HIDE DEF x
  <2> QED BY <2>1, <2>2
<1> QED BY <1>1, <1>2, <1>3 DEF IInv, Typed, OneFileEach, Carried

LEMMA FleetCrashesKeeps ==
  ASSUME IInv, FleetCrashes
  PROVE  IInv'
<1>1. pending' = NoAck /\ UNCHANGED <<file, files, stream, tailer, sidecar>>
  BY DEF FleetCrashes
<1>2. PICK n \in 0..Len(up) :
        \E disk \in {store} \cup (IF paired /\ n > 0 THEN Interrupted(store, Head(up)) ELSE {}) :
           /\ store' = Loaded(disk)
           /\ named' = named \cup NamedByLoad(disk, store')
           /\ Breaks(n, Reuse(named') \cup (IF pending # NoAck THEN {"lost"} ELSE {})
                        \cup (IF Len(store'.data) < disk.index.acked /\ disk.index.acked <= Len(disk.data)
                              THEN {"cut"} ELSE {}))
  BY DEF FleetCrashes
<1>3. PICK disk \in {store} \cup (IF paired /\ n > 0 THEN Interrupted(store, Head(up)) ELSE {}) :
           /\ store' = Loaded(disk)
           /\ named' = named \cup NamedByLoad(disk, store')
           /\ Breaks(n, Reuse(named') \cup (IF pending # NoAck THEN {"lost"} ELSE {})
                        \cup (IF Len(store'.data) < disk.index.acked /\ disk.index.acked <= Len(disk.data)
                              THEN {"cut"} ELSE {}))
  BY <1>2
<1> DEFINE more == Reuse(named') \cup (IF pending # NoAck THEN {"lost"} ELSE {})
                     \cup (IF Len(store'.data) < disk.index.acked /\ disk.index.acked <= Len(disk.data)
                           THEN {"cut"} ELSE {})
<1>4. Recoverable(disk, named)
  <2>1. CASE disk = store
    BY <2>1, KeptIsRecoverable DEF IInv
  <2>2. CASE n > 0 /\ disk \in Interrupted(store, Head(up))
    <3>1. up # <<>>
      BY <2>2 DEF IInv, Carried
    <3> QED BY <2>2, <3>1, TailIsCarried, InterruptedIsRecoverable DEF IInv
  <2> QED BY <1>3, <2>1, <2>2
<1>5. Kept(store, named)'
  BY <1>3, <1>4, LoadedKept
<1>6. Breaks(n, more) /\ named \subseteq named' /\ Reuse(named') \subseteq more
  BY <1>3
<1>7. Carried' /\ down' \in Seq(Answers) /\ flaws \cup more \subseteq flaws'
  <2> HIDE DEF more
  <2> QED BY <1>6, BreaksCarries
<1>8. OneFileEach'
  BY <1>6, <1>7, ReuseShown DEF OneFileEach
<1>9. pending' \in Acks
  BY <1>1 DEF NoAck, Acks
<1> HIDE DEF more
<1> QED BY <1>1, <1>5, <1>7, <1>8, <1>9 DEF IInv, Typed

LEMMA StepKeeps == IInv /\ [Next]_vars => IInv'
<1> SUFFICES ASSUME IInv, [Next]_vars PROVE IInv'
  OBVIOUS
<1>1. CASE AppendToFile \/ Replace \/ DeleteFile
  BY <1>1, WritersKeep
<1>2. CASE Tick
  BY <1>2, TickKeeps
<1>3. CASE TakeAck
  BY <1>3, TakeAckKeeps
<1>4. CASE TakeGap
  BY <1>4, TakeGapKeeps
<1>5. CASE WriteSidecar
  BY <1>5, WriteSidecarKeeps
<1>6. CASE Quiesce
  BY <1>6, QuiesceKeeps
<1>7. CASE DaemonCrashes
  BY <1>7, DaemonEndsKeeps DEF DaemonCrashes, IInv, Typed
<1>8. CASE DaemonStops
  BY <1>8, DaemonEndsKeeps, MarkOfTyped DEF DaemonStops, IInv, Typed
<1>9. CASE PairUp
  BY <1>9, PairUpKeeps
<1>10. CASE PairBreaks
  BY <1>10, PairBreaksKeeps
<1>11. CASE Deliver
  BY <1>11, DeliverKeeps
<1>12. CASE FlushAcks
  BY <1>12, FlushAcksKeeps
<1>13. CASE FleetCrashes
  BY <1>13, FleetCrashesKeeps
<1>14. CASE UNCHANGED vars
  BY <1>14 DEF vars, IInv, Typed, OneFileEach, Carried
<1> QED BY <1>1, <1>2, <1>3, <1>4, <1>5, <1>6, <1>7, <1>8, <1>9, <1>10, <1>11, <1>12, <1>13, <1>14
        DEF Next

(* The fleet's mirror of a log is byte-identical to one file through every *)
(* resend, repair, loss and crash of either side, as long as no generation *)
(* has been given to two files: log-store.ts:6.                            *)
THEOREM MirrorsOneFile == Spec => []StoresOneFile
<1>1. ASSUME IInv PROVE StoresOneFile
  <2> SUFFICES ASSUME "reused" \notin flaws, NEW i \in DOMAIN store.data, NEW j \in DOMAIN store.data
               PROVE  store.data[i] = store.data[j]
    BY DEF StoresOneFile, ByteIdentical
  <2> DEFINE g == store.entry.generation
  <2>1. <<g, store.data[i]>> \in named /\ <<g, store.data[j]>> \in named
    BY <1>1 DEF IInv, Kept, Owed
  <2>2. \A p, q \in named : p[1] = q[1] => p[2] = q[2]
    BY <1>1 DEF IInv, OneFileEach
  <2> HIDE DEF g
  <2> QED BY <2>1, <2>2
<1> QED BY <1>1, Initially, StepKeeps, PTL DEF Spec

-----------------------------------------------------------------------------
(* What the tailer sends, further: all chunks of a drain are of the file   *)
(* and of the generation that its look has left.                           *)

\* The queue q has become p by chunks of generation g and file x, whose bytes
\* are all before top.
Grown(q, p, g, x, top) ==
  /\ Len(q) <= Len(p) /\ Len(p) <= QueueMax
  /\ \A i \in DOMAIN q : p[i] = q[i]
  /\ \A i \in DOMAIN p \ DOMAIN q :
       /\ p[i].generation = g /\ End(p[i]) <= top
       /\ \A j \in DOMAIN p[i].data : p[i].data[j] = x /\ p[i].offset + j <= top

\* What the read loop and the end marker leave of a stream.
Agrees(r, w) ==
  /\ r.generation = w.generation /\ r.acked = w.acked /\ r.gap = w.gap
  /\ r.ino = w.ino /\ r.size = w.size /\ r.watermark = w.watermark /\ r.closed = w.closed

\* A drain that looked and found w has come to t.
Ran(w, q, t) ==
  /\ t \in Following
  /\ Agrees(t.stream, w)
  /\ w.sent <= t.stream.sent /\ t.stream.sent <= w.size
  /\ t.stream.sent = w.sent \/ <<w.generation, w.ino>> \in NamedIn(t.queue)
  /\ Grown(q, t.queue, w.generation, w.ino, t.stream.sent)

LEMMA CutWithin ==
  ASSUME NEW s \in Streams, s.sent <= s.size
  PROVE  Cut(s) \in Nat /\ Cut(s) <= s.size
<1> DEFINE full == IF s.sent + ChunkMax < s.size THEN s.sent + ChunkMax ELSE s.size
<1>1. s.sent \in Nat /\ s.size \in Nat /\ ChunkMax \in Nat
  BY TailerLimits DEF Streams
<1>2. full \in Nat /\ full <= s.size
  BY <1>1
<1>3. LastLineEnd(full) \in 0..full
  BY <1>2, LastLineEndBelow
<1>4. Cut(s) \in {full, LastLineEnd(full), s.sent}
  BY DEF Cut
<1> HIDE DEF full
<1> QED BY <1>1, <1>2, <1>3, <1>4

LEMMA ChunkNumbers ==
  ASSUME NEW c \in Chunks
  PROVE  /\ c.generation \in Nat \ {0} /\ c.offset \in Nat /\ End(c) \in Nat
         /\ c.data \in Seq(Nat) /\ Len(c.data) \in Nat /\ DOMAIN c.data = 1..Len(c.data)
         /\ \A j \in DOMAIN c.data : c.offset + j \in Nat
<1>1. c.generation \in Nat \ {0} /\ c.offset \in Nat /\ c.data \in Seq(Nat)
  BY DEF Chunks
<1>2. Len(c.data) \in Nat /\ DOMAIN c.data = 1..Len(c.data)
  BY <1>1
<1> QED BY <1>1, <1>2 DEF End

LEMMA GrownAppends ==
  ASSUME NEW q \in Seq(Chunks), NEW p \in Seq(Chunks), NEW g, NEW x, NEW top \in Nat, NEW more \in Nat,
         NEW c \in Chunks, Grown(q, p, g, x, top), Room(p), top <= more,
         c.generation = g, End(c) <= more,
         \A j \in DOMAIN c.data : c.data[j] = x /\ c.offset + j <= more
  PROVE  Grown(q, Append(p, c), g, x, more)
<1> DEFINE r == Append(p, c)
<1>1. /\ r \in Seq(Chunks) /\ Len(r) = Len(p) + 1 /\ DOMAIN r = 1..(Len(p) + 1) /\ DOMAIN p = 1..Len(p)
      /\ DOMAIN q = 1..Len(q) /\ Len(p) \in Nat /\ Len(q) \in Nat
      /\ r[Len(p) + 1] = c /\ \A i \in DOMAIN p : r[i] = p[i]
  OBVIOUS
<1> HIDE DEF r
<1>2. Len(q) <= Len(r) /\ Len(r) <= QueueMax
  BY <1>1, TailerLimits DEF Grown, Room
<1>3. \A i \in DOMAIN q : r[i] = q[i]
  BY <1>1 DEF Grown
<1>4. ASSUME NEW i \in DOMAIN r \ DOMAIN q
      PROVE  /\ r[i].generation = g /\ End(r[i]) <= more
             /\ \A j \in DOMAIN r[i].data : r[i].data[j] = x /\ r[i].offset + j <= more
  <2>1. CASE i = Len(p) + 1
    BY <1>1, <2>1
  <2>2. CASE i # Len(p) + 1
    <3>1. i \in DOMAIN p \ DOMAIN q /\ r[i] = p[i] /\ p[i] \in Chunks
      BY <1>1, <2>2
    <3> DEFINE d == p[i]
    <3>2. /\ d.generation = g /\ End(d) <= top
          /\ \A j \in DOMAIN d.data : d.data[j] = x /\ d.offset + j <= top
      BY <3>1 DEF Grown
    <3>3. End(d) \in Nat /\ \A j \in DOMAIN d.data : d.offset + j \in Nat
      BY <3>1, ChunkNumbers
    <3> HIDE DEF d
    <3>4. End(d) <= more /\ \A j \in DOMAIN d.data : d.data[j] = x /\ d.offset + j <= more
      BY <3>2, <3>3
    <3> QED BY <3>1, <3>2, <3>4 DEF d
  <2> QED BY <2>1, <2>2
<1> QED BY <1>2, <1>3, <1>4 DEF Grown, r

LEMMA NamedGrows ==
  ASSUME NEW p \in Seq(Chunks), NEW c \in Chunks
  PROVE  /\ NamedIn(p) \subseteq NamedIn(Append(p, c))
         /\ c.data # <<>> => <<c.generation, c.data[1]>> \in NamedIn(Append(p, c))
<1> DEFINE r == Append(p, c)
<1>1. /\ DOMAIN p \subseteq DOMAIN r /\ \A i \in DOMAIN p : r[i] = p[i]
      /\ Len(p) + 1 \in DOMAIN r /\ r[Len(p) + 1] = c
  OBVIOUS
<1> HIDE DEF r
<1>2. NamedIn(p) \subseteq NamedIn(r)
  BY <1>1 DEF NamedIn
<1>3. c.data # <<>> => <<c.generation, c.data[1]>> \in NamedIn(r)
  BY <1>1 DEF NamedIn
<1> QED BY <1>2, <1>3 DEF r

(* A chunk the tailer makes of a stream.                                   *)
LEMMA ChunkIs ==
  ASSUME NEW s \in Streams, Tracks(s), NEW end \in Nat, s.sent <= end, NEW eof \in BOOLEAN
  PROVE  LET c == Chunk(s, end, eof)
         IN  /\ c \in Chunks /\ c.generation = s.generation /\ End(c) = end
             /\ c.data # <<>> <=> s.sent < end
             /\ \A j \in DOMAIN c.data : c.data[j] = s.ino /\ c.offset + j <= end
<1> DEFINE c == Chunk(s, end, eof)
           n == end - s.sent
           b == Bytes(s.ino, n)
<1>1. s.sent \in Nat /\ n \in Nat /\ s.ino \in Nat
  BY DEF Streams
<1>2. c \in Chunks /\ c.generation = s.generation /\ c.offset = s.sent /\ c.data = b
  BY ChunkIsOfOneFile DEF Chunk
<1> HIDE DEF c
<1>3. b \in Seq(Nat) /\ Len(b) = n /\ DOMAIN b = 1..n /\ \A j \in 1..n : b[j] = s.ino
  BY <1>1 DEF Bytes
<1> HIDE DEF b
<1>4. End(c) = end
  BY <1>1, <1>2, <1>3 DEF End
<1>5. b # <<>> <=> s.sent < end
  BY <1>1, <1>3
<1>6. \A j \in DOMAIN c.data : c.data[j] = s.ino /\ c.offset + j <= end
  BY <1>1, <1>2, <1>3
<1> QED BY <1>2, <1>4, <1>5, <1>6 DEF c

LEMMA RanAtOnce ==
  ASSUME NEW w \in Streams, Tracks(w), w.sent <= w.size, NEW q \in Seq(Chunks), Len(q) <= QueueMax
  PROVE  Ran(w, q, Tails(w, q)) /\ Tails(w, q).stream = w
<1>1. w.sent \in Nat /\ Len(q) \in Nat
  BY DEF Streams
<1>2. Tails(w, q) \in Following /\ Tails(w, q).stream = w /\ Tails(w, q).queue = q
  BY TailsTyped DEF Tails
<1>3. Agrees(w, w) /\ Grown(q, q, w.generation, w.ino, w.sent)
  BY <1>1 DEF Agrees, Grown
<1> QED BY <1>1, <1>2, <1>3 DEF Ran

LEMMA SendNextRuns ==
  ASSUME NEW w \in Streams, NEW q \in Seq(Chunks), NEW tail \in Following, Ran(w, q, tail),
         tail.stream.eofSent = w.eofSent
  PROVE  Ran(w, q, SendNext(tail)) /\ SendNext(tail).stream.eofSent = w.eofSent
<1> DEFINE s == tail.stream
           end == Cut(s)
           eof == s.closed /\ end = s.size
           c == Chunk(s, end, eof)
           r == [s EXCEPT !.sent = end]
           p == tail.queue
           n == SendNext(tail)
<1>1. s \in Streams /\ Tracks(s) /\ p \in Seq(Chunks) /\ SendNext(tail) \in Following
  BY SendNextFollows DEF Following
<1>2. s.sent \in Nat /\ s.size \in Nat /\ s.closed \in BOOLEAN /\ s.sent <= s.size
  BY <1>1 DEF Ran, Agrees, Streams
<1>3. end \in Nat /\ end <= s.size
  BY <1>1, <1>2, CutWithin
<1>4. CASE s.sent < s.size /\ ~RingExhausted(s) /\ end > s.sent /\ Room(p)
  <2>1. SendNext(tail) = Tails(r, Append(p, c))
    BY <1>4 DEF SendNext
  <2>2. n.stream = r /\ n.queue = Append(p, c)
    BY <2>1 DEF Tails
  <2>3. eof \in BOOLEAN /\ s.sent <= end /\ s.sent < end
    BY <1>2, <1>3, <1>4
  <2>4. /\ c \in Chunks /\ c.generation = s.generation /\ End(c) = end /\ c.data # <<>>
        /\ \A j \in DOMAIN c.data : c.data[j] = s.ino /\ c.offset + j <= end
    BY <1>1, <1>3, <2>3, ChunkIs
  <2>5. Agrees(s, w) /\ Grown(q, p, w.generation, w.ino, s.sent) /\ w.sent <= s.sent
    BY DEF Ran
  <2> HIDE DEF c, end, n, s, p, eof
  <2>6. Agrees(r, w) /\ r.eofSent = s.eofSent /\ r.sent = end
    BY <1>1, <2>5 DEF Agrees, Streams
  <2>7. s.generation = w.generation /\ s.ino = w.ino /\ s.size = w.size
    BY <2>5 DEF Agrees
  <2>8. Grown(q, Append(p, c), w.generation, w.ino, end)
    <3>1. End(c) <= end
      BY <1>3, <2>4
    <3> QED BY <1>1, <1>2, <1>3, <1>4, <2>3, <2>4, <2>5, <2>7, <3>1, GrownAppends
  <2>9. <<w.generation, w.ino>> \in NamedIn(Append(p, c))
    <3>1. 1 \in DOMAIN c.data
      BY <2>4, ChunkNumbers
    <3>2. c.data[1] = s.ino
      BY <2>4, <3>1
    <3> QED BY <1>1, <2>4, <2>7, <3>2, NamedGrows
  <2>10. w.sent <= end
    <3>1. w.sent \in Nat
      BY DEF Streams
    <3> QED BY <1>2, <1>3, <2>3, <2>5, <3>1
  <2>11. n \in Following
    BY <1>1 DEF n
  <2>12. Ran(w, q, n)
    BY <1>3, <2>2, <2>6, <2>7, <2>8, <2>9, <2>10, <2>11 DEF Ran
  <2>13. n.stream.eofSent = w.eofSent
    BY <2>2, <2>6 DEF s
  <2> QED BY <2>12, <2>13 DEF n
<1>5. CASE ~(s.sent < s.size /\ ~RingExhausted(s) /\ end > s.sent /\ Room(p))
  <2>1. SendNext(tail) = tail
    BY <1>5 DEF SendNext
  <2> QED BY <2>1
<1> QED BY <1>4, <1>5

LEMMA SendEofRuns ==
  ASSUME NEW w \in Streams, NEW q \in Seq(Chunks), NEW tail \in Following, Ran(w, q, tail)
  PROVE  Ran(w, q, SendEof(tail)) /\ SendEof(tail).stream.sent = tail.stream.sent
<1> DEFINE s == tail.stream
           c == Chunk(s, s.sent, TRUE)
           r == [s EXCEPT !.eofSent = TRUE]
           p == tail.queue
           n == SendEof(tail)
<1>1. s \in Streams /\ Tracks(s) /\ p \in Seq(Chunks) /\ n \in Following /\ s.sent \in Nat
  BY SendEofFollows DEF Following, Streams
<1>2. CASE ~s.eofSent /\ Room(p)
  <2>1. n = Tails(r, Append(p, c))
    BY <1>2 DEF SendEof
  <2>2. n.stream = r /\ n.queue = Append(p, c)
    <3> HIDE DEF n, r, c, p
    <3> QED BY <2>1, Zenon DEF Tails
  <2>4. /\ c \in Chunks /\ c.generation = s.generation /\ End(c) = s.sent
        /\ \A j \in DOMAIN c.data : c.data[j] = s.ino /\ c.offset + j <= s.sent
    <3>1. s.sent <= s.sent
      BY <1>1
    <3> QED BY <1>1, <3>1, ChunkIs
  <2>5. Agrees(s, w) /\ Grown(q, p, w.generation, w.ino, s.sent) /\ w.sent <= s.sent /\ s.sent <= w.size
        /\ (s.sent = w.sent \/ <<w.generation, w.ino>> \in NamedIn(p))
    BY DEF Ran
  <2> HIDE DEF c, n, s, p
  <2>6. Agrees(r, w) /\ r.sent = s.sent
    BY <1>1, <2>5 DEF Agrees, Streams
  <2>7. s.generation = w.generation /\ s.ino = w.ino
    BY <2>5 DEF Agrees
  <2>8. Grown(q, Append(p, c), w.generation, w.ino, s.sent)
    <3>1. End(c) <= s.sent /\ s.sent <= s.sent
      BY <1>1, <2>4
    <3> QED BY <1>1, <1>2, <2>4, <2>5, <2>7, <3>1, GrownAppends
  <2>9. NamedIn(p) \subseteq NamedIn(Append(p, c))
    BY <1>1, <2>4, NamedGrows
  <2>12. Ran(w, q, n)
    BY <1>1, <2>2, <2>5, <2>6, <2>8, <2>9 DEF Ran
  <2> QED BY <2>2, <2>6, <2>12 DEF n, s
<1>3. CASE ~(~s.eofSent /\ Room(p))
  <2>1. n = tail
    BY <1>3 DEF SendEof
  <2> QED BY <2>1
<1> QED BY <1>2, <1>3

LEMMA SentRuns ==
  ASSUME NEW w \in Streams, Tracks(w), w.sent <= w.size, NEW q \in Seq(Chunks), Len(q) <= QueueMax,
         NEW t \in Sent(w, q)
  PROVE  Ran(w, q, t) /\ (t.stream.eofSent => w.eofSent \/ (w.closed /\ t.stream.sent = w.size))
<1> DEFINE t0 == Tails(w, q)
           S == {u \in Following : Ran(w, q, u) /\ u.stream.eofSent = w.eofSent}
<1>1. Ran(w, q, t0) /\ t0.stream = w /\ t0 \in Following
  BY RanAtOnce DEF Ran
<1>2. CASE Finished(w)
  <2>1. t = t0
    BY <1>2 DEF Sent
  <2> QED BY <1>1, <1>2, <2>1 DEF Finished
<1>3. CASE ~Finished(w)
  <2>1. t0 \in S
    BY <1>1
  <2>2. \A u \in S : SendNext(u) \in S
    BY SendNextRuns, SendNextFollows
  <2>3. SendAll(t0) \subseteq S
    <3> HIDE DEF S, t0
    <3> QED BY <2>1, <2>2, SendAllKeeps
  <2>4. PICK u \in SendAll(t0) : t = Settled(w, u)
    BY <1>3 DEF Sent
  <2>5. u \in Following /\ Ran(w, q, u) /\ u.stream.eofSent = w.eofSent
    BY <2>3
  <2>6. u.stream.closed = w.closed /\ u.stream.size = w.size
    BY <2>5 DEF Ran, Agrees
  <2>7. CASE u.stream.closed /\ u.stream.sent = u.stream.size /\ ~w.eofSent
    <3>1. t = SendEof(u)
      BY <2>4, <2>7 DEF Settled
    <3> QED BY <2>5, <2>6, <2>7, <3>1, SendEofRuns
  <2>8. CASE ~(u.stream.closed /\ u.stream.sent = u.stream.size /\ ~w.eofSent)
    <3>1. t = u
      BY <2>4, <2>8 DEF Settled
    <3> QED BY <2>5, <3>1
  <2> QED BY <2>7, <2>8
<1> QED BY <1>2, <1>3

-----------------------------------------------------------------------------
(* The parts of the second invariant, of a stream s, a queue q and a       *)
(* history names.                                                          *)

\* Files are numbered in the order they come in, and the last one is current.
FileOK ==
  /\ file.len <= MaxLen /\ files <= MaxFiles
  /\ file = NoFile \/ (file.ino = files /\ files > 0)

\* What a stream holds that has looked at its file.
Seen(s) ==
  /\ s.ino \in 1..files /\ s.watermark = s.ino /\ s.generation <= s.ino
  /\ s.sent <= s.size /\ s.acked <= s.size /\ s.size <= MaxLen
  /\ s.gap \in {NoGap} \cup 0..MaxLen
  /\ s.ino = file.ino => s.size <= file.len

Placed(s) == s = Untracked \/ (s \in Streams /\ Tracks(s) /\ Seen(s))

\* A chunk has no bytes that the file does not have.
Fits(c) ==
  /\ c.generation <= files /\ End(c) <= MaxLen
  /\ \A j \in DOMAIN c.data : c.data[j] \in 1..files /\ (c.data[j] = file.ino => c.offset + j <= file.len)

Queued(q) == q \in Seq(Chunks) /\ Len(q) <= QueueMax /\ \A i \in DOMAIN q : Fits(q[i])

Names(names) == names \subseteq (1..files) \X (1..files)

\* A stream that has sent something has been given its generation.
Backed(s, names) == s.sent > 0 \/ s.acked > 0 => <<s.generation, s.ino>> \in names

\* No generation has been given to a file before it is looked at.
Unread(s, names) == file # NoFile /\ s.ino # file.ino => \A p \in names : p[2] # file.ino

\* Whatever of the stream's file is in the queue has the stream's generation,
\* and so has all that comes after.
Traced(s, q, names) ==
  \A i \in DOMAIN q : End(q[i]) > 0 =>
    \E x \in 1..files :
      /\ <<q[i].generation, x>> \in names
      /\ x = s.ino => \A j \in i..Len(q) : q[j].generation = s.generation

OneEach(names) == \A p, q \in names : p[1] = q[1] => p[2] = q[2]

\* The store holds n bytes of generation g and nothing under way replaces them.
Honoured(g, n, s, q) ==
  /\ store.entry.generation = g /\ store.index.generation = g /\ store.index.acked >= n
  /\ \A i \in DOMAIN q : q[i].generation <= g
  /\ s.generation <= g

\* What is claimed of the file x that generation g was given to; it is only
\* kept while x is the file that is followed.
Vouched(g, n, x, cur, s, q) == store.index.generation >= g /\ (x = cur => Honoured(g, n, s, q))

AckKept(a, cur, s, q, names) ==
  a.offset > 0 =>
    \E x \in 1..files : <<a.generation, x>> \in names /\ Vouched(a.generation, a.offset, x, cur, s, q)

MarkKept(m, cur, s, q) == m.offset > 0 => Vouched(m.generation, m.offset, m.ino, cur, s, q)

\* A watermark is of a file that was given its generation, and within it.
MarkFits(m, names) ==
  /\ m.ino <= files /\ m.offset <= MaxLen /\ m.generation <= m.ino
  /\ m.offset > 0 => <<m.generation, m.ino>> \in names
  /\ m.offset = 0 => m = NoMark
  /\ m.ino = file.ino => m.offset <= file.len

\* Acks and watermarks are good, if nothing happened that makes them bad.
Promises(acks, marks, cur, s, q, names, sound) ==
  sound /\ OneEach(names) =>
    /\ \A a \in acks : AckKept(a, cur, s, q, names)
    /\ \A m \in marks : MarkKept(m, cur, s, q)
    /\ s.acked > 0 => Vouched(s.generation, s.acked, s.ino, cur, s, q)

\* The tailer follows the file of s.
Follows(acks, marks, s, q, names, sound) ==
  /\ Placed(s) /\ Queued(q) /\ Names(names) /\ NamedIn(q) \subseteq names
  /\ \A m \in marks : MarkFits(m, names)
  /\ Backed(s, names) /\ Unread(s, names) /\ Traced(s, q, names)
  /\ Promises(acks, marks, s.ino, s, q, names, sound)

-----------------------------------------------------------------------------
(* A queue that grows.                                                     *)

LEMMA UntrackedIs ==
  /\ Untracked \in Streams /\ ~Tracks(Untracked) /\ Untracked.generation = 0 /\ Untracked.ino = 0
  /\ Untracked.acked = 0 /\ Untracked.sent = 0 /\ Untracked.size = 0 /\ Untracked.watermark = 0
  /\ Untracked.gap = NoGap /\ ~Untracked.closed /\ ~Untracked.eofSent
BY DEF Untracked, Streams, NoGap, Tracks

LEMMA HonouredGrows ==
  ASSUME NEW g \in Nat, NEW n, NEW s \in Streams, NEW r \in Streams, NEW q \in Seq(Chunks), NEW p \in Seq(Chunks),
         NEW x, NEW top, Honoured(g, n, s, q), Grown(q, p, s.generation, x, top),
         r.generation <= s.generation
  PROVE  Honoured(g, n, r, p)
<1>1. s.generation \in Nat /\ r.generation \in Nat
  BY DEF Streams
<1>2. ASSUME NEW i \in DOMAIN p PROVE p[i].generation <= g
  <2>1. CASE i \in DOMAIN q
    BY <2>1 DEF Honoured, Grown
  <2>2. CASE i \notin DOMAIN q
    <3>1. p[i].generation = s.generation
      BY <2>2 DEF Grown
    <3> QED BY <3>1 DEF Honoured
  <2> QED BY <2>1, <2>2
<1>3. r.generation <= g
  BY <1>1 DEF Honoured
<1> QED BY <1>2, <1>3 DEF Honoured

LEMMA NamesOfQueue ==
  ASSUME files \in Nat, NEW p, Queued(p)
  PROVE  Names(NamedIn(p))
<1> SUFFICES ASSUME NEW i \in DOMAIN p, p[i].data # <<>>
             PROVE  p[i].generation \in 1..files /\ p[i].data[1] \in 1..files
  BY DEF NamedIn, Names
<1> DEFINE c == p[i]
<1>1. c \in Chunks /\ Fits(c)
  BY DEF Queued
<1> HIDE DEF c
<1>2. c.generation \in Nat \ {0} /\ c.generation <= files
  BY <1>1, ChunkNumbers DEF Fits
<1>3. c.data # <<>> => 1 \in DOMAIN c.data
  BY <1>1, ChunkNumbers
<1>4. c.data # <<>> => c.data[1] \in 1..files
  BY <1>1, <1>3 DEF Fits
<1> QED BY <1>2, <1>4 DEF c

LEMMA QueueGrows ==
  ASSUME files \in Nat, file \in Files, NEW s \in Streams, Tracks(s), Seen(s), NEW q, Queued(q), NEW p \in Seq(Chunks),
         NEW top \in Nat, top <= s.size, Grown(q, p, s.generation, s.ino, top)
  PROVE  Queued(p)
<1>1. /\ s.generation \in Nat /\ s.ino \in 1..files /\ s.generation <= files /\ s.size \in Nat
      /\ s.size <= MaxLen /\ (s.ino = file.ino => s.size <= file.len) /\ MaxLen \in Nat /\ file.len \in Nat
  BY MirrorBounds DEF Streams, Seen, Files
<1>2. ASSUME NEW i \in DOMAIN p PROVE Fits(p[i])
  <2>1. CASE i \in DOMAIN q
    BY <2>1 DEF Grown, Queued
  <2>2. CASE i \notin DOMAIN q
    <3> DEFINE c == p[i]
    <3>1. /\ c.generation = s.generation /\ End(c) <= top
          /\ \A j \in DOMAIN c.data : c.data[j] = s.ino /\ c.offset + j <= top
      BY <2>2 DEF Grown
    <3>2. c \in Chunks
      OBVIOUS
    <3> HIDE DEF c
    <3>3. End(c) \in Nat /\ \A j \in DOMAIN c.data : c.offset + j \in Nat
      BY <3>2, ChunkNumbers
    <3>4. End(c) <= MaxLen
      BY <1>1, <3>1, <3>3
    <3>5. ASSUME NEW j \in DOMAIN c.data
          PROVE  c.data[j] \in 1..files /\ (c.data[j] = file.ino => c.offset + j <= file.len)
      BY <1>1, <3>1, <3>3
    <3>6. c.generation <= files
      BY <1>1, <3>1
    <3>7. Fits(c)
      BY <3>4, <3>5, <3>6 DEF Fits
    <3> QED BY <3>7 DEF c
  <2> QED BY <2>1, <2>2
<1> QED BY <1>2 DEF Queued, Grown

LEMMA TracedGrows ==
  ASSUME NEW s \in Streams, Tracks(s), Seen(s), NEW q \in Seq(Chunks), NEW p \in Seq(Chunks), NEW names, NEW more,
         NEW r \in Streams, r = Untracked \/ (r.ino = s.ino /\ r.generation = s.generation),
         NEW top \in Nat, Grown(q, p, s.generation, s.ino, top), Traced(s, q, names), names \subseteq more,
         top > 0 => <<s.generation, s.ino>> \in more
  PROVE  Traced(r, p, more)
<1>0. DOMAIN q = 1..Len(q) /\ DOMAIN p = 1..Len(p) /\ Len(q) \in Nat /\ Len(p) \in Nat /\ Len(q) <= Len(p)
  BY DEF Grown
<1>1. \A i \in DOMAIN p \ DOMAIN q : p[i].generation = s.generation /\ End(p[i]) <= top
  BY DEF Grown
<1>2. r.ino = 0 \/ (r.ino = s.ino /\ r.generation = s.generation)
  BY UntrackedIs
<1>3. ASSUME NEW i \in DOMAIN p, End(p[i]) > 0
      PROVE  \E x \in 1..files :
               /\ <<p[i].generation, x>> \in more
               /\ x = r.ino => \A j \in i..Len(p) : p[j].generation = r.generation
  <2>1. CASE i \in DOMAIN q
    <3>1. p[i] = q[i]
      BY <2>1 DEF Grown
    <3>2. PICK x \in 1..files :
            /\ <<q[i].generation, x>> \in names
            /\ x = s.ino => \A j \in i..Len(q) : q[j].generation = s.generation
      BY <1>3, <2>1, <3>1 DEF Traced
    <3>3. ASSUME x = r.ino, NEW j \in i..Len(p) PROVE p[j].generation = r.generation
      <4>1. x = s.ino /\ r.generation = s.generation
        BY <1>2, <3>3
      <4>2. CASE j \in DOMAIN q
        <5>1. j \in i..Len(q) /\ p[j] = q[j]
          BY <1>0, <4>2 DEF Grown
        <5> QED BY <3>2, <4>1, <5>1
      <4>3. CASE j \notin DOMAIN q
        <5>1. j \in DOMAIN p
          BY <1>0, <1>3
        <5> QED BY <1>1, <4>1, <4>3, <5>1
      <4> QED BY <4>2, <4>3
    <3> QED BY <3>1, <3>2, <3>3
  <2>2. CASE i \notin DOMAIN q
    <3>1. p[i].generation = s.generation /\ top > 0
      <4> DEFINE c == p[i]
      <4>1. c \in Chunks
        OBVIOUS
      <4>2. End(c) \in Nat /\ End(c) <= top
        <5> HIDE DEF c
        <5>1. End(c) \in Nat
          BY <4>1, ChunkNumbers
        <5> QED BY <1>1, <2>2, <5>1 DEF c
      <4> HIDE DEF c
      <4>3. End(c) > 0
        BY <1>3 DEF c
      <4>4. top > 0
        BY <4>2, <4>3
      <4> QED BY <1>1, <2>2, <4>4
    <3>2. s.ino \in 1..files /\ <<p[i].generation, s.ino>> \in more
      BY <3>1 DEF Seen
    <3>3. ASSUME s.ino = r.ino, NEW j \in i..Len(p) PROVE p[j].generation = r.generation
      <4>1. j \in DOMAIN p \ DOMAIN q
        BY <1>0, <1>3, <2>2
      <4>2. r.generation = s.generation
        BY <1>2, <3>2, <3>3
      <4> QED BY <1>1, <4>1, <4>2
    <3> QED BY <3>2, <3>3
  <2> QED BY <2>1, <2>2
<1> QED BY <1>3 DEF Traced

LEMMA PromisesGrow ==
  ASSUME files \in Nat, NEW acks \in SUBSET [offset: Nat, generation: Nat], NEW marks \in SUBSET Marks, NEW sound,
         NEW names, Names(names), NEW more, names \subseteq more, \A m \in marks : MarkFits(m, names),
         NEW s \in Streams, Tracks(s), Seen(s), NEW q \in Seq(Chunks), NEW p \in Seq(Chunks),
         NEW r \in Streams,
         r = Untracked \/ (r.ino = s.ino /\ r.generation = s.generation /\ r.acked = s.acked),
         NEW top, Grown(q, p, s.generation, s.ino, top),
         Promises(acks, marks, s.ino, s, q, names, sound)
  PROVE  Promises(acks, marks, r.ino, r, p, more, sound)
<1>0. s.generation \in Nat /\ r.generation \in Nat /\ s.ino \in 1..files
  BY DEF Streams, Seen
<1>1. r.generation <= s.generation /\ (r.ino = 0 \/ r.ino = s.ino)
  BY <1>0, UntrackedIs
<1>2. ASSUME NEW g \in Nat, NEW n, NEW x \in 1..files, Vouched(g, n, x, s.ino, s, q)
      PROVE  Vouched(g, n, x, r.ino, r, p)
  <2>1. x = r.ino => x = s.ino
    BY <1>1
  <2>2. Honoured(g, n, s, q) => Honoured(g, n, r, p)
    BY <1>1, HonouredGrows
  <2> QED BY <1>2, <2>1, <2>2 DEF Vouched
<1>3. ASSUME sound, OneEach(more)
      PROVE  /\ \A a \in acks : AckKept(a, r.ino, r, p, more)
             /\ \A m \in marks : MarkKept(m, r.ino, r, p)
             /\ r.acked > 0 => Vouched(r.generation, r.acked, r.ino, r.ino, r, p)
  <2>1. OneEach(names)
    BY <1>3 DEF OneEach
  <2>2. /\ \A a \in acks : AckKept(a, s.ino, s, q, names)
        /\ \A m \in marks : MarkKept(m, s.ino, s, q)
        /\ s.acked > 0 => Vouched(s.generation, s.acked, s.ino, s.ino, s, q)
    BY <1>3, <2>1 DEF Promises
  <2>3. ASSUME NEW a \in acks, a.offset > 0
        PROVE  \E x \in 1..files : <<a.generation, x>> \in more
                                   /\ Vouched(a.generation, a.offset, x, r.ino, r, p)
    <3>1. PICK x \in 1..files : <<a.generation, x>> \in names
                                /\ Vouched(a.generation, a.offset, x, s.ino, s, q)
      BY <2>2, <2>3 DEF AckKept
    <3>2. a.generation \in Nat
      OBVIOUS
    <3> QED BY <1>2, <3>1, <3>2
  <2>4. ASSUME NEW m \in marks, m.offset > 0
        PROVE  Vouched(m.generation, m.offset, m.ino, r.ino, r, p)
    <3>1. <<m.generation, m.ino>> \in names
      BY <2>4 DEF MarkFits
    <3>2. m.ino \in 1..files /\ m.generation \in Nat
      BY <3>1 DEF Names
    <3> QED BY <1>2, <2>2, <2>4, <3>2 DEF MarkKept
  <2>5. ASSUME r.acked > 0 PROVE Vouched(r.generation, r.acked, r.ino, r.ino, r, p)
    <3>1. r.ino = s.ino /\ r.generation = s.generation /\ r.acked = s.acked
      BY <2>5, UntrackedIs
    <3>2. Vouched(s.generation, s.acked, s.ino, s.ino, s, q)
      BY <2>2, <2>5, <3>1
    <3> QED BY <1>0, <1>2, <3>1, <3>2
  <2> QED BY <2>3, <2>4, <2>5 DEF AckKept, MarkKept
<1> QED BY <1>3 DEF Promises

-----------------------------------------------------------------------------
(* A drain.                                                                *)

LEMMA MarksStay ==
  ASSUME NEW m, NEW names, NEW more, MarkFits(m, names), names \subseteq more
  PROVE  MarkFits(m, more)
BY DEF MarkFits

LEMMA NamesGrow ==
  ASSUME files \in Nat, NEW names, Names(names), NEW p, Queued(p)
  PROVE  Names(names \cup NamedIn(p)) /\ names \subseteq names \cup NamedIn(p)
BY NamesOfQueue DEF Names

\* What reads of the state the lemmas on the tailer need.
Known(acks, marks) ==
  /\ file \in Files /\ files \in Nat /\ FileOK
  /\ acks \in SUBSET [offset: Nat, generation: Nat] /\ marks \in SUBSET Marks

LEMMA NamedInGrown ==
  ASSUME NEW q \in Seq(Chunks), NEW p \in Seq(Chunks), NEW g, NEW x, NEW top, Grown(q, p, g, x, top)
  PROVE  /\ NamedIn(q) \subseteq NamedIn(p)
         /\ NamedIn(p) \subseteq NamedIn(q) \cup {<<g, x>>}
<1>1. DOMAIN q \subseteq DOMAIN p /\ \A i \in DOMAIN q : p[i] = q[i]
  BY DEF Grown
<1>2. NamedIn(q) \subseteq NamedIn(p)
  BY <1>1 DEF NamedIn
<1>3. ASSUME NEW i \in DOMAIN p, p[i].data # <<>>
      PROVE  <<p[i].generation, p[i].data[1]>> \in NamedIn(q) \cup {<<g, x>>}
  <2>1. CASE i \in DOMAIN q
    BY <1>1, <1>3, <2>1 DEF NamedIn
  <2>2. CASE i \notin DOMAIN q
    <3> DEFINE c == p[i]
    <3>1. c \in Chunks /\ c.data # <<>>
      BY <1>3
    <3> HIDE DEF c
    <3>2. 1 \in DOMAIN c.data
      BY <3>1, ChunkNumbers
    <3>3. c.generation = g /\ c.data[1] = x
      BY <2>2, <3>2 DEF Grown, c
    <3> QED BY <3>3 DEF c
  <2> QED BY <2>1, <2>2
<1> QED BY <1>2, <1>3 DEF NamedIn

LEMMA RunFollows ==
  ASSUME NEW acks, NEW marks, Known(acks, marks), NEW sound, NEW names, NEW w, NEW q,
         Follows(acks, marks, w, q, names, sound), Tracks(w), NEW t, Ran(w, q, t)
  PROVE  Follows(acks, marks, t.stream, t.queue, names \cup NamedIn(t.queue), sound) /\ Tracks(t.stream)
<1> DEFINE r == t.stream
           p == t.queue
           more == names \cup NamedIn(p)
<1>1. w \in Streams /\ Seen(w) /\ q \in Seq(Chunks) /\ Queued(q) /\ Names(names)
  BY UntrackedIs DEF Follows, Placed, Queued
<1>2. r \in Streams /\ Tracks(r) /\ p \in Seq(Chunks)
  BY DEF Ran, Following
<1>3. /\ r.generation = w.generation /\ r.acked = w.acked /\ r.gap = w.gap
      /\ r.ino = w.ino /\ r.size = w.size /\ r.watermark = w.watermark
      /\ w.sent <= r.sent /\ r.sent <= w.size
      /\ r.sent = w.sent \/ <<w.generation, w.ino>> \in NamedIn(p)
      /\ Grown(q, p, w.generation, w.ino, r.sent)
  BY DEF Ran, Agrees
<1>4. r.sent \in Nat
  BY <1>2 DEF Streams
<1> HIDE DEF r, p
<1>5. Seen(r)
  BY <1>1, <1>3 DEF Seen
<1>6. Queued(p)
  BY <1>1, <1>2, <1>3, <1>4, QueueGrows DEF Known
<1>7. Names(more) /\ names \subseteq more
  BY <1>1, <1>6, NamesGrow DEF Known
<1>8. Backed(r, more)
  BY <1>3 DEF Follows, Backed
<1>9. Unread(r, more)
  <2>1. NamedIn(p) \subseteq NamedIn(q) \cup {<<w.generation, w.ino>>}
    BY <1>1, <1>2, <1>3, NamedInGrown
  <2> QED BY <1>3, <2>1 DEF Follows, Unread
<1>10. Traced(r, p, more)
  <2>1. r.sent > 0 => <<w.generation, w.ino>> \in more
    BY <1>3 DEF Follows, Backed
  <2> QED BY <1>1, <1>2, <1>3, <1>4, <1>7, <2>1, TracedGrows DEF Follows
<1>11. Promises(acks, marks, r.ino, r, p, more, sound)
  BY <1>1, <1>2, <1>3, <1>7, PromisesGrow DEF Follows, Known
<1>12. \A m \in marks : MarkFits(m, more)
  BY <1>7, MarksStay DEF Follows
<1>13. Follows(acks, marks, r, p, more, sound)
  BY <1>2, <1>5, <1>6, <1>7, <1>8, <1>9, <1>10, <1>11, <1>12 DEF Follows, Placed
<1> QED BY <1>2, <1>13 DEF r, p

(* A file that is gone: the stream is dropped, with an end marker if there *)
(* is room, or kept if its end has been sent.                              *)
LEMMA DropFollows ==
  ASSUME NEW acks, NEW marks, Known(acks, marks), NEW sound, NEW names, NEW s, NEW q,
         Follows(acks, marks, s, q, names, sound), Tracks(s), file = NoFile,
         NEW t \in Drain(s, file, q)
  PROVE  /\ Follows(acks, marks, t.stream, t.queue, names \cup NamedIn(t.queue), sound)
         /\ t.stream = Untracked \/ (t.stream = s /\ Finished(s))
         /\ t.queue \in Seq(Chunks) /\ NamedIn(q) \subseteq NamedIn(t.queue)
<1> DEFINE e == SendEof(Tails(s, q))
           p == e.queue
           more == names \cup NamedIn(p)
<1>0. t = DropStream(s, q)
  BY DEF Drain
<1>1. s \in Streams /\ Seen(s) /\ q \in Seq(Chunks) /\ Queued(q) /\ Names(names) /\ NamedIn(q) \subseteq names
  BY UntrackedIs DEF Follows, Placed, Queued
<1>2. CASE Finished(s)
  <2>1. t.stream = s /\ t.queue = q
    BY <1>0, <1>2 DEF DropStream, Tails
  <2>2. names \cup NamedIn(q) = names
    BY <1>1
  <2>3. Follows(acks, marks, t.stream, t.queue, names \cup NamedIn(t.queue), sound)
    BY <2>1, <2>2
  <2> QED BY <1>1, <1>2, <2>1, <2>3
<1>3. CASE ~Finished(s)
  <2>1. t.stream = Untracked /\ t.queue = p
    BY <1>0, <1>3 DEF DropStream, Tails
  <2>2. Ran(s, q, Tails(s, q)) /\ Tails(s, q) \in Following
    <3>1. s.sent <= s.size /\ Len(q) <= QueueMax
      BY <1>1 DEF Seen, Queued
    <3> QED BY <1>1, <3>1, RanAtOnce DEF Ran
  <2>3. Ran(s, q, e) /\ e \in Following
    BY <1>1, <2>2, SendEofRuns, SendEofFollows
  <2> HIDE DEF e
  <2>4. p \in Seq(Chunks) /\ Grown(q, p, s.generation, s.ino, e.stream.sent) /\ e.stream.sent <= s.size
        /\ e.stream.sent \in Nat /\ (e.stream.sent = s.sent \/ <<s.generation, s.ino>> \in NamedIn(p))
    BY <2>3 DEF Ran, Following, Streams
  <2> HIDE DEF p
  <2>5. Queued(p)
    BY <1>1, <2>4, QueueGrows DEF Known
  <2>6. Names(more) /\ names \subseteq more
    BY <1>1, <2>5, NamesGrow DEF Known
  <2>7. Traced(Untracked, p, more)
    <3>1. e.stream.sent > 0 => <<s.generation, s.ino>> \in more
      BY <2>4 DEF Follows, Backed
    <3> QED BY <1>1, <2>4, <2>6, <3>1, UntrackedIs, TracedGrows DEF Follows
  <2>8. Promises(acks, marks, Untracked.ino, Untracked, p, more, sound)
    <3>1. Promises(acks, marks, s.ino, s, q, names, sound) /\ \A m \in marks : MarkFits(m, names)
      BY DEF Follows
    <3>2. files \in Nat /\ acks \in SUBSET [offset: Nat, generation: Nat] /\ marks \in SUBSET Marks
      BY DEF Known
    <3>3. Untracked \in Streams
      BY UntrackedIs
    <3> DEFINE r == Untracked
               top == e.stream.sent
    <3>4. r = Untracked /\ r \in Streams /\ Grown(q, p, s.generation, s.ino, top)
      BY <2>4, <3>3
    <3> HIDE DEF r, top, more
    <3>5. Promises(acks, marks, r.ino, r, p, more, sound)
      BY <1>1, <2>4, <2>6, <3>1, <3>2, <3>4, PromisesGrow
    <3> QED BY <3>4, <3>5
  <2>9. \A m \in marks : MarkFits(m, more)
    BY <2>6, MarksStay DEF Follows
  <2>10. Backed(Untracked, more) /\ Unread(Untracked, more) /\ Placed(Untracked)
    BY UntrackedIs DEF Backed, Unread, Placed
  <2>11. Follows(acks, marks, Untracked, p, more, sound)
    BY <2>5, <2>6, <2>7, <2>8, <2>9, <2>10 DEF Follows
  <2>12. NamedIn(q) \subseteq NamedIn(p)
    BY <1>1, <2>4, NamedInGrown
  <2> QED BY <2>1, <2>4, <2>11, <2>12
<1> QED BY <1>2, <1>3

-----------------------------------------------------------------------------
(* A look at the file.                                                     *)

LEMMA ResyncIs ==
  ASSUME NEW s \in Streams
  PROVE  LET r == Resync(s)
         IN  /\ r \in Streams /\ Tracks(r) /\ r.generation = s.generation + 1
             /\ r.acked = 0 /\ r.sent = 0 /\ r.gap = NoGap /\ ~r.closed /\ ~r.eofSent
             /\ r.ino = s.ino /\ r.size = s.size /\ r.watermark = s.watermark
<1> DEFINE k == s.generation + 1
           a == [s EXCEPT !.generation = k, !.acked = 0, !.sent = 0]
           b == [a EXCEPT !.gap = NoGap, !.closed = FALSE, !.eofSent = FALSE]
<1>1. NoGap \in Int /\ k \in Nat
  BY DEF NoGap, Streams
<1>2. Resync(s) = b
  BY DEF Resync
<1> HIDE DEF k
<1>3. /\ a \in Streams /\ a.generation = k /\ a.acked = 0 /\ a.sent = 0
      /\ a.ino = s.ino /\ a.size = s.size /\ a.watermark = s.watermark
  BY <1>1 DEF Streams
<1> HIDE DEF a
<1>4. /\ b \in Streams /\ b.generation = k /\ b.acked = 0 /\ b.sent = 0
      /\ b.gap = NoGap /\ ~b.closed /\ ~b.eofSent
      /\ b.ino = s.ino /\ b.size = s.size /\ b.watermark = s.watermark
  BY <1>1, <1>3 DEF Streams
<1> HIDE DEF b
<1>5. Resync(s) \in Streams /\ Tracks(Resync(s))
  BY ResyncFollows
<1> QED BY <1>2, <1>4, <1>5 DEF k

\* What a look leaves of a stream of the same file, and of another's.
Same(w, s) ==
  /\ w.generation = s.generation /\ w.acked = s.acked /\ w.sent = s.sent /\ w.gap = s.gap
  /\ w.closed = s.closed /\ w.eofSent = s.eofSent

Anew(w, s) ==
  /\ w.generation = s.generation + 1 /\ w.acked = 0 /\ w.sent = 0 /\ w.gap = NoGap
  /\ ~w.closed /\ ~w.eofSent

LookedAt(w) ==
  w \in Streams /\ Tracks(w) /\ w.ino = file.ino /\ w.size = file.len /\ w.watermark = file.ino

LEMMA LookIs ==
  ASSUME file \in Files, NEW s \in Streams, Tracks(s),
         NEW d, d = IF Diverged(s, file) THEN Resync(s) ELSE s
  PROVE  /\ LookedAt(Looked(s, file))
         /\ ~Outdated(d, file) /\ ~Diverged(s, file) => Same(Looked(s, file), s)
         /\ (Diverged(s, file) \/ Outdated(s, file)) => Anew(Looked(s, file), s)
<1> DEFINE w == IF Outdated(d, file) THEN Resync(d) ELSE d
           l == [w EXCEPT !.ino = file.ino, !.size = file.len, !.watermark = file.ino]
<1>1. Looked(s, file) = l
  BY DEF Looked
<1>2. d \in Streams /\ Tracks(d)
  BY ResyncIs
<1>3. w \in Streams /\ Tracks(w)
  BY <1>2, ResyncIs
<1>4. file.ino \in Nat /\ file.len \in Nat
  BY DEF Files
<1> HIDE DEF w
<1>5. LookedAt(l) /\ Same(l, w)
  BY <1>3, <1>4 DEF LookedAt, Same, Streams, Tracks
<1> HIDE DEF l
<1>6. Diverged(s, file) => d.acked = 0 /\ Anew(d, s)
  BY ResyncIs DEF Anew
<1>7. d.acked = 0 => ~Outdated(d, file)
  BY DEF Outdated
<1>8. Diverged(s, file) => w = d
  BY <1>6, <1>7 DEF w
<1>9. ~Diverged(s, file) /\ Outdated(s, file) => w = Resync(s)
  BY DEF w
<1>10. Anew(Resync(s), s)
  BY ResyncIs DEF Anew
<1>11. ~Outdated(d, file) /\ ~Diverged(s, file) => w = s
  BY DEF w
<1>12. \A v : Anew(v, s) /\ Same(l, v) => Anew(l, s)
  BY DEF Anew, Same
<1>13. Diverged(s, file) \/ Outdated(s, file) => Anew(w, s)
  BY <1>6, <1>8, <1>9, <1>10
<1> QED BY <1>1, <1>5, <1>11, <1>12, <1>13

LEMMA LookOfSeen ==
  ASSUME file \in Files, files \in Nat, FileOK, file # NoFile, NEW s \in Streams, Tracks(s), Seen(s)
  PROVE  /\ LookedAt(Looked(s, file)) /\ Seen(Looked(s, file))
         /\ s.ino = file.ino => Same(Looked(s, file), s)
         /\ s.ino # file.ino => Anew(Looked(s, file), s)
<1> DEFINE w == Looked(s, file)
<1>1. /\ s.ino \in 1..files /\ s.watermark = s.ino /\ s.generation <= s.ino
      /\ s.sent <= s.size /\ s.acked <= s.size /\ s.size <= MaxLen
      /\ s.gap \in {NoGap} \cup 0..MaxLen
      /\ s.ino = file.ino => s.size <= file.len
  BY DEF Seen
<1>2. /\ s.sent \in Nat /\ s.acked \in Nat /\ s.size \in Nat /\ s.generation \in Nat
      /\ file.len \in Nat /\ file.ino \in Nat /\ file.ino = files /\ file.len <= MaxLen /\ MaxLen \in Nat
  BY MirrorBounds DEF Streams, Files, FileOK
<1>3. s.ino = file.ino => ~Diverged(s, file) /\ ~Outdated(s, file)
  BY <1>1, <1>2 DEF Diverged, Outdated
<1>4. s.ino # file.ino => Diverged(s, file)
  BY <1>1 DEF Diverged
<1>5. /\ LookedAt(w)
      /\ s.ino = file.ino => Same(w, s)
      /\ s.ino # file.ino => Anew(w, s)
  BY <1>3, <1>4, LookIs
<1> HIDE DEF w
<1>6. ASSUME s.ino = file.ino PROVE Seen(w)
  BY <1>1, <1>2, <1>5, <1>6 DEF Seen, LookedAt, Same
<1>7. ASSUME s.ino # file.ino PROVE Seen(w)
  BY <1>1, <1>2, <1>5, <1>7 DEF Seen, LookedAt, Anew
<1>8. Seen(w)
  BY <1>6, <1>7
<1> QED BY <1>5, <1>8 DEF w

LEMMA LookFollows ==
  ASSUME NEW acks, NEW marks, Known(acks, marks), NEW sound, NEW names, NEW s, NEW q,
         Follows(acks, marks, s, q, names, sound), Tracks(s), file # NoFile
  PROVE  /\ Follows(acks, marks, Looked(s, file), q, names, sound)
         /\ LookedAt(Looked(s, file))
         /\ s.ino = file.ino => Same(Looked(s, file), s)
         /\ s.ino # file.ino => Anew(Looked(s, file), s)
<1> DEFINE w == Looked(s, file)
<1>1. s \in Streams /\ Seen(s) /\ q \in Seq(Chunks)
  BY UntrackedIs DEF Follows, Placed, Queued
<1>2. /\ LookedAt(w) /\ Seen(w)
      /\ s.ino = file.ino => Same(w, s)
      /\ s.ino # file.ino => Anew(w, s)
  BY <1>1, LookOfSeen DEF Known
<1> HIDE DEF w
<1>3. w \in Streams /\ Tracks(w) /\ w.ino = file.ino
  BY <1>2 DEF LookedAt
<1>4. CASE s.ino = file.ino
  <2>1. w.ino = s.ino /\ w.generation = s.generation /\ w.acked = s.acked /\ w.sent = s.sent
    BY <1>2, <1>3, <1>4 DEF Same
  <2>2. Backed(w, names) /\ Unread(w, names) /\ Traced(w, q, names)
    BY <2>1 DEF Follows, Backed, Unread, Traced
  <2>3. \A g, n, x : Vouched(g, n, x, s.ino, s, q) => Vouched(g, n, x, w.ino, w, q)
    BY <2>1 DEF Vouched, Honoured
  <2>4. Promises(acks, marks, w.ino, w, q, names, sound)
    BY <2>1, <2>3 DEF Follows, Promises, AckKept, MarkKept
  <2> QED BY <1>2, <1>3, <1>4, <2>2, <2>4 DEF Follows, Placed, w
<1>5. CASE s.ino # file.ino
  <2>1. Anew(w, s) /\ \A z \in names : z[2] # file.ino
    BY <1>2, <1>5 DEF Follows, Unread
  <2>2. Backed(w, names) /\ Unread(w, names) /\ w.acked = 0
    BY <1>3, <2>1 DEF Backed, Unread, Anew
  <2>3. \A g, x : <<g, x>> \in names => x # w.ino
    BY <1>3, <2>1
  <2>4. Traced(w, q, names)
    BY <2>3 DEF Follows, Traced
  <2>5. \A g, n, x : Vouched(g, n, x, s.ino, s, q) /\ x # w.ino => Vouched(g, n, x, w.ino, w, q)
    BY DEF Vouched
  <2>6. Promises(acks, marks, w.ino, w, q, names, sound)
    <3> SUFFICES ASSUME sound, OneEach(names)
                 PROVE  /\ \A a \in acks : AckKept(a, w.ino, w, q, names)
                        /\ \A m \in marks : MarkKept(m, w.ino, w, q)
      BY <2>2 DEF Promises
    <3>1. /\ \A a \in acks : AckKept(a, s.ino, s, q, names)
          /\ \A m \in marks : MarkKept(m, s.ino, s, q)
      BY DEF Follows, Promises
    <3>2. ASSUME NEW a \in acks PROVE AckKept(a, w.ino, w, q, names)
      BY <2>3, <2>5, <3>1 DEF AckKept
    <3>3. ASSUME NEW m \in marks PROVE MarkKept(m, w.ino, w, q)
      <4>1. m.offset > 0 => <<m.generation, m.ino>> \in names
        BY DEF Follows, MarkFits
      <4> QED BY <2>3, <2>5, <3>1, <4>1 DEF MarkKept
    <3> QED BY <3>2, <3>3
  <2> QED BY <1>2, <1>3, <1>5, <2>2, <2>4, <2>6 DEF Follows, Placed, w
<1> QED BY <1>4, <1>5

(* A drain of a stream w that has looked.                                  *)
LEMMA SentFollows ==
  ASSUME NEW acks, NEW marks, Known(acks, marks), NEW sound, NEW names, NEW w, NEW q,
         Follows(acks, marks, w, q, names, sound), LookedAt(w), NEW t \in Sent(w, q)
  PROVE  /\ Follows(acks, marks, t.stream, t.queue, names \cup NamedIn(t.queue), sound)
         /\ NamedIn(q) \subseteq NamedIn(t.queue)
         /\ LookedAt(t.stream) /\ t.stream.closed = w.closed
         /\ t.stream.eofSent => w.eofSent \/ (w.closed /\ t.stream.sent = file.len)
<1> DEFINE r == t.stream
           p == t.queue
<1>1. /\ w \in Streams /\ Tracks(w) /\ w.sent <= w.size /\ Len(q) <= QueueMax /\ q \in Seq(Chunks)
      /\ w.size = file.len
  BY UntrackedIs DEF Follows, Placed, Seen, Queued, LookedAt
<1>2. Ran(w, q, t) /\ (r.eofSent => w.eofSent \/ (w.closed /\ r.sent = w.size))
  BY <1>1, SentRuns
<1>3. Follows(acks, marks, r, p, names \cup NamedIn(p), sound) /\ Tracks(r)
  BY <1>1, <1>2, RunFollows
<1>4. p \in Seq(Chunks) /\ r \in Streams /\ Grown(q, p, w.generation, w.ino, r.sent) /\ Agrees(r, w)
  BY <1>2 DEF Ran, Following
<1> HIDE DEF r, p
<1>5. NamedIn(q) \subseteq NamedIn(p)
  BY <1>1, <1>4, NamedInGrown
<1>6. LookedAt(r) /\ r.closed = w.closed
  BY <1>3, <1>4 DEF LookedAt, Agrees
<1> QED BY <1>1, <1>2, <1>3, <1>5, <1>6 DEF r, p

(* A drain as a whole.                                                     *)
LEMMA DrainFollows ==
  ASSUME NEW acks, NEW marks, Known(acks, marks), NEW sound, NEW names, NEW s, NEW q,
         Follows(acks, marks, s, q, names, sound), Tracks(s), NEW t \in Drain(s, file, q)
  PROVE  /\ Follows(acks, marks, t.stream, t.queue, names \cup NamedIn(t.queue), sound)
         /\ NamedIn(q) \subseteq NamedIn(t.queue)
         /\ file = NoFile => t.stream = Untracked \/ (t.stream = s /\ Finished(s))
         /\ file # NoFile =>
              /\ LookedAt(t.stream)
              /\ t.stream.closed => s.closed
              /\ s.closed /\ s.ino = file.ino => t.stream.closed
              /\ t.stream.eofSent /\ ~s.eofSent => t.stream.closed /\ t.stream.sent = file.len
              /\ (s.eofSent => s.closed) => (t.stream.eofSent => t.stream.closed)
<1>2. CASE file = NoFile
  <2>1. /\ Follows(acks, marks, t.stream, t.queue, names \cup NamedIn(t.queue), sound)
        /\ t.stream = Untracked \/ (t.stream = s /\ Finished(s))
        /\ t.queue \in Seq(Chunks) /\ NamedIn(q) \subseteq NamedIn(t.queue)
    BY <1>2, DropFollows
  <2> QED BY <1>2, <2>1
<1>3. CASE file # NoFile
  <2> DEFINE w == Looked(s, file)
             r == t.stream
             p == t.queue
  <2>1. t \in Sent(w, q)
    BY <1>3 DEF Drain
  <2>2. /\ Follows(acks, marks, w, q, names, sound) /\ LookedAt(w)
        /\ s.ino = file.ino => Same(w, s)
        /\ s.ino # file.ino => Anew(w, s)
    BY <1>3, LookFollows
  <2> HIDE DEF w
  <2>3. /\ Follows(acks, marks, r, p, names \cup NamedIn(p), sound)
        /\ NamedIn(q) \subseteq NamedIn(p)
        /\ LookedAt(r) /\ r.closed = w.closed
        /\ r.eofSent => w.eofSent \/ (w.closed /\ r.sent = file.len)
    BY <2>1, <2>2, SentFollows
  <2> HIDE DEF r, p
  <2>4. (s.closed /\ s.ino = file.ino => w.closed) /\ (w.eofSent => s.eofSent /\ s.ino = file.ino)
    BY <2>2 DEF Same, Anew
  <2>5. w.closed => s.closed
    BY <2>2 DEF Same, Anew
  <2> QED BY <1>3, <2>3, <2>4, <2>5 DEF r, p
<1> QED BY <1>2, <1>3

-----------------------------------------------------------------------------
(* The first look at a stream that was just tracked.                       *)

LEMMA TrackIs ==
  ASSUME NEW a \in Nat, NEW m \in Marks
  PROVE  LET s == Track(a, m)
         IN  /\ s \in Streams /\ Tracks(s) /\ s.ino = 0 /\ s.size = 0
             /\ s.gap = NoGap /\ ~s.closed /\ ~s.eofSent
             /\ s.generation = NextGeneration(a, m)
             /\ a = 0 => s.acked = m.offset /\ s.sent = m.offset /\ s.watermark = m.ino
             /\ a > 0 => s.acked = 0 /\ s.sent = 0 /\ s.watermark = 0
<1> DEFINE k == IF a = 0 THEN m ELSE NoMark
           g == NextGeneration(a, m)
           o == k.offset
           i == k.ino
           c == [Untracked EXCEPT !.generation = g, !.acked = o]
           b == [c EXCEPT !.sent = o, !.watermark = i]
<1>1. k \in Marks /\ (a > 0 => o = 0 /\ i = 0) /\ (a = 0 => o = m.offset /\ i = m.ino)
  BY DEF Marks, NoMark
<1>2. g \in Nat
  BY DEF NextGeneration, Marks
<1>3. Track(a, m) = b
  BY DEF Track
<1> HIDE DEF k
<1>4. o \in Nat /\ i \in Nat
  BY <1>1 DEF Marks
<1>5. Track(a, m) \in Streams /\ Tracks(Track(a, m))
  BY TrackFollows
<1> HIDE DEF o, i, g
<1>6. /\ c \in Streams /\ c.generation = g /\ c.acked = o /\ c.ino = 0 /\ c.size = 0
      /\ c.gap = NoGap /\ ~c.closed /\ ~c.eofSent
  BY <1>2, <1>4, UntrackedIs DEF Streams
<1> HIDE DEF c
<1>7. /\ b.generation = g /\ b.acked = o /\ b.sent = o /\ b.watermark = i /\ b.ino = 0 /\ b.size = 0
      /\ b.gap = NoGap /\ ~b.closed /\ ~b.eofSent
  BY <1>4, <1>6 DEF Streams
<1> HIDE DEF b
<1> QED BY <1>1, <1>3, <1>5, <1>7 DEF g

\* What the first look leaves, for the generation a given out last and the
\* watermark m of the sidecar.
Begun(w, a, m) ==
  /\ LookedAt(w) /\ Seen(w) /\ w.sent = w.acked /\ ~w.closed /\ ~w.eofSent
  /\ \/ w.acked = 0 /\ (a > 0 \/ m.offset = 0) /\ w.generation = a + 1
     \/ a = 0 /\ m.offset > 0 /\ m.ino = file.ino /\ w.generation = m.generation /\ w.acked = m.offset
     \/ a = 0 /\ m.offset > 0 /\ m.ino # file.ino /\ w.generation = m.generation + 1 /\ w.acked = 0

LEMMA FoundIs ==
  ASSUME file \in Files, files \in Nat, FileOK, file # NoFile, NEW names, Names(names),
         NEW a \in Nat, a < file.ino, NEW m \in Marks, MarkFits(m, names)
  PROVE  Begun(Looked(Track(a, m), file), a, m) /\ NextGeneration(a, m) <= file.ino
<1> DEFINE s == Track(a, m)
           d == IF Diverged(s, file) THEN Resync(s) ELSE s
           w == Looked(s, file)
<1>1. /\ s \in Streams /\ Tracks(s) /\ s.ino = 0 /\ s.size = 0
      /\ s.gap = NoGap /\ ~s.closed /\ ~s.eofSent
      /\ s.generation = NextGeneration(a, m)
      /\ a = 0 => s.acked = m.offset /\ s.sent = m.offset /\ s.watermark = m.ino
      /\ a > 0 => s.acked = 0 /\ s.sent = 0 /\ s.watermark = 0
  BY TrackIs
<1> HIDE DEF s
<1>2. /\ file.len \in Nat /\ file.ino \in Nat /\ file.ino = files /\ file.len <= MaxLen /\ MaxLen \in Nat
      /\ m.offset \in Nat /\ m.generation \in Nat /\ m.ino \in Nat /\ s.acked \in Nat
  BY <1>1, MirrorBounds DEF Streams, Files, FileOK, Marks
<1>3. /\ LookedAt(w)
      /\ ~Outdated(d, file) /\ ~Diverged(s, file) => Same(w, s)
      /\ (Diverged(s, file) \/ Outdated(s, file)) => Anew(w, s)
  BY <1>1, LookIs
<1>4. ~Diverged(s, file) => d = s
  OBVIOUS
<1> HIDE DEF d, w
<1>5. Diverged(s, file) <=> s.acked > 0 /\ file.len < s.sent
  BY <1>1, <1>2 DEF Diverged
<1>6. Outdated(s, file) <=> s.watermark # 0 /\ s.acked > 0 /\ s.watermark # file.ino
  BY DEF Outdated
<1>7. m.offset > 0 => m.generation \in 1..files /\ m.ino \in 1..files
  BY DEF MarkFits, Names
<1>8. (m.offset = 0 => m = NoMark) /\ m.generation <= m.ino /\ m.ino <= files
      /\ (m.ino = file.ino => m.offset <= file.len)
  BY DEF MarkFits
<1>9. Same(w, s) \/ Anew(w, s) => w.gap \in {NoGap} \cup 0..MaxLen /\ ~w.closed /\ ~w.eofSent
  BY <1>1 DEF Same, Anew
<1>10. CASE a > 0 \/ m.offset = 0
  <2>1. s.acked = 0 /\ s.sent = 0
    BY <1>1, <1>10, <1>2
  <2>2. s.generation = a + 1
    BY <1>1, <1>2, <1>8, <1>10 DEF NextGeneration, NoMark
  <2>3. Same(w, s)
    BY <1>3, <1>4, <1>5, <1>6, <2>1
  <2>4. w.acked = 0 /\ w.sent = 0 /\ w.generation = a + 1
    BY <2>1, <2>2, <2>3 DEF Same
  <2>5. Seen(w)
    BY <1>2, <1>3, <1>9, <2>3, <2>4 DEF Seen, LookedAt
  <2> QED BY <1>1, <1>2, <1>3, <1>9, <1>10, <2>2, <2>3, <2>4, <2>5 DEF Begun, w, s
<1>11. CASE a = 0 /\ m.offset > 0
  <2>1. s.acked = m.offset /\ s.sent = m.offset /\ s.watermark = m.ino /\ s.generation = m.generation
    BY <1>1, <1>2, <1>7, <1>11 DEF NextGeneration
  <2>2. CASE m.ino = file.ino
    <3>1. Same(w, s)
      BY <1>2, <1>3, <1>4, <1>5, <1>6, <1>8, <2>1, <2>2
    <3>2. w.acked = m.offset /\ w.sent = m.offset /\ w.generation = m.generation
      BY <2>1, <3>1 DEF Same
    <3>3. Seen(w)
      BY <1>2, <1>3, <1>8, <1>9, <2>2, <3>1, <3>2 DEF Seen, LookedAt
    <3> QED BY <1>1, <1>2, <1>3, <1>8, <1>9, <1>11, <2>1, <2>2, <3>1, <3>2, <3>3 DEF Begun, w, s
  <2>3. CASE m.ino # file.ino
    <3>1. Anew(w, s)
      BY <1>2, <1>3, <1>6, <1>7, <1>11, <2>1, <2>3
    <3>2. w.acked = 0 /\ w.sent = 0 /\ w.generation = m.generation + 1
      BY <2>1, <3>1 DEF Anew
    <3>3. Seen(w)
      BY <1>2, <1>3, <1>8, <1>9, <2>3, <3>1, <3>2 DEF Seen, LookedAt
    <3> QED BY <1>1, <1>2, <1>3, <1>8, <1>9, <1>11, <2>1, <2>3, <3>1, <3>2, <3>3 DEF Begun, w, s
  <2> QED BY <2>2, <2>3
<1> QED BY <1>2, <1>10, <1>11

\* As Follows, of a file cur that may not be the stream's yet.
Holds(acks, marks, cur, s, q, names, sound) ==
  /\ Placed(s) /\ Queued(q) /\ Names(names) /\ NamedIn(q) \subseteq names
  /\ \A m \in marks : MarkFits(m, names)
  /\ Backed(s, names) /\ Traced(s, q, names)
  /\ Promises(acks, marks, cur, s, q, names, sound)

LEMMA FollowsIs ==
  ASSUME NEW acks, NEW marks, NEW s, NEW q, NEW names, NEW sound
  PROVE  Follows(acks, marks, s, q, names, sound)
           <=> Holds(acks, marks, s.ino, s, q, names, sound) /\ Unread(s, names)
BY DEF Follows, Holds

(* A stream that is found is followed, by a tailer that starts or by one   *)
(* that has read nothing of its file.                                      *)
LEMMA FoundFollows ==
  ASSUME NEW acks, NEW marks, Known(acks, marks), NEW sound, NEW names, NEW q, NEW cur,
         Holds(acks, marks, cur, Untracked, q, names, sound), file # NoFile,
         NEW a \in Nat, a < file.ino, NEW m \in marks,
         (q = <<>> /\ cur = file.ino /\ a = 0) \/ Unread(Untracked, names)
  PROVE  Follows(acks, marks, Looked(Track(a, m), file), q, names, sound)
         /\ Begun(Looked(Track(a, m), file), a, m) /\ NextGeneration(a, m) <= file.ino
<1> DEFINE w == Looked(Track(a, m), file)
<1>1. m \in Marks /\ Names(names) /\ MarkFits(m, names) /\ file.ino \in 1..files
  BY DEF Known, Holds, FileOK
<1>2. Begun(w, a, m) /\ NextGeneration(a, m) <= file.ino
  BY <1>1, FoundIs DEF Known
<1> HIDE DEF w
<1>3. w \in Streams /\ Tracks(w) /\ w.ino = file.ino /\ Seen(w) /\ w.sent = w.acked
  BY <1>2 DEF Begun, LookedAt
<1>4. m.offset > 0 => <<m.generation, m.ino>> \in names /\ m.generation \in 1..files
  BY <1>1 DEF MarkFits, Names
<1>5. /\ w.sent \in Nat /\ w.acked \in Nat /\ m.offset \in Nat /\ m.generation \in Nat
      /\ w.generation \in Nat
  BY <1>1, <1>3 DEF Streams, Marks
<1>6. Backed(w, names)
  BY <1>2, <1>3, <1>4, <1>5 DEF Begun, Backed
<1>7. (\A z \in names : z[2] # file.ino) \/ (q = <<>> /\ cur = file.ino /\ a = 0)
  <2>1. Untracked.ino # file.ino
    BY <1>1, UntrackedIs
  <2> QED BY <2>1 DEF Unread
<1>8. Traced(w, q, names)
  <2>1. CASE \A z \in names : z[2] # file.ino
    BY <1>3, <2>1 DEF Holds, Traced
  <2>2. CASE q = <<>>
    BY <2>2 DEF Traced
  <2> QED BY <1>7, <2>1, <2>2
<1>9. Promises(acks, marks, w.ino, w, q, names, sound)
  <2> SUFFICES ASSUME sound, OneEach(names)
               PROVE  /\ \A k \in acks : AckKept(k, w.ino, w, q, names)
                      /\ \A k \in marks : MarkKept(k, w.ino, w, q)
                      /\ w.acked > 0 => Vouched(w.generation, w.acked, w.ino, w.ino, w, q)
    BY DEF Promises
  <2>1. /\ \A k \in acks : AckKept(k, cur, Untracked, q, names)
        /\ \A k \in marks : MarkKept(k, cur, Untracked, q)
    BY DEF Holds, Promises
  <2>2. m.offset > 0 => Vouched(m.generation, m.offset, m.ino, cur, Untracked, q)
    BY <2>1 DEF MarkKept
  <2>3. ASSUME NEW g \in Nat, NEW n, NEW x \in 1..files, <<g, x>> \in names,
               Vouched(g, n, x, cur, Untracked, q)
        PROVE  Vouched(g, n, x, w.ino, w, q)
    <3>1. CASE x # file.ino
      BY <1>3, <2>3, <3>1 DEF Vouched
    <3>2. CASE x = file.ino
      <4>1. q = <<>> /\ cur = file.ino /\ a = 0
        BY <1>7, <2>3, <3>2
      <4>2. Honoured(g, n, Untracked, q)
        BY <2>3, <3>2, <4>1 DEF Vouched
      <4>3. g >= 1
        BY <2>3 DEF Holds, Names
      <4>4. w.generation <= g
        <5>1. CASE w.acked = 0 /\ w.generation = a + 1
          BY <4>1, <4>3, <5>1
        <5>2. CASE m.offset > 0 /\ m.ino = file.ino /\ w.generation = m.generation
          <6>1. Honoured(m.generation, m.offset, Untracked, q)
            BY <2>2, <4>1, <5>2 DEF Vouched
          <6> QED BY <1>5, <2>3, <4>2, <5>2, <6>1 DEF Honoured
        <5>3. CASE m.offset > 0 /\ m.ino # file.ino /\ w.generation = m.generation + 1
          <6>1. store.index.generation >= m.generation /\ store.index.generation = g
            BY <2>2, <4>2, <5>3 DEF Vouched, Honoured
          <6>2. g # m.generation
            <7>1. <<m.generation, m.ino>> \in names /\ <<g, file.ino>> \in names
              BY <1>4, <2>3, <3>2, <5>3
            <7>2. \A y, z \in names : y[1] = z[1] => y[2] = z[2]
              BY DEF OneEach
            <7> QED BY <5>3, <7>1, <7>2
          <6> QED BY <1>5, <2>3, <5>3, <6>1, <6>2
        <5> QED BY <1>2, <5>1, <5>2, <5>3 DEF Begun
      <4>5. Honoured(g, n, w, q)
        BY <4>2, <4>4 DEF Honoured
      <4> QED BY <2>3, <4>5 DEF Vouched
    <3> QED BY <3>1, <3>2
  <2>4. ASSUME NEW k \in acks, k.offset > 0
        PROVE  \E x \in 1..files : <<k.generation, x>> \in names
                                   /\ Vouched(k.generation, k.offset, x, w.ino, w, q)
    <3>1. PICK x \in 1..files : <<k.generation, x>> \in names
                                /\ Vouched(k.generation, k.offset, x, cur, Untracked, q)
      BY <2>1, <2>4 DEF AckKept
    <3>2. k.generation \in Nat
      BY DEF Known
    <3> QED BY <2>3, <3>1, <3>2
  <2>5. ASSUME NEW k \in marks, k.offset > 0
        PROVE  Vouched(k.generation, k.offset, k.ino, w.ino, w, q)
    <3>1. <<k.generation, k.ino>> \in names
      BY <2>5 DEF Holds, MarkFits
    <3>2. k.ino \in 1..files /\ k.generation \in Nat
      BY <3>1 DEF Holds, Names
    <3> QED BY <2>1, <2>3, <2>5, <3>1, <3>2 DEF MarkKept
  <2>6. ASSUME w.acked > 0 PROVE Vouched(w.generation, w.acked, w.ino, w.ino, w, q)
    <3>1. m.offset > 0 /\ m.ino = file.ino /\ w.generation = m.generation /\ w.acked = m.offset
      BY <1>2, <1>5, <2>6 DEF Begun
    <3>2. <<m.generation, m.ino>> \in names /\ m.ino \in 1..files
      BY <1>1, <1>4, <3>1
    <3>3. Vouched(m.generation, m.offset, m.ino, w.ino, w, q)
      BY <1>5, <2>2, <2>3, <3>1, <3>2
    <3> QED BY <1>3, <3>1, <3>3
  <2> QED BY <2>4, <2>5, <2>6 DEF AckKept, MarkKept
<1>10. Unread(w, names)
  BY <1>3 DEF Unread
<1> QED BY <1>2, <1>3, <1>6, <1>8, <1>9, <1>10 DEF Follows, Holds, Placed, w

-----------------------------------------------------------------------------
(* What the handlers make of the stream.                                   *)

\* What a drain leaves of s, as far as its end goes.
Goes(s, t) ==
  /\ (s.eofSent => s.closed) => (t.eofSent => t.closed)
  /\ t.closed => s.closed
  /\ file # NoFile => LookedAt(t) /\ (s.closed /\ s.ino = file.ino => t.closed)

LEMMA DrainGoes ==
  ASSUME NEW acks, NEW marks, Known(acks, marks), NEW sound, NEW names, NEW s, NEW q,
         Follows(acks, marks, s, q, names, sound), Tracks(s), NEW t \in Drain(s, file, q)
  PROVE  /\ Follows(acks, marks, t.stream, t.queue, names \cup NamedIn(t.queue), sound)
         /\ NamedIn(q) \subseteq NamedIn(t.queue) /\ Goes(s, t.stream)
<1>1. /\ Follows(acks, marks, t.stream, t.queue, names \cup NamedIn(t.queue), sound)
      /\ NamedIn(q) \subseteq NamedIn(t.queue)
      /\ file = NoFile => t.stream = Untracked \/ (t.stream = s /\ Finished(s))
      /\ file # NoFile =>
           /\ LookedAt(t.stream)
           /\ t.stream.closed => s.closed
           /\ s.closed /\ s.ino = file.ino => t.stream.closed
           /\ t.stream.eofSent /\ ~s.eofSent => t.stream.closed /\ t.stream.sent = file.len
           /\ (s.eofSent => s.closed) => (t.stream.eofSent => t.stream.closed)
  BY DrainFollows, Zenon
<1>2. Goes(s, t.stream)
  BY <1>1, UntrackedIs DEF Goes
<1> QED BY <1>1, <1>2

LEMMA WeakerHolds ==
  ASSUME NEW acks, NEW marks, NEW cur, NEW s, NEW q, NEW names, NEW sound, NEW acks1, NEW marks1, NEW sound1,
         Holds(acks, marks, cur, s, q, names, sound),
         acks1 \subseteq acks, marks1 \subseteq marks, sound1 => sound
  PROVE  Holds(acks1, marks1, cur, s, q, names, sound1)
<1>1. Promises(acks1, marks1, cur, s, q, names, sound1)
  BY DEF Holds, Promises
<1> QED BY <1>1 DEF Holds

\* A stream r of the same file and generation as s, with no more sent or acked.
Altered(r, s) ==
  /\ r \in Streams /\ r.generation = s.generation /\ r.ino = s.ino /\ r.size = s.size
  /\ r.watermark = s.watermark /\ r.acked = s.acked
  /\ r.sent <= s.sent \/ r.sent = s.acked
  /\ r.gap \in {NoGap} \cup 0..MaxLen

LEMMA AlteredFollows ==
  ASSUME NEW acks, NEW marks, NEW s, NEW q, NEW names, NEW sound, NEW r,
         Follows(acks, marks, s, q, names, sound), Tracks(s), Altered(r, s)
  PROVE  Follows(acks, marks, r, q, names, sound) /\ Tracks(r)
<1>1. s \in Streams /\ Seen(s) /\ r \in Streams
  BY UntrackedIs DEF Follows, Placed, Altered
<1>2. /\ s.sent \in Nat /\ s.acked \in Nat /\ s.size \in Nat /\ r.sent \in Nat
      /\ s.sent <= s.size /\ s.acked <= s.size
  BY <1>1 DEF Streams, Seen
<1>3. Seen(r) /\ Tracks(r)
  BY <1>1, <1>2 DEF Seen, Altered, Tracks
<1>4. Backed(r, names)
  BY <1>2 DEF Follows, Backed, Altered
<1>5. Unread(r, names) /\ Traced(r, q, names)
  BY DEF Follows, Unread, Traced, Altered
<1>6. r.generation = s.generation /\ r.ino = s.ino /\ r.acked = s.acked
  BY DEF Altered
<1>7. \A g, n, x : Vouched(g, n, x, s.ino, s, q) => Vouched(g, n, x, r.ino, r, q)
  BY <1>6 DEF Vouched, Honoured
<1>8. Promises(acks, marks, r.ino, r, q, names, sound)
  BY <1>6, <1>7 DEF Follows, Promises, AckKept, MarkKept
<1> QED BY <1>1, <1>3, <1>4, <1>5, <1>8 DEF Follows, Placed

LEMMA RewoundIs ==
  ASSUME NEW s \in Streams, Seen(s), NEW x \in Nat, x <= s.sent \/ x = s.acked,
         NEW r, r = [s EXCEPT !.gap = s.sent, !.sent = x]
  PROVE  Altered(r, s) /\ r.closed = s.closed /\ r.eofSent = s.eofSent
<1> DEFINE g == s.sent
<1>1. g \in Int /\ g \in 0..MaxLen
  BY MirrorBounds DEF Streams, Seen
<1> HIDE DEF g
<1>2. r = [s EXCEPT !.gap = g, !.sent = x]
  BY DEF g
<1>3. /\ r \in Streams /\ r.generation = s.generation /\ r.ino = s.ino /\ r.size = s.size
      /\ r.watermark = s.watermark /\ r.acked = s.acked /\ r.sent = x /\ r.gap = g
      /\ r.closed = s.closed /\ r.eofSent = s.eofSent
  BY <1>1, <1>2 DEF Streams
<1> QED BY <1>1, <1>3 DEF Altered

LEMMA ClosedIs ==
  ASSUME NEW s \in Streams, Seen(s), NEW r, r = [s EXCEPT !.closed = TRUE]
  PROVE  Altered(r, s) /\ r.closed /\ r.eofSent = s.eofSent
<1>1. /\ r \in Streams /\ r.generation = s.generation /\ r.ino = s.ino /\ r.size = s.size
      /\ r.watermark = s.watermark /\ r.acked = s.acked /\ r.sent = s.sent /\ r.gap = s.gap
      /\ r.closed /\ r.eofSent = s.eofSent
  BY DEF Streams
<1>2. s.sent \in Nat
  BY DEF Streams
<1> QED BY <1>1, <1>2 DEF Altered, Seen

(* A ring that overflows.                                                  *)
LEMMA CheckRingFollows ==
  ASSUME NEW acks, NEW marks, Known(acks, marks), NEW sound, NEW names, NEW t,
         Follows(acks, marks, t.stream, t.queue, names \cup NamedIn(t.queue), sound),
         NEW n \in CheckRing(t, file)
  PROVE  /\ Follows(acks, marks, n.stream, n.queue, names \cup NamedIn(n.queue), sound)
         /\ NamedIn(t.queue) \subseteq NamedIn(n.queue)
         /\ n = t \/ (Tracks(t.stream) /\ Goes(t.stream, n.stream))
<1> DEFINE s == t.stream
           q == t.queue
           more == names \cup NamedIn(q)
           r == [s EXCEPT !.gap = s.sent, !.sent = s.acked]
<1>1. CASE Overflows(s)
  <2>1. Tracks(s) /\ n \in Drain(r, file, q)
    BY <1>1 DEF CheckRing, Overflows
  <2> HIDE DEF s, q
  <2>2. s \in Streams /\ Seen(s) /\ s.acked \in Nat
    BY <2>1, UntrackedIs DEF Follows, Placed, Streams, s
  <2>3. Altered(r, s) /\ r.closed = s.closed /\ r.eofSent = s.eofSent
    BY <2>2, RewoundIs
  <2> HIDE DEF r
  <2>4. Follows(acks, marks, s, q, more, sound)
    BY DEF s, q
  <2> HIDE DEF more
  <2>5. Follows(acks, marks, r, q, more, sound) /\ Tracks(r)
    BY <2>1, <2>3, <2>4, AlteredFollows
  <2>6. /\ Follows(acks, marks, n.stream, n.queue, more \cup NamedIn(n.queue), sound)
        /\ NamedIn(q) \subseteq NamedIn(n.queue) /\ Goes(r, n.stream)
    BY <2>1, <2>5, DrainGoes
  <2>7. more \cup NamedIn(n.queue) = names \cup NamedIn(n.queue)
    BY <2>6 DEF more
  <2>8. Goes(s, n.stream)
    BY <2>3, <2>6 DEF Goes, Altered
  <2> QED BY <2>1, <2>6, <2>7, <2>8 DEF s, q
<1>2. CASE ~Overflows(s)
  <2>1. n = t
    BY <1>2 DEF CheckRing
  <2> QED BY <2>1
<1> QED BY <1>1, <1>2

(* A repair.                                                               *)
LEMMA RepairRangeFollows ==
  ASSUME NEW acks, NEW marks, Known(acks, marks), NEW sound, NEW names, NEW s, NEW q,
         Follows(acks, marks, s, q, names, sound), NEW from \in Nat,
         NEW n \in RepairRange(s, from, file, q)
  PROVE  /\ Follows(acks, marks, n.stream, n.queue, names \cup NamedIn(n.queue), sound)
         /\ n.stream = s \/ (Tracks(s) /\ Goes(s, n.stream))
<1> DEFINE target == IF from < s.sent THEN from ELSE s.sent
           r == [s EXCEPT !.gap = s.sent, !.sent = target]
<1>0. RepairRange(s, from, file, q) =
        IF ~Tracks(s) \/ (target >= s.sent /\ s.gap = NoGap) THEN {Tails(s, q)}
        ELSE Drain(r, file, q)
  BY DEF RepairRange
<1>1. CASE ~Tracks(s) \/ (target >= s.sent /\ s.gap = NoGap)
  <2>1. n = Tails(s, q)
    BY <1>0, <1>1
  <2>2. n.stream = s /\ n.queue = q
    BY <2>1, Zenon DEF Tails
  <2>3. names \cup NamedIn(q) = names
    BY DEF Follows
  <2> QED BY <2>2, <2>3
<1>2. CASE ~(~Tracks(s) \/ (target >= s.sent /\ s.gap = NoGap))
  <2>1. Tracks(s) /\ n \in Drain(r, file, q)
    BY <1>0, <1>2
  <2>2. s \in Streams /\ Seen(s)
    BY <2>1, UntrackedIs DEF Follows, Placed
  <2>3. target \in Nat /\ target <= s.sent
    BY <2>2 DEF Streams
  <2> HIDE DEF target
  <2>4. Altered(r, s) /\ r.closed = s.closed /\ r.eofSent = s.eofSent
    BY <2>2, <2>3, RewoundIs
  <2> HIDE DEF r
  <2>5. Follows(acks, marks, r, q, names, sound) /\ Tracks(r)
    BY <2>1, <2>4, AlteredFollows
  <2>6. /\ Follows(acks, marks, n.stream, n.queue, names \cup NamedIn(n.queue), sound)
        /\ Goes(r, n.stream)
    BY <2>1, <2>5, DrainGoes
  <2>7. Goes(s, n.stream)
    BY <2>4, <2>6 DEF Goes, Altered
  <2> QED BY <2>1, <2>6, <2>7
<1> QED BY <1>1, <1>2

(* An ack: of the stream's generation, if nothing was misread.             *)
LEMMA AcknowledgedIs ==
  ASSUME NEW s \in Streams, NEW offset \in Nat, NEW r, r = Acknowledged(s, offset)
  PROVE  /\ r \in Streams /\ r.generation = s.generation /\ r.ino = s.ino /\ r.size = s.size
         /\ r.watermark = s.watermark /\ r.sent = s.sent /\ r.gap \in {NoGap, s.gap}
         /\ r.closed = s.closed /\ r.eofSent = s.eofSent
         /\ (offset > s.acked /\ r.acked = offset) \/ (offset <= s.acked /\ r.acked = s.acked)
<1> DEFINE acked == IF offset > s.acked THEN offset ELSE s.acked
           gap == IF s.gap # NoGap /\ acked >= s.gap THEN NoGap ELSE s.gap
<1>1. NoGap \in Int /\ acked \in Nat /\ gap \in Int /\ gap \in {NoGap, s.gap}
  BY DEF NoGap, Streams
<1>2. r = [s EXCEPT !.acked = acked, !.gap = gap]
  BY DEF Acknowledged
<1>3. (offset > s.acked /\ acked = offset) \/ (offset <= s.acked /\ acked = s.acked)
  BY DEF Streams
<1> HIDE DEF acked, gap
<1>4. /\ r \in Streams /\ r.generation = s.generation /\ r.ino = s.ino /\ r.size = s.size
      /\ r.watermark = s.watermark /\ r.sent = s.sent /\ r.gap = gap
      /\ r.closed = s.closed /\ r.eofSent = s.eofSent /\ r.acked = acked
  BY <1>1, <1>2 DEF Streams
<1> QED BY <1>1, <1>3, <1>4

LEMMA AckFollows ==
  ASSUME NEW acks, NEW marks, Known(acks, marks), NEW sound, NEW names, NEW s, NEW q,
         Follows(acks, marks, s, q, names, sound), Tracks(s), NEW k \in acks, k.offset <= s.sent,
         NEW sound1, sound1 => sound /\ (k.offset > s.acked => k.generation = s.generation),
         NEW r, r = Acknowledged(s, k.offset)
  PROVE  /\ Follows(acks, marks, r, q, names, sound1) /\ Tracks(r)
         /\ r.ino = s.ino /\ r.size = s.size /\ r.closed = s.closed /\ r.eofSent = s.eofSent
<1>1. s \in Streams /\ Seen(s) /\ k.offset \in Nat /\ k.generation \in Nat /\ Names(names)
  BY UntrackedIs DEF Follows, Placed, Known
<1>2. /\ r \in Streams /\ r.generation = s.generation /\ r.ino = s.ino /\ r.size = s.size
      /\ r.watermark = s.watermark /\ r.sent = s.sent /\ r.gap \in {NoGap, s.gap}
      /\ r.closed = s.closed /\ r.eofSent = s.eofSent
      /\ (k.offset > s.acked /\ r.acked = k.offset) \/ (k.offset <= s.acked /\ r.acked = s.acked)
  BY <1>1, AcknowledgedIs
<1>3. s.sent \in Nat /\ s.acked \in Nat /\ s.size \in Nat /\ s.generation \in Nat
  BY <1>1 DEF Streams
<1>4. Seen(r) /\ Tracks(r)
  BY <1>1, <1>2, <1>3 DEF Seen, Tracks
<1>5. Backed(r, names)
  BY <1>1, <1>2, <1>3 DEF Follows, Backed
<1>6. Unread(r, names) /\ Traced(r, q, names)
  BY <1>2 DEF Follows, Unread, Traced
<1>7. \A g, n, x : Vouched(g, n, x, s.ino, s, q) => Vouched(g, n, x, r.ino, r, q)
  BY <1>2 DEF Vouched, Honoured
<1>8. Promises(acks, marks, r.ino, r, q, names, sound1)
  <2> SUFFICES ASSUME sound1, OneEach(names)
               PROVE  /\ \A a \in acks : AckKept(a, r.ino, r, q, names)
                      /\ \A m \in marks : MarkKept(m, r.ino, r, q)
                      /\ r.acked > 0 => Vouched(r.generation, r.acked, r.ino, r.ino, r, q)
    BY DEF Promises
  <2>1. /\ \A a \in acks : AckKept(a, s.ino, s, q, names)
        /\ \A m \in marks : MarkKept(m, s.ino, s, q)
        /\ s.acked > 0 => Vouched(s.generation, s.acked, s.ino, s.ino, s, q)
    BY DEF Follows, Promises
  <2>2. /\ \A a \in acks : AckKept(a, r.ino, r, q, names)
        /\ \A m \in marks : MarkKept(m, r.ino, r, q)
    BY <1>7, <2>1 DEF AckKept, MarkKept
  <2>3. CASE k.offset <= s.acked /\ r.acked = s.acked
    BY <1>2, <1>7, <2>1, <2>2, <2>3
  <2>4. CASE k.offset > s.acked /\ r.acked = k.offset
    <3>1. k.generation = s.generation /\ k.offset > 0 /\ s.sent > 0
      BY <1>1, <1>3, <2>4
    <3>2. PICK x \in 1..files : <<k.generation, x>> \in names
                                /\ Vouched(k.generation, k.offset, x, s.ino, s, q)
      BY <2>1, <3>1 DEF AckKept
    <3>3. <<s.generation, s.ino>> \in names
      BY <3>1 DEF Follows, Backed
    <3>4. x = s.ino
      <4>1. \A y, z \in names : y[1] = z[1] => y[2] = z[2]
        BY DEF OneEach
      <4> QED BY <3>1, <3>2, <3>3, <4>1
    <3>5. Vouched(k.generation, k.offset, x, r.ino, r, q)
      BY <1>7, <3>2
    <3> QED BY <1>2, <2>2, <2>4, <3>1, <3>4, <3>5
  <2> QED BY <1>2, <2>3, <2>4
<1> QED BY <1>2, <1>4, <1>5, <1>6, <1>8 DEF Follows, Placed

(* What the sidecar is given of a stream.                                  *)
LEMMA MarkOfHolds ==
  ASSUME NEW acks, NEW marks, Known(acks, marks), NEW sound, NEW names, NEW cur, NEW s, NEW q,
         Holds(acks, marks, cur, s, q, names, sound)
  PROVE  Holds(acks, marks \cup {MarkOf(s)}, cur, s, q, names, sound) /\ MarkOf(s) \in Marks
<1> DEFINE m == MarkOf(s)
<1>1. s \in Streams /\ (s = Untracked \/ Seen(s))
  BY UntrackedIs DEF Holds, Placed
<1>2. m \in Marks
  BY <1>1, MarkOfTyped
<1>3. CASE s.acked > 0
  <2>1. m.offset = s.acked /\ m.generation = s.generation /\ m.ino = s.ino
    BY <1>3 DEF MarkOf
  <2> HIDE DEF m
  <2>2. Seen(s)
    BY <1>1, <1>3, UntrackedIs
  <2>3. MarkFits(m, names)
    <3>1. /\ s.acked \in Nat /\ s.size \in Nat /\ file.len \in Nat /\ MaxLen \in Nat /\ files \in Nat
      BY <1>1, MirrorBounds DEF Streams, Known, Files
    <3> QED BY <1>3, <2>1, <2>2, <3>1 DEF MarkFits, Seen, Holds, Backed
  <2>4. sound /\ OneEach(names) => MarkKept(m, cur, s, q)
    BY <1>3, <2>1 DEF Holds, Promises, MarkKept
  <2> QED BY <1>2, <2>3, <2>4 DEF Holds, Promises, m
<1>4. CASE ~(s.acked > 0)
  <2>1. m = NoMark
    BY <1>4 DEF MarkOf
  <2> HIDE DEF m
  <2>2. MarkFits(m, names)
    <3>1. files \in Nat /\ MaxLen \in Nat /\ file.len \in Nat
      BY MirrorBounds DEF Known, Files
    <3> QED BY <2>1, <3>1 DEF MarkFits, NoMark
  <2>3. MarkKept(m, cur, s, q)
    BY <2>1 DEF MarkKept, NoMark
  <2> QED BY <1>2, <2>2, <2>3 DEF Holds, Promises, m
<1> QED BY <1>3, <1>4

(* The end of a quiesce.                                                   *)
LEMMA FinalizeFollows ==
  ASSUME NEW acks, NEW marks, Known(acks, marks), NEW sound, NEW names, NEW s, NEW q,
         Follows(acks, marks, s, q, names, sound), s.eofSent => s.closed,
         NEW n \in Finalize(s, file, q)
  PROVE  /\ Follows(acks, marks, n.stream, n.queue, names \cup NamedIn(n.queue), sound)
         /\ \/ (~Tracks(s) \/ Finished(s)) /\ n.stream = s /\ n.queue = q
            \/ Tracks(s) /\ file = NoFile /\ n.stream = Untracked
            \/ /\ Tracks(s) /\ LookedAt(n.stream) /\ file # NoFile
               /\ n.stream.eofSent => n.stream.closed /\ n.stream.sent = file.len
<1> DEFINE r == [s EXCEPT !.closed = TRUE]
<1>1. CASE ~Tracks(s) \/ Finished(s)
  <2>1. n = Tails(s, q)
    BY <1>1 DEF Finalize
  <2>2. n.stream = s /\ n.queue = q
    BY <2>1, Zenon DEF Tails
  <2>3. names \cup NamedIn(q) = names
    BY DEF Follows
  <2> QED BY <1>1, <2>2, <2>3
<1>2. CASE ~(~Tracks(s) \/ Finished(s))
  <2>1. Tracks(s) /\ n \in Drain(r, file, q) /\ ~s.eofSent
    BY <1>2 DEF Finalize, Finished
  <2>2. s \in Streams /\ Seen(s)
    BY <2>1, UntrackedIs DEF Follows, Placed
  <2>3. Altered(r, s) /\ r.closed /\ r.eofSent = s.eofSent
    BY <2>2, ClosedIs
  <2> HIDE DEF r
  <2>4. Follows(acks, marks, r, q, names, sound) /\ Tracks(r)
    BY <2>1, <2>3, AlteredFollows
  <2>5. /\ Follows(acks, marks, n.stream, n.queue, names \cup NamedIn(n.queue), sound)
        /\ NamedIn(q) \subseteq NamedIn(n.queue)
        /\ file = NoFile => n.stream = Untracked \/ (n.stream = r /\ Finished(r))
        /\ file # NoFile =>
             /\ LookedAt(n.stream)
             /\ n.stream.closed => r.closed
             /\ r.closed /\ r.ino = file.ino => n.stream.closed
             /\ n.stream.eofSent /\ ~r.eofSent => n.stream.closed /\ n.stream.sent = file.len
             /\ (r.eofSent => r.closed) => (n.stream.eofSent => n.stream.closed)
    BY <2>1, <2>4, DrainFollows, Zenon
  <2> QED BY <2>1, <2>3, <2>5 DEF Finished
<1> QED BY <1>1, <1>2

-----------------------------------------------------------------------------
(* What the store holds.                                                   *)

\* Bytes of files there have been, where those files have them.
DataFits(d) ==
  /\ Len(d) <= MaxLen
  /\ \A i \in DOMAIN d : d[i] \in 1..files /\ (d[i] = file.ino => i <= file.len)

StoreFits(st) ==
  /\ DataFits(st.data)
  /\ st.index.acked <= Len(st.data) /\ st.entry.acked <= Len(st.data)
  /\ st.entry.generation <= files /\ st.index.generation <= files

LEMMA StoreNumbers ==
  ASSUME NEW st \in Stores
  PROVE  /\ st.data \in Seq(Nat) /\ Len(st.data) \in Nat /\ DOMAIN st.data = 1..Len(st.data)
         /\ st.entry \in Entries /\ st.index \in Entries
         /\ st.entry.generation \in Nat /\ st.entry.acked \in Nat /\ st.entry.eof \in BOOLEAN
         /\ st.index.generation \in Nat /\ st.index.acked \in Nat
<1>1. st.data \in Seq(Nat) /\ st.entry \in Entries /\ st.index \in Entries
  BY DEF Stores
<1>2. Len(st.data) \in Nat /\ DOMAIN st.data = 1..Len(st.data)
  BY <1>1
<1> QED BY <1>1, <1>2 DEF Entries

LEMMA FreshIs ==
  ASSUME NEW c \in Chunks
  PROVE  Fresh(c) \in Entries /\ Fresh(c).generation = c.generation /\ Fresh(c).acked = 0
BY DEF Fresh, Entries, Chunks

(* A chunk that is admitted.                                               *)
LEMMA AdmittedFits ==
  ASSUME files \in Nat, NEW names, NEW st, Kept(st, names), StoreFits(st), NEW c \in Chunks, Fits(c),
         ~Obsolete(st, c), NEW a, a = Admitted(st, c)
  PROVE  /\ StoreFits(a) /\ a \in Stores /\ a.entry.generation = c.generation
         /\ a.index.generation >= st.index.generation
         /\ a.index.generation \in {st.index.generation, c.generation}
         /\ st.entry.generation = c.generation => a = st
         /\ ~Renews(st, c) => a.index = st.index /\ a.data = st.data
<1>1. st \in Stores
  BY DEF Kept
<1>2. /\ st.data \in Seq(Nat) /\ Len(st.data) \in Nat
      /\ st.entry \in Entries /\ st.index \in Entries
      /\ st.entry.generation \in Nat /\ st.index.generation \in Nat
  BY <1>1, StoreNumbers
<1>3. c.generation \in Nat \ {0} /\ c.generation <= files /\ MaxLen \in Nat
  BY MirrorBounds DEF Chunks, Fits
<1>4. a \in Stores /\ a.entry.generation = c.generation
  BY AdmittedKept DEF Kept
<1>5. st.index.generation <= st.entry.generation
  BY <1>2 DEF Kept, NoEntry
<1>6. CASE Renews(st, c)
  <2>1. a.data = <<>> /\ a.entry = Fresh(c) /\ a.index = Fresh(c) /\ c.generation > st.entry.generation
    BY <1>6 DEF Admitted, Renews
  <2>2. DataFits(a.data) /\ Len(a.data) = 0
    BY <1>3, <2>1 DEF DataFits
  <2>3. StoreFits(a)
    BY <1>3, <2>1, <2>2, FreshIs DEF StoreFits
  <2> QED BY <1>2, <1>3, <1>4, <1>5, <1>6, <2>1, <2>3, FreshIs
<1>7. CASE st.entry = NoEntry
  <2>1. ~Renews(st, c)
    BY <1>7 DEF Renews
  <2>2. a = [st EXCEPT !.entry = Fresh(c)]
    BY <1>7, <2>1 DEF Admitted
  <2>3. a.data = st.data /\ a.index = st.index /\ a.entry = Fresh(c)
    BY <1>1, <2>2 DEF Stores
  <2>4. st.entry.generation = 0
    BY <1>7 DEF NoEntry
  <2>5. StoreFits(a)
    BY <1>2, <1>3, <2>3, FreshIs DEF StoreFits
  <2> QED BY <1>2, <1>3, <1>4, <2>3, <2>4, <2>5
<1>8. CASE ~Renews(st, c) /\ st.entry # NoEntry
  <2>1. a = st
    BY <1>8 DEF Admitted
  <2> QED BY <1>2, <1>4, <2>1
<1> QED BY <1>6, <1>7, <1>8

LEMMA SuffixIs ==
  ASSUME NEW a \in Stores, NEW c \in Chunks, ~Gap(a, c), NEW u, u = Suffix(a, c)
  PROVE  /\ u \in Seq(Nat) /\ Len(u) \in Nat /\ DOMAIN u = 1..Len(u)
         /\ Len(u) = IF End(c) >= Len(a.data) THEN End(c) - Len(a.data) ELSE 0
         /\ \A i \in DOMAIN u : /\ Len(a.data) - c.offset + i \in DOMAIN c.data
                                /\ u[i] = c.data[Len(a.data) - c.offset + i]
<1> DEFINE m == Len(a.data) - c.offset + 1
           n == Len(c.data)
<1>1. c.data \in Seq(Nat) /\ c.offset \in Nat /\ Len(a.data) \in Nat /\ n \in Nat /\ End(c) = c.offset + n
  BY ChunkNumbers, StoreNumbers DEF End
<1>2. m \in Nat \ {0} /\ m <= Len(a.data) + 1 /\ n \in 0..Len(c.data)
  BY <1>1 DEF Gap
<1>3. u = SubSeq(c.data, m, n)
  BY DEF Suffix
<1>4. /\ u \in Seq(Nat)
      /\ \A i \in DOMAIN u : m + i - 1 \in DOMAIN c.data /\ u[i] = c.data[m + i - 1]
  <2> HIDE DEF m, n
  <2>1. /\ SubSeq(c.data, m, n) \in Seq(Nat)
        /\ \A i \in DOMAIN SubSeq(c.data, m, n) :
             /\ m + i - 1 \in DOMAIN c.data
             /\ SubSeq(c.data, m, n)[i] = c.data[m + i - 1]
    BY <1>1, <1>2, PartOf
  <2> QED BY <1>3, <2>1
<1>5. Len(u) = IF m <= n THEN n - m + 1 ELSE 0
  <2>1. \A i \in m..n : c.data[i] \in Nat
    BY <1>1, <1>2
  <2>2. m \in Int /\ n \in Int
    BY <1>1, <1>2
  <2> HIDE DEF m, n
  <2> QED BY <1>3, <2>1, <2>2, SubSeqProperties
<1>6. Len(u) = IF End(c) >= Len(a.data) THEN End(c) - Len(a.data) ELSE 0
  BY <1>1, <1>5
<1>7. Len(u) \in Nat /\ DOMAIN u = 1..Len(u)
  BY <1>4
<1>8. \A i \in DOMAIN u : m + i - 1 = Len(a.data) - c.offset + i
  BY <1>1, <1>7
<1> HIDE DEF m, n
<1> QED BY <1>4, <1>6, <1>7, <1>8

(* Any part of what is not stored yet, appended.                           *)
LEMMA LongerFits ==
  ASSUME files \in Nat, NEW a \in Stores, DataFits(a.data), NEW c \in Chunks, Fits(c), ~Gap(a, c),
         NEW v \in Seq(Nat), Len(v) <= Len(Suffix(a, c)), \A i \in DOMAIN v : v[i] = Suffix(a, c)[i],
         NEW d, d = a.data \o v
  PROVE  /\ DataFits(d) /\ d \in Seq(Nat) /\ Len(d) = Len(a.data) + Len(v)
         /\ Len(v) \in Nat
<1> DEFINE u == Suffix(a, c)
           n == Len(a.data)
<1>1. /\ u \in Seq(Nat) /\ Len(u) \in Nat /\ DOMAIN u = 1..Len(u)
      /\ Len(u) = IF End(c) >= n THEN End(c) - n ELSE 0
      /\ \A i \in DOMAIN u : n - c.offset + i \in DOMAIN c.data /\ u[i] = c.data[n - c.offset + i]
  BY SuffixIs
<1>2. a.data \in Seq(Nat) /\ n \in Nat /\ DOMAIN a.data = 1..n /\ n <= MaxLen /\ MaxLen \in Nat
  BY StoreNumbers, MirrorBounds DEF DataFits
<1>3. c.offset \in Nat /\ End(c) \in Nat /\ End(c) <= MaxLen
  BY ChunkNumbers DEF Fits
<1>4. Len(v) \in Nat /\ DOMAIN v = 1..Len(v) /\ Len(v) <= Len(u) /\ \A i \in DOMAIN v : v[i] = u[i]
  OBVIOUS
<1> HIDE DEF u, n
<1>5. /\ d \in Seq(Nat) /\ Len(d) = n + Len(v) /\ DOMAIN d = 1..(n + Len(v))
      /\ \A i \in 1..(n + Len(v)) : d[i] = IF i <= n THEN a.data[i] ELSE v[i - n]
  <2>1. /\ d \in Seq(Nat) /\ Len(d) = Len(a.data) + Len(v)
        /\ \A i \in 1..(Len(a.data) + Len(v)) :
             d[i] = IF i <= Len(a.data) THEN a.data[i] ELSE v[i - Len(a.data)]
    BY <1>2, ConcatProperties
  <2>2. DOMAIN d = 1..Len(d)
    BY <2>1
  <2> QED BY <2>1, <2>2 DEF n
<1>6. Len(d) <= MaxLen
  BY <1>1, <1>2, <1>3, <1>4, <1>5
<1>7. ASSUME NEW i \in DOMAIN d PROVE d[i] \in 1..files /\ (d[i] = file.ino => i <= file.len)
  <2>1. CASE i <= n
    <3>1. i \in DOMAIN a.data /\ d[i] = a.data[i]
      BY <1>2, <1>5, <2>1
    <3> QED BY <3>1 DEF DataFits
  <2>2. CASE ~(i <= n)
    <3> DEFINE h == i - n
               j == n - c.offset + h
    <3>1. h \in 1..Len(v) /\ d[i] = v[h] /\ c.offset + j = i
      <4>1. i \in 1..(n + Len(v)) /\ d[i] = IF i <= n THEN a.data[i] ELSE v[i - n]
        BY <1>5
      <4>2. n \in Nat /\ Len(v) \in Nat /\ c.offset \in Nat
        BY <1>2, <1>3, <1>4
      <4>3. d[i] = v[h]
        BY <2>2, <4>1
      <4>4. \A k, m, o \in Nat : \A x \in 1..(k + m) :
              ~(x <= k) => x - k \in 1..m /\ o + (k - o + (x - k)) = x
        OBVIOUS
      <4>5. h \in 1..Len(v) /\ c.offset + j = i
        BY <2>2, <4>1, <4>2, <4>4
      <4> QED BY <4>3, <4>5
    <3>2. h \in DOMAIN v /\ h \in DOMAIN u
      BY <1>1, <1>4, <3>1
    <3> HIDE DEF h
    <3>3. j \in DOMAIN c.data /\ d[i] = c.data[j]
      BY <1>1, <1>4, <3>1, <3>2
    <3> HIDE DEF j
    <3> QED BY <3>1, <3>3 DEF Fits
  <2> QED BY <2>1, <2>2
<1> QED BY <1>4, <1>5, <1>6, <1>7 DEF DataFits, n

\* What a step from st to st1 keeps of what has been promised.
Keeps(st, st1, g) ==
  st.entry.generation = g /\ st.index.generation = g =>
    /\ st1.entry.generation = g /\ st1.index.generation = g
    /\ st1.index.acked >= st.index.acked

LEMMA IngestFits ==
  ASSUME files \in Nat, NEW names, NEW st, Kept(st, names), StoreFits(st), NEW c \in Chunks, Fits(c),
         NEW r, r = Ingest(st, c)
  PROVE  /\ StoreFits(r) /\ r \in Stores /\ r.index.generation >= st.index.generation
         /\ r.index.generation \in {st.index.generation, c.generation}
         /\ \A g \in Nat \ {0} : c.generation <= g => Keeps(st, r, g)
         /\ Verdict(st, c) = "acked" =>
              /\ r.entry.generation = c.generation /\ r.index.generation = c.generation
              /\ r.index.acked = End(c)
         /\ Len(r.data) \in 0..MaxLen
<1>0. /\ st \in Stores /\ c.generation \in Nat \ {0} /\ End(c) \in Nat /\ c.offset \in Nat
      /\ MaxLen \in Nat /\ Len(st.data) \in Nat
      /\ st.index.generation \in Nat /\ st.entry.generation \in Nat /\ st.index.acked \in Nat
  BY ChunkNumbers, StoreNumbers, MirrorBounds DEF Kept
<1>1. CASE Verdict(st, c) = "obsolete"
  <2>1. r = st
    BY <1>1 DEF Ingest
  <2>2. \A g \in Nat \ {0} : Keeps(st, st, g)
    BY <1>0 DEF Keeps
  <2>3. Len(st.data) \in 0..MaxLen
    BY <1>0 DEF StoreFits, DataFits
  <2> QED BY <1>0, <1>1, <2>1, <2>2, <2>3
<1>2. CASE Verdict(st, c) # "obsolete"
  <2> DEFINE a == Admitted(st, c)
  <2>1. ~Obsolete(st, c)
    BY <1>2 DEF Verdict
  <2>2. /\ StoreFits(a) /\ a \in Stores /\ a.entry.generation = c.generation
        /\ a.index.generation >= st.index.generation
        /\ a.index.generation \in {st.index.generation, c.generation}
        /\ st.entry.generation = c.generation => a = st
    BY <2>1, AdmittedFits
  <2>3. /\ Verdict(st, c) = "acked" <=> ~Gap(a, c) /\ ~Duplicate(a, c)
    BY <2>1 DEF Verdict
  <2>4. Verdict(st, c) = "acked" => r = Appended(a, c)
    BY DEF Ingest
  <2>5. Verdict(st, c) # "acked" => r = Healed(a)
    BY <1>2 DEF Ingest
  <2>6. st.entry.generation <= c.generation
    BY <1>0, <2>1 DEF Obsolete
  <2> HIDE DEF a
  <2>7. /\ Len(a.data) \in Nat /\ a.data \in Seq(Nat) /\ a.index.generation \in Nat
        /\ a.index.acked \in Nat /\ a.entry \in Entries
    BY <2>2, StoreNumbers
  <2>8. CASE Verdict(st, c) = "acked"
    <3> DEFINE u == Suffix(a, c)
               d == a.data \o u
               e == [generation |-> a.entry.generation, acked |-> End(c), eof |-> c.eof]
    <3>1. ~Gap(a, c) /\ ~Duplicate(a, c) /\ r = Appended(a, c)
      BY <2>3, <2>4, <2>8
    <3>2. u \in Seq(Nat) /\ Len(u) = IF End(c) >= Len(a.data) THEN End(c) - Len(a.data) ELSE 0
      BY <2>2, <3>1, SuffixIs
    <3>3. End(c) >= Len(a.data)
      BY <1>0, <2>7, <3>1 DEF Gap, Duplicate, End
    <3>4. DataFits(d) /\ d \in Seq(Nat) /\ Len(d) = End(c)
      <4>1. DataFits(d) /\ d \in Seq(Nat) /\ Len(d) = Len(a.data) + Len(u)
        <5>1. Len(u) <= Len(u) /\ DataFits(a.data)
          BY <2>2, <3>2 DEF StoreFits
        <5> QED BY <2>2, <3>1, <3>2, <5>1, LongerFits
      <4> HIDE DEF u, d
      <4> QED BY <1>0, <2>7, <3>2, <3>3, <4>1
    <3>5. r = [data |-> d, entry |-> e, index |-> e]
      BY <3>1 DEF Appended
    <3>6. e \in Entries /\ e.generation = c.generation /\ e.acked = End(c)
      BY <1>0, <2>2 DEF Entries, Chunks
    <3> HIDE DEF u, d, e
    <3>7. r.data = d /\ r.entry = e /\ r.index = e /\ r \in Stores
      BY <3>4, <3>5, <3>6 DEF Stores
    <3>8. StoreFits(r) /\ Len(r.data) \in 0..MaxLen
      BY <1>0, <3>4, <3>6, <3>7 DEF StoreFits, DataFits, Fits
    <3>9. \A g \in Nat \ {0} : c.generation <= g => Keeps(st, r, g)
      <4> SUFFICES ASSUME NEW g \in Nat \ {0}, c.generation <= g,
                          st.entry.generation = g, st.index.generation = g
                   PROVE  /\ r.entry.generation = g /\ r.index.generation = g
                          /\ r.index.acked >= st.index.acked
        BY DEF Keeps
      <4>1. c.generation = g
        BY <1>0, <2>6
      <4>2. a = st
        BY <2>2, <4>1
      <4> QED BY <1>0, <3>3, <3>6, <3>7, <4>1, <4>2 DEF StoreFits
    <3>10. r.index.generation >= st.index.generation
      BY <1>0, <2>2, <2>6, <2>7, <3>6, <3>7 DEF Kept, NoEntry
    <3> QED BY <3>6, <3>7, <3>8, <3>9, <3>10
  <2>9. CASE Verdict(st, c) # "acked"
    <3> DEFINE e == [a.entry EXCEPT !.acked = Len(a.data)]
    <3>1. r = [a EXCEPT !.entry = e]
      BY <2>5, <2>9 DEF Healed
    <3>2. e \in Entries /\ e.generation = a.entry.generation /\ e.acked = Len(a.data)
      BY <2>7 DEF Entries
    <3> HIDE DEF e
    <3>3. r \in Stores /\ r.data = a.data /\ r.entry = e /\ r.index = a.index
      BY <2>2, <3>1, <3>2 DEF Stores
    <3>4. StoreFits(r) /\ Len(r.data) \in 0..MaxLen
      BY <1>0, <2>2, <2>7, <3>2, <3>3 DEF StoreFits, DataFits
    <3>5. \A g \in Nat \ {0} : c.generation <= g => Keeps(st, r, g)
      <4> SUFFICES ASSUME NEW g \in Nat \ {0}, c.generation <= g,
                          st.entry.generation = g, st.index.generation = g
                   PROVE  /\ r.entry.generation = g /\ r.index.generation = g
                          /\ r.index.acked >= st.index.acked
        BY DEF Keeps
      <4>1. c.generation = g
        BY <1>0, <2>6
      <4>2. a = st
        BY <2>2, <4>1
      <4> QED BY <1>0, <3>2, <3>3, <4>2
    <3> QED BY <2>2, <2>9, <3>3, <3>4, <3>5
  <2> QED BY <2>8, <2>9
<1> QED BY <1>1, <1>2

\* What of st may be on disk when the fleet ends; nothing of a generation
\* above k was on its way into it.
Survives(disk, st, names, k) ==
  /\ disk.data \in Seq(Nat) /\ disk.index \in Entries /\ DataFits(disk.data)
  /\ disk.index.generation <= files /\ disk.index.generation >= st.index.generation
  /\ \E g : Owed(disk.data, g, names)
  /\ \A g \in Nat \ {0} :
       k <= g /\ st.entry.generation = g /\ st.index.generation = g =>
         /\ disk.index.generation = g
         /\ disk.index.acked >= st.index.acked /\ disk.index.acked <= Len(disk.data)

LEMMA StoreSurvives ==
  ASSUME files \in Nat, NEW names, NEW st, Kept(st, names), StoreFits(st), NEW k
  PROVE  Survives(st, st, names, k)
<1>1. /\ st.data \in Seq(Nat) /\ st.index \in Entries /\ st.index.acked \in Nat
      /\ st.index.generation \in Nat
  BY StoreNumbers DEF Kept
<1>2. Owed(st.data, st.entry.generation, names)
  BY DEF Kept
<1> QED BY <1>1, <1>2 DEF Survives, StoreFits

LEMMA InterruptedSurvives ==
  ASSUME files \in Nat, NEW names, NEW st, Kept(st, names), StoreFits(st),
         NEW c \in Chunks, Fits(c), ChunkNamed(c, names), NEW disk \in Interrupted(st, c)
  PROVE  Survives(disk, st, names, c.generation)
<1> DEFINE a == Admitted(st, c)
<1>0. /\ st \in Stores /\ c.generation \in Nat \ {0} /\ MaxLen \in Nat
      /\ st.data \in Seq(Nat) /\ Len(st.data) \in Nat /\ st.index \in Entries
      /\ st.index.generation \in Nat /\ st.entry.generation \in Nat /\ st.index.acked \in Nat
  BY ChunkNumbers, StoreNumbers, MirrorBounds DEF Kept
<1>1. CASE disk = st
  BY <1>1, StoreSurvives
<1>2. ASSUME Renews(st, c), NEW g \in Nat, c.generation <= g PROVE st.entry.generation # g
  BY <1>0, <1>2 DEF Renews
<1>3. CASE Renews(st, c) /\ disk = [st EXCEPT !.data = <<>>]
  <2>1. disk.data = <<>> /\ disk.index = st.index
    BY <1>0, <1>3 DEF Stores
  <2>2. disk.data \in Seq(Nat) /\ DataFits(disk.data) /\ Owed(disk.data, 0, names)
    BY <1>0, <2>1 DEF DataFits, Owed
  <2> QED BY <1>0, <1>2, <1>3, <2>1, <2>2 DEF Survives, StoreFits
<1>4. CASE Renews(st, c) /\ disk = a
  <2>1. ~Obsolete(st, c)
    BY <1>0, <1>4 DEF Renews, Obsolete
  <2>2. StoreFits(a) /\ a \in Stores /\ a.index.generation >= st.index.generation
    BY <2>1, AdmittedFits
  <2>3. Owed(a.data, a.entry.generation, names)
    BY <2>1, AdmittedKept DEF Kept
  <2>4. a.data \in Seq(Nat) /\ a.index \in Entries
    BY <2>2, StoreNumbers
  <2> HIDE DEF a
  <2> QED BY <1>2, <1>4, <2>2, <2>3, <2>4 DEF Survives, StoreFits
<1>5. ASSUME Verdict(st, c) = "acked", NEW k \in 0..Len(Suffix(a, c)),
             disk = [a EXCEPT !.data = @ \o SubSeq(Suffix(a, c), 1, k)]
      PROVE  Survives(disk, st, names, c.generation)
  <2>1. ~Obsolete(st, c) /\ ~Gap(a, c)
    BY <1>5 DEF Verdict
  <2>2. /\ StoreFits(a) /\ a \in Stores /\ a.entry.generation = c.generation
        /\ a.index.generation >= st.index.generation
        /\ st.entry.generation = c.generation => a = st
    BY <2>1, AdmittedFits
  <2>3. Owed(a.data, c.generation, names)
    BY <2>1, AdmittedKept DEF Kept
  <2> HIDE DEF a
  <2>4. a.data \in Seq(Nat) /\ Len(a.data) \in Nat /\ a.index \in Entries /\ a.index.acked \in Nat
    BY <2>2, StoreNumbers
  <2> DEFINE x == Suffix(a, c)
             y == SubSeq(x, 1, k)
  <2>5. x \in Seq(Nat) /\ Owed(x, c.generation, names)
    BY <2>1, <2>2, SuffixOfOneFile
  <2>6. y \in Seq(Nat) /\ Len(y) <= Len(x) /\ \A i \in DOMAIN y : i \in DOMAIN x /\ y[i] = x[i]
    <3> HIDE DEF x
    <3>1. k \in 0..Len(x) /\ 1 \in Nat \ {0}
      BY <1>5 DEF x
    <3>2. /\ y \in Seq(Nat)
          /\ \A i \in DOMAIN y : 1 + i - 1 \in DOMAIN x /\ y[i] = x[1 + i - 1]
      BY <2>5, <3>1, PartOf
    <3>3. \A i \in DOMAIN y : 1 + i - 1 = i
      BY <3>2
    <3>4. Len(y) <= Len(x)
      BY <2>5, <3>1
    <3> HIDE DEF y
    <3> QED BY <3>2, <3>3, <3>4
  <2> DEFINE d == a.data \o y
  <2>7. Owed(y, c.generation, names)
    <3> HIDE DEF x, y
    <3> QED BY <2>5, <2>6 DEF Owed
  <2>8. DataFits(d) /\ d \in Seq(Nat) /\ Len(d) = Len(a.data) + Len(y) /\ Len(y) \in Nat
    <3> HIDE DEF y
    <3>1. \A i \in DOMAIN y : y[i] = Suffix(a, c)[i]
      BY <2>6
    <3> QED BY <2>1, <2>2, <2>6, <3>1, LongerFits DEF StoreFits
  <2>9. Owed(d, c.generation, names)
    <3> HIDE DEF y
    <3> QED BY <2>3, <2>4, <2>6, <2>7, ConcatOwed
  <2>10. disk = [a EXCEPT !.data = d]
    BY <1>5
  <2> HIDE DEF x, y, d
  <2>11. disk.data = d /\ disk.index = a.index
    BY <2>2, <2>10 DEF Stores
  <2>12. ASSUME NEW g \in Nat \ {0}, c.generation <= g, st.entry.generation = g, st.index.generation = g
         PROVE  /\ disk.index.generation = g
                /\ disk.index.acked >= st.index.acked /\ disk.index.acked <= Len(disk.data)
    <3>1. c.generation = g
      BY <1>0, <2>1, <2>12 DEF Obsolete
    <3>2. a = st
      BY <2>2, <2>12, <3>1
    <3> QED BY <1>0, <2>4, <2>8, <2>11, <2>12, <3>2 DEF StoreFits
  <2> QED BY <2>2, <2>4, <2>8, <2>9, <2>11, <2>12 DEF Survives, StoreFits
<1>6. CASE disk = Ingest(st, c)
  <2> DEFINE r == Ingest(st, c)
  <2>1. /\ StoreFits(r) /\ r \in Stores /\ r.index.generation >= st.index.generation
        /\ \A g \in Nat \ {0} : c.generation <= g => Keeps(st, r, g)
    BY IngestFits
  <2>2. Owed(r.data, r.entry.generation, names)
    BY IngestKept DEF Kept
  <2> HIDE DEF r
  <2>3. r.data \in Seq(Nat) /\ r.index \in Entries
    BY <2>1, StoreNumbers
  <2>4. disk = r
    BY <1>6 DEF r
  <2> QED BY <2>1, <2>2, <2>3, <2>4 DEF Survives, StoreFits, Keeps
<1> QED BY <1>1, <1>3, <1>4, <1>5, <1>6 DEF Interrupted

\* The files of more are among those of names.
Familiar(more, names) == \A z \in more : \E p \in names : p[2] = z[2]

(* What load() makes of it.                                                *)
LEMMA LoadedFits ==
  ASSUME files \in Nat, NEW names, NEW st \in Stores, NEW k, NEW disk, Survives(disk, st, names, k),
         NEW r, r = Loaded(disk)
  PROVE  /\ StoreFits(r) /\ r.index.generation >= st.index.generation
         /\ ~(Len(r.data) < disk.index.acked /\ disk.index.acked <= Len(disk.data)) =>
              \A g \in Nat \ {0} : k <= g => Keeps(st, r, g)
         /\ Familiar(NamedByLoad(disk, r), names)
<1> DEFINE n == Trusted(Len(disk.data), disk.index.acked)
           d == SubSeq(disk.data, 1, n)
           e == CASE disk.index # NoEntry -> [disk.index EXCEPT !.acked = n]
                  [] disk.index = NoEntry /\ disk.data = <<>> -> NoEntry
                  [] OTHER -> [generation |-> 1, acked |-> n, eof |-> FALSE]
<1>1. r = [data |-> d, entry |-> e, index |-> e]
  BY DEF Loaded
<1>2. /\ disk.data \in Seq(Nat) /\ Len(disk.data) \in Nat /\ DOMAIN disk.data = 1..Len(disk.data)
      /\ disk.index \in Entries
      /\ disk.index.acked \in Nat /\ disk.index.generation \in Nat /\ disk.index.generation <= files
      /\ DataFits(disk.data) /\ st.index.generation \in Nat /\ st.index.acked \in Nat
      /\ disk.index.generation >= st.index.generation
  BY StoreNumbers DEF Survives, Entries
<1>3. n \in 0..Len(disk.data)
  BY <1>2, TrustedBelow
<1>4. n \in Nat /\ n <= Len(disk.data)
  BY <1>2, <1>3
<1> HIDE DEF n
<1>5. d \in Seq(Nat) /\ Len(d) = n /\ DOMAIN d = 1..n /\ \A i \in DOMAIN d : i \in DOMAIN disk.data /\ d[i] = disk.data[i]
  <2>1. d \in Seq(Nat) /\ Len(d) = n
    BY <1>2, <1>4
  <2>2. DOMAIN d = 1..n /\ \A i \in 1..n : d[i] = disk.data[i] /\ i \in DOMAIN disk.data
    BY <1>2, <1>4
  <2> QED BY <2>1, <2>2
<1> HIDE DEF d
<1>6. DataFits(d)
  <2>1. Len(d) <= MaxLen
    BY <1>2, <1>4, <1>5, MirrorBounds DEF DataFits
  <2>2. \A i \in DOMAIN d : d[i] \in 1..files /\ (d[i] = file.ino => i <= file.len)
    BY <1>2, <1>5 DEF DataFits
  <2> QED BY <2>1, <2>2 DEF DataFits
<1>7. disk.data # <<>> => 1 <= files
  BY <1>2 DEF DataFits
<1>8. /\ e.acked = n /\ e.generation \in Nat /\ e.generation <= files
      /\ e.generation >= disk.index.generation
      /\ disk.index # NoEntry => e.generation = disk.index.generation
  <2>1. CASE disk.index # NoEntry
    <3>1. e = [disk.index EXCEPT !.acked = n]
      BY <2>1
    <3> HIDE DEF e
    <3> QED BY <1>2, <2>1, <3>1 DEF Entries
  <2>2. CASE disk.index = NoEntry /\ disk.data = <<>>
    <3>1. e = NoEntry
      BY <2>2
    <3> HIDE DEF e
    <3> QED BY <1>2, <1>4, <2>2, <3>1 DEF NoEntry
  <2>3. CASE disk.index = NoEntry /\ disk.data # <<>>
    <3>1. e = [generation |-> 1, acked |-> n, eof |-> FALSE]
      BY <2>3
    <3> HIDE DEF e
    <3> QED BY <1>2, <1>7, <2>3, <3>1 DEF NoEntry
  <2> QED BY <2>1, <2>2, <2>3
<1> HIDE DEF e
<1>9. r.data = d /\ r.entry = e /\ r.index = e
  BY <1>1
<1>10. StoreFits(r)
  BY <1>4, <1>5, <1>6, <1>8, <1>9 DEF StoreFits
<1>11. r.index.generation >= st.index.generation
  BY <1>2, <1>8, <1>9
<1>12. ASSUME ~(Len(r.data) < disk.index.acked /\ disk.index.acked <= Len(disk.data)),
              NEW g \in Nat \ {0}, k <= g, st.entry.generation = g, st.index.generation = g
       PROVE  /\ r.entry.generation = g /\ r.index.generation = g
              /\ r.index.acked >= st.index.acked
  <2>1. disk.index.generation = g /\ disk.index.acked >= st.index.acked /\ disk.index.acked <= Len(disk.data)
    BY <1>12 DEF Survives
  <2>2. disk.index # NoEntry
    BY <2>1 DEF NoEntry
  <2> QED BY <1>2, <1>4, <1>5, <1>8, <1>9, <1>12, <2>1, <2>2
<1>13. ASSUME NEW z \in NamedByLoad(disk, r) PROVE \E p \in names : p[2] = z[2]
  <2>1. d # <<>> /\ z = <<1, d[1]>>
    BY <1>9, <1>13 DEF NamedByLoad
  <2>2. 1 \in DOMAIN disk.data /\ d[1] = disk.data[1]
    BY <1>5, <2>1
  <2>3. PICK g : Owed(disk.data, g, names)
    BY DEF Survives
  <2>4. <<g, disk.data[1]>> \in names
    BY <2>2, <2>3 DEF Owed
  <2> QED BY <2>1, <2>2, <2>4
<1> QED BY <1>10, <1>11, <1>12, <1>13 DEF Keeps, Familiar

-----------------------------------------------------------------------------
(* The second invariant.                                                   *)

\* The acks on their way, of a batch p and the controls d.
Claims(p, d) ==
  {p} \cup {[offset |-> d[i].offset, generation |-> d[i].generation] :
              i \in {j \in DOMAIN d : d[j].type = "log_ack"}}

Saved == {sidecar, tailer.mark}

Sound == flaws \cap {"misread", "cut"} = {}

\* The file that is followed, or will be.
Current == IF tailer.life = "starting" THEN file.ino ELSE stream.ino

Held == Holds(Claims(pending, down), Saved, Current, stream, up, named, Sound)

Bounded ==
  /\ FileOK /\ StoreFits(store)
  /\ paired \in BOOLEAN /\ faults \in 0..MaxFaults /\ flaws \subseteq Flaws
  /\ pending.offset <= MaxLen /\ \A i \in DOMAIN down : down[i].offset <= MaxLen
  /\ tailer.assigned <= files /\ tailer.boundary \in {NoBoundary} \cup 0..MaxLen

\* A tailer that starts has nothing; one that runs finds only files it has not
\* read, and gives them a generation of their own.
Waits ==
  /\ tailer.life = "starting" => up = <<>> /\ stream = Untracked /\ tailer.assigned = 0
  /\ tailer.life # "starting" => Unread(stream, named)
  /\ file # NoFile /\ ~Tracks(stream) => tailer.assigned < file.ino

\* The end of a stream: what a quiesce has closed is the whole file, which is
\* written no more, and the boundary is its length.
Closing ==
  /\ stream.closed =>
       tailer.life = "quiesced" /\ Tracks(stream) /\ stream.ino = file.ino /\ stream.size = file.len
  /\ stream.eofSent => stream.closed
  /\ tailer.boundary # NoBoundary => tailer.life = "quiesced"
  /\ tailer.boundary > 0 /\ Tracks(stream) /\ "retried" \notin flaws =>
       stream.closed /\ tailer.boundary = file.len

SInv == IInv /\ Bounded /\ Waits /\ Held /\ Closing

LEMMA SInvKnows ==
  ASSUME SInv
  PROVE  /\ Known(Claims(pending, down), Saved)
         /\ stream \in Streams /\ up \in Seq(Chunks) /\ Kept(store, named) /\ tailer \in Tailers
<1>1. Claims(pending, down) \in SUBSET [offset: Nat, generation: Nat]
  <2>1. ASSUME NEW i \in DOMAIN down
        PROVE  [offset |-> down[i].offset, generation |-> down[i].generation] \in [offset: Nat, generation: Nat]
    <3>1. down[i] \in Answers
      BY DEF SInv, IInv, Typed
    <3> QED BY <3>1 DEF Answers
  <2>2. pending \in [offset: Nat, generation: Nat]
    BY DEF SInv, IInv, Typed, Acks
  <2> QED BY <2>1, <2>2 DEF Claims
<1>2. Saved \in SUBSET Marks
  BY DEF Saved, SInv, IInv, Typed, Tailers
<1> QED BY <1>1, <1>2 DEF Known, SInv, IInv, Typed, Bounded, Carried

LEMMA NoAckHolds ==
  ASSUME NEW acks, NEW marks, NEW cur, NEW s, NEW q, NEW names, NEW sound,
         Holds(acks, marks, cur, s, q, names, sound)
  PROVE  Holds(acks \cup {NoAck}, marks, cur, s, q, names, sound)
<1>1. AckKept(NoAck, cur, s, q, names)
  BY DEF AckKept, NoAck
<1> QED BY <1>1 DEF Holds, Promises

(* What holds of what a step leaves holds after it, if the file and the    *)
(* store stay.                                                             *)
LEMMA Assembled ==
  ASSUME NEW acks, NEW marks, NEW cur, NEW s, NEW q, NEW names, NEW sound,
         Holds(acks, marks, cur, s, q, names, sound),
         UNCHANGED <<file, files, store>>, stream' = s, up' = q, named' = names, Current' = cur,
         Claims(pending', down') \subseteq acks, {sidecar', tailer'.mark} \subseteq marks, Sound' => sound
  PROVE  Held'
<1>1. Holds(Claims(pending', down'), {sidecar', tailer'.mark}, cur, s, q, names, sound)
  BY WeakerHolds
<1>2. Placed(stream)'
  BY <1>1 DEF Holds, Placed, Seen
<1>3. Queued(up)'
  BY <1>1 DEF Holds, Queued, Fits
<1>4. Names(named)'
  BY <1>1 DEF Holds, Names
<1>5. (NamedIn(up) \subseteq named)'
  BY <1>1 DEF Holds
<1>6. (\A m \in Saved : MarkFits(m, named))'
  BY <1>1 DEF Holds, MarkFits, Saved
<1>7. Backed(stream, named)'
  BY <1>1 DEF Holds, Backed
<1>8. Traced(stream, up, named)'
  BY <1>1 DEF Holds, Traced
<1>9. Promises(Claims(pending, down), Saved, Current, stream, up, named, Sound)'
  <2>1. ASSUME Sound', OneEach(named)'
        PROVE  /\ \A a \in Claims(pending', down') : AckKept(a, Current, stream, up, named)'
               /\ \A m \in {sidecar', tailer'.mark} : MarkKept(m, Current, stream, up)'
               /\ (stream.acked > 0 => Vouched(stream.generation, stream.acked, stream.ino, Current, stream, up))'
    <3>1. OneEach(names)
      BY <2>1 DEF OneEach
    <3>2. /\ \A a \in Claims(pending', down') : AckKept(a, cur, s, q, names)
          /\ \A m \in {sidecar', tailer'.mark} : MarkKept(m, cur, s, q)
          /\ s.acked > 0 => Vouched(s.generation, s.acked, s.ino, cur, s, q)
      BY <1>1, <2>1, <3>1 DEF Holds, Promises
    <3>3. ASSUME NEW a \in Claims(pending', down') PROVE AckKept(a, Current, stream, up, named)'
      BY <3>2 DEF AckKept, Vouched, Honoured
    <3>4. ASSUME NEW m \in {sidecar', tailer'.mark} PROVE MarkKept(m, Current, stream, up)'
      BY <3>2 DEF MarkKept, Vouched, Honoured
    <3>5. (stream.acked > 0 => Vouched(stream.generation, stream.acked, stream.ino, Current, stream, up))'
      BY <3>2 DEF Vouched, Honoured
    <3> QED BY <3>3, <3>4, <3>5
  <2> QED BY <2>1 DEF Promises, Saved
<1> QED BY <1>2, <1>3, <1>4, <1>5, <1>6, <1>7, <1>8, <1>9 DEF Held, Holds

LEMMA BoundedStays ==
  ASSUME Bounded, UNCHANGED <<file, files, store, pending>>, paired' \in BOOLEAN, faults' \in 0..MaxFaults,
         flaws' \subseteq Flaws, \A i \in DOMAIN down' : down'[i].offset <= MaxLen,
         tailer'.assigned <= files, tailer'.boundary \in {NoBoundary} \cup 0..MaxLen
  PROVE  Bounded'
<1>1. FileOK' /\ StoreFits(store)'
  BY DEF Bounded, FileOK, StoreFits, DataFits
<1> QED BY <1>1 DEF Bounded

LEMMA SendsIs ==
  ASSUME flaws \subseteq Flaws, NEW tail, NEW more, more \subseteq Flaws, Sends(tail, more)
  PROVE  /\ stream' = tail.stream /\ up' = tail.queue /\ named' = named \cup NamedIn(tail.queue)
         /\ flaws' \subseteq Flaws /\ flaws \cup more \subseteq flaws'
         /\ Sound' => Sound
<1>1. /\ stream' = tail.stream /\ up' = tail.queue /\ named' = named \cup NamedIn(tail.queue)
      /\ flaws' = flaws \cup more \cup Reuse(named')
  BY DEF Sends
<1>2. \A names : Reuse(names) \subseteq Flaws
  BY DEF Reuse, Flaws
<1> QED BY <1>1, <1>2 DEF Sound

\* What a step of the tailer on its own leaves of the end of its stream.
Ends ==
  /\ stream'.closed => stream.closed
  /\ (stream.eofSent => stream.closed) => (stream'.eofSent => stream'.closed)

(* A scan.                                                                 *)
LEMMA ScanFinds ==
  ASSUME SInv,
         NEW tail \in (IF Tracks(Discovered) THEN Drain(Discovered, file, up) ELSE {Tails(Discovered, up)})
  PROVE  /\ Follows(Claims(pending, down), Saved, tail.stream, tail.queue, named \cup NamedIn(tail.queue), Sound)
         /\ file # NoFile => Tracks(tail.stream)
         /\ tail.stream.closed => stream.closed
         /\ (stream.eofSent => stream.closed) => (tail.stream.eofSent => tail.stream.closed)
         /\ Found => Discovered.generation <= files
<1> DEFINE acks == Claims(pending, down)
           marks == Saved
<1>0. /\ Known(acks, marks) /\ stream \in Streams /\ tailer \in Tailers
      /\ Holds(acks, marks, Current, stream, up, named, Sound)
      /\ stream = Untracked \/ Tracks(stream)
  BY SInvKnows DEF SInv, Held, Holds, Placed
<1> HIDE DEF acks, marks
<1>1. CASE Tracks(stream)
  <2>1. tailer.life # "starting"
    BY <1>1, UntrackedIs DEF SInv, Waits
  <2>2. Current = stream.ino /\ Unread(stream, named)
    BY <2>1 DEF Current, SInv, Waits
  <2>3. Follows(acks, marks, stream, up, named, Sound)
    BY <1>0, <2>2, FollowsIs
  <2>4. ~Found /\ Discovered = stream
    BY <1>1 DEF Found, Discovered
  <2>5. tail \in Drain(stream, file, up)
    BY <1>1, <2>4
  <2>6. /\ Follows(acks, marks, tail.stream, tail.queue, named \cup NamedIn(tail.queue), Sound)
        /\ Goes(stream, tail.stream)
    BY <1>0, <1>1, <2>3, <2>5, DrainGoes
  <2> QED BY <2>4, <2>6 DEF Goes, LookedAt, acks, marks
<1>2. CASE ~Tracks(stream) /\ file = NoFile
  <2>1. stream = Untracked /\ ~Found /\ Discovered = stream
    BY <1>0, <1>2 DEF Found, Discovered
  <2>2. tail = Tails(stream, up)
    BY <1>2, <2>1
  <2>3. tail.stream = stream /\ tail.queue = up
    BY <2>2, Zenon DEF Tails
  <2>4. Current = stream.ino
    BY <1>2, <2>1, UntrackedIs DEF Current, NoFile
  <2>5. Unread(stream, named)
    BY <1>2 DEF Unread
  <2>6. Follows(acks, marks, stream, up, named, Sound)
    BY <1>0, <2>4, <2>5, FollowsIs
  <2>7. named \cup NamedIn(up) = named
    BY <2>6 DEF Follows
  <2> QED BY <1>2, <2>1, <2>3, <2>6, <2>7 DEF acks, marks
<1>3. CASE ~Tracks(stream) /\ file # NoFile
  <2> DEFINE a == tailer.assigned
             m == tailer.mark
             s == Track(a, m)
             w == Looked(s, file)
  <2>1. stream = Untracked /\ Found /\ Discovered = s
    BY <1>0, <1>3 DEF Found, Discovered
  <2>2. a \in Nat /\ m \in Marks /\ m \in marks /\ a < file.ino
    BY <1>0, <1>3 DEF Tailers, Saved, marks, SInv, Waits
  <2>3. (up = <<>> /\ Current = file.ino /\ a = 0) \/ Unread(Untracked, named)
    BY <2>1 DEF SInv, Waits, Current
  <2>4. Tracks(s) /\ ~s.closed /\ ~s.eofSent /\ s.generation = NextGeneration(a, m)
    BY <2>2, TrackIs
  <2>5. tail \in Drain(s, file, up)
    BY <2>1, <2>4
  <2> HIDE DEF a, m
  <2>6. tail \in Sent(w, up)
    BY <1>3, <2>5 DEF Drain
  <2>7. Follows(acks, marks, w, up, named, Sound) /\ Begun(w, a, m) /\ NextGeneration(a, m) <= file.ino
    BY <1>0, <1>3, <2>1, <2>2, <2>3, FoundFollows
  <2>8. LookedAt(w) /\ ~w.closed /\ ~w.eofSent
    BY <2>7 DEF Begun
  <2>9. s.generation <= files
    BY <1>0, <1>3, <2>4, <2>7 DEF Known, FileOK
  <2> HIDE DEF w, s
  <2>10. /\ Follows(acks, marks, tail.stream, tail.queue, named \cup NamedIn(tail.queue), Sound)
         /\ LookedAt(tail.stream) /\ tail.stream.closed = w.closed
         /\ tail.stream.eofSent => w.eofSent \/ (w.closed /\ tail.stream.sent = file.len)
    BY <1>0, <2>6, <2>7, <2>8, SentFollows
  <2> QED BY <2>1, <2>8, <2>9, <2>10 DEF LookedAt, acks, marks
<1> QED BY <1>1, <1>2, <1>3

LEMMA ScanHolds ==
  ASSUME SInv, Scan, UNCHANGED <<file, files, store, sidecar, pending, down>>
  PROVE  /\ Held' /\ Waits' /\ Ends
         /\ tailer'.assigned <= files /\ tailer'.boundary = tailer.boundary /\ tailer'.life = "running"
         /\ flaws' \subseteq Flaws /\ flaws \subseteq flaws'
<1> DEFINE acks == Claims(pending, down)
           more == IF Found THEN Discovered.generation ELSE tailer.assigned
<1>1. PICK tail \in (IF Tracks(Discovered) THEN Drain(Discovered, file, up)
                      ELSE {Tails(Discovered, up)}) :
           \E next \in CheckRing(tail, file) :
              Sends(next, IF Overflows(tail.stream) THEN {"rewound"} ELSE {})
  BY DEF Scan
<1>2. PICK next \in CheckRing(tail, file) :
              Sends(next, IF Overflows(tail.stream) THEN {"rewound"} ELSE {})
  BY <1>1
<1>3. /\ Follows(acks, Saved, tail.stream, tail.queue, named \cup NamedIn(tail.queue), Sound)
      /\ file # NoFile => Tracks(tail.stream)
      /\ tail.stream.closed => stream.closed
      /\ (stream.eofSent => stream.closed) => (tail.stream.eofSent => tail.stream.closed)
      /\ Found => Discovered.generation <= files
  BY <1>1, ScanFinds
<1>4. Known(acks, Saved) /\ tailer \in Tailers
  BY SInvKnows
<1> HIDE DEF acks
<1>5. /\ Follows(acks, Saved, next.stream, next.queue, named \cup NamedIn(next.queue), Sound)
      /\ next = tail \/ (Tracks(tail.stream) /\ Goes(tail.stream, next.stream))
  BY <1>2, <1>3, <1>4, CheckRingFollows
<1>6. /\ file # NoFile => Tracks(next.stream)
      /\ next.stream.closed => stream.closed
      /\ (stream.eofSent => stream.closed) => (next.stream.eofSent => next.stream.closed)
  BY <1>3, <1>5 DEF Goes, LookedAt
<1>7. /\ stream' = next.stream /\ up' = next.queue /\ named' = named \cup NamedIn(next.queue)
      /\ flaws' \subseteq Flaws /\ flaws \subseteq flaws' /\ (Sound' => Sound)
  <2> DEFINE why == IF Overflows(tail.stream) THEN {"rewound"} ELSE {}
  <2>1. why \subseteq Flaws /\ flaws \subseteq Flaws /\ Sends(next, why)
    BY <1>2 DEF Flaws, SInv, Bounded
  <2> HIDE DEF why
  <2> QED BY <2>1, SendsIs
<1>8. tailer' = [tailer EXCEPT !.life = "running", !.assigned = more]
  BY DEF Scan
<1>9. more <= files
  BY <1>3 DEF SInv, Bounded
<1> HIDE DEF more
<1>10. /\ tailer'.life = "running" /\ tailer'.assigned = more /\ tailer'.mark = tailer.mark
       /\ tailer'.boundary = tailer.boundary
  BY <1>4, <1>8 DEF Tailers
<1>11. Current' = stream'.ino
  BY <1>10 DEF Current
<1>12. Held'
  <2> DEFINE s == next.stream
             q == next.queue
             names == named \cup NamedIn(q)
  <2>1. Holds(acks, Saved, s.ino, s, q, names, Sound) /\ stream' = s /\ up' = q /\ named' = names
    BY <1>5, <1>7, FollowsIs
  <2> HIDE DEF s, q, names
  <2>2. Claims(pending', down') \subseteq acks /\ {sidecar', tailer'.mark} \subseteq Saved
    BY <1>10 DEF acks, Saved
  <2>3. Current' = s.ino
    BY <1>11, <2>1
  <2> QED BY <1>7, <2>1, <2>2, <2>3, Assembled
<1>13. Waits'
  <2>1. Unread(next.stream, named \cup NamedIn(next.queue))
    BY <1>5 DEF Follows
  <2>2. Unread(stream, named)'
    BY <1>7, <2>1 DEF Unread
  <2> QED BY <1>6, <1>7, <1>10, <2>2 DEF Waits
<1> QED BY <1>6, <1>7, <1>9, <1>10, <1>12, <1>13 DEF Ends

\* A step before the quiesce has no end to see to.
LEMMA ClosingStays ==
  ASSUME Closing, tailer.life # "quiesced", Ends, tailer'.boundary = tailer.boundary
  PROVE  Closing'
<1>1. ~stream.closed /\ ~stream.eofSent /\ tailer.boundary = NoBoundary
  BY DEF Closing
<1>2. ~stream'.closed /\ ~stream'.eofSent /\ tailer'.boundary = NoBoundary
  BY <1>1 DEF Ends
<1> QED BY <1>2 DEF Closing, NoBoundary

LEMMA TickSteady ==
  ASSUME SInv, Tick
  PROVE  SInv'
<1>1. /\ Scan /\ tailer.life = "running"
      /\ UNCHANGED <<file, files, sidecar, paired, store, pending, down, faults>>
  BY DEF Tick
<1>2. /\ Held' /\ Waits' /\ Ends
      /\ tailer'.assigned <= files /\ tailer'.boundary = tailer.boundary /\ tailer'.life = "running"
      /\ flaws' \subseteq Flaws /\ flaws \subseteq flaws'
  BY <1>1, ScanHolds
<1>3. Bounded'
  BY <1>1, <1>2, BoundedStays DEF SInv, Bounded
<1>4. Closing'
  BY <1>1, <1>2, ClosingStays DEF SInv
<1> QED BY <1>2, <1>3, <1>4, TickKeeps DEF SInv

LEMMA PairUpSteady ==
  ASSUME SInv, PairUp
  PROVE  SInv'
<1>1. UNCHANGED <<file, files, sidecar, store, pending, down, faults>> /\ paired' = TRUE
  BY DEF PairUp
<1>2. CASE tailer.life = "starting" /\ Scan
  <2>1. /\ Held' /\ Waits' /\ Ends
        /\ tailer'.assigned <= files /\ tailer'.boundary = tailer.boundary /\ tailer'.life = "running"
        /\ flaws' \subseteq Flaws /\ flaws \subseteq flaws'
    BY <1>1, <1>2, ScanHolds
  <2>2. Bounded'
    BY <1>1, <2>1, BoundedStays DEF SInv, Bounded
  <2>3. Closing'
    BY <1>2, <2>1, ClosingStays DEF SInv
  <2> QED BY <2>1, <2>2, <2>3, PairUpKeeps DEF SInv
<1>3. CASE UNCHANGED <<stream, up, tailer, flaws, named>>
  <2>1. Bounded'
    BY <1>1, <1>3, BoundedStays DEF SInv, Bounded
  <2>2. Held'
    <3>1. Current' = Current /\ (Sound' => Sound)
      BY <1>1, <1>3 DEF Current, Sound
    <3>2. Claims(pending', down') \subseteq Claims(pending, down) /\ {sidecar', tailer'.mark} \subseteq Saved
      BY <1>1, <1>3 DEF Saved
    <3> QED BY <1>1, <1>3, <3>1, <3>2, Assembled DEF SInv, Held
  <2>3. Waits' /\ Closing'
    BY <1>1, <1>3 DEF SInv, Waits, Unread, Closing
  <2> QED BY <2>1, <2>2, <2>3, PairUpKeeps DEF SInv
<1> QED BY <1>2, <1>3 DEF PairUp

LEMMA ControlTaken ==
  ASSUME SInv, down # <<>>, down' = Tail(down)
  PROVE  /\ Head(down) \in Answers /\ Head(down).offset <= MaxLen
         /\ Head(down).type = "log_ack" =>
              [offset |-> Head(down).offset, generation |-> Head(down).generation] \in Claims(pending, down)
         /\ Claims(pending, down') \subseteq Claims(pending, down)
         /\ \A i \in DOMAIN down' : down'[i].offset <= MaxLen
<1>1. down \in Seq(Answers) /\ \A i \in DOMAIN down : down[i].offset <= MaxLen
  BY DEF SInv, IInv, Typed, Bounded
<1>2. 1 \in DOMAIN down /\ Head(down) = down[1] /\ down[1] \in Answers
  BY <1>1
<1>3. \A i \in DOMAIN down' : i + 1 \in DOMAIN down /\ down'[i] = down[i + 1]
  BY <1>1
<1>4. Claims(pending, down') \subseteq Claims(pending, down)
  BY <1>3 DEF Claims
<1>5. Head(down).type = "log_ack" =>
        [offset |-> Head(down).offset, generation |-> Head(down).generation] \in Claims(pending, down)
  BY <1>2 DEF Claims
<1> QED BY <1>1, <1>2, <1>3, <1>4, <1>5

\* A tailer that has a stream has started, and follows it.
LEMMA Started ==
  ASSUME SInv, Tracks(stream)
  PROVE  /\ tailer.life # "starting" /\ Current = stream.ino
         /\ Follows(Claims(pending, down), Saved, stream, up, named, Sound)
<1>1. tailer.life # "starting"
  BY UntrackedIs DEF SInv, Waits
<1>2. Current = stream.ino /\ Unread(stream, named)
  BY <1>1 DEF Current, SInv, Waits
<1> QED BY <1>1, <1>2, FollowsIs DEF SInv, Held

LEMMA TakeGapSteady ==
  ASSUME SInv, TakeGap
  PROVE  SInv'
<1> DEFINE acks == Claims(pending, down)
<1>1. /\ down # <<>> /\ down' = Tail(down)
      /\ UNCHANGED <<file, files, tailer, sidecar, paired, store, pending, faults>>
  BY DEF TakeGap
<1>2. PICK tail \in RepairRange(stream, Head(down).offset, file, up) : Sends(tail, {})
  BY DEF TakeGap
<1>3. /\ stream' = tail.stream /\ up' = tail.queue /\ named' = named \cup NamedIn(tail.queue)
      /\ flaws' \subseteq Flaws /\ flaws \subseteq flaws' /\ (Sound' => Sound)
  <2>1. {} \subseteq Flaws /\ flaws \subseteq Flaws
    BY DEF SInv, Bounded
  <2> QED BY <1>2, <2>1, SendsIs
<1>4. /\ Head(down) \in Answers /\ Claims(pending, down') \subseteq acks
      /\ \A i \in DOMAIN down' : down'[i].offset <= MaxLen
  BY <1>1, ControlTaken
<1>5. Head(down).offset \in Nat
  BY <1>4 DEF Answers
<1>6. Known(acks, Saved)
  BY SInvKnows
<1>7. Bounded'
  BY <1>1, <1>3, <1>4, BoundedStays DEF SInv, Bounded
<1>8. CASE ~Tracks(stream)
  <2>1. tail = Tails(stream, up)
    BY <1>2, <1>8 DEF RepairRange
  <2>2. tail.stream = stream /\ tail.queue = up
    BY <2>1, Zenon DEF Tails
  <2>3. named' = named /\ stream' = stream /\ up' = up
    BY <1>3, <2>2 DEF SInv, Held, Holds
  <2>4. Current' = Current
    BY <1>1, <2>3 DEF Current
  <2>5. Held'
    <3>1. {sidecar', tailer'.mark} \subseteq Saved /\ Claims(pending', down') \subseteq acks
      BY <1>1, <1>4 DEF Saved
    <3>2. Holds(acks, Saved, Current, stream, up, named, Sound)
      BY DEF SInv, Held
    <3> HIDE DEF acks
    <3> QED BY <1>1, <1>3, <2>3, <2>4, <3>1, <3>2, Assembled
  <2>6. Waits' /\ Closing'
    BY <1>1, <1>3, <2>3 DEF SInv, Waits, Unread, Closing
  <2> QED BY <1>7, <2>5, <2>6, TakeGapKeeps DEF SInv
<1>9. CASE Tracks(stream)
  <2> DEFINE s == tail.stream
             q == tail.queue
             names == named \cup NamedIn(q)
  <2>1. tailer.life # "starting" /\ Follows(acks, Saved, stream, up, named, Sound)
    BY <1>9, Started
  <2> HIDE DEF acks
  <2>2. Follows(acks, Saved, s, q, names, Sound) /\ (s = stream \/ Goes(stream, s))
    BY <1>2, <1>5, <1>6, <2>1, RepairRangeFollows
  <2>3. Holds(acks, Saved, s.ino, s, q, names, Sound) /\ stream' = s /\ up' = q /\ named' = names
        /\ Unread(s, names)
    BY <1>3, <2>2, FollowsIs
  <2> HIDE DEF s, q, names
  <2>4. Current' = s.ino
    BY <1>1, <2>1, <2>3 DEF Current
  <2>5. Held'
    <3>1. {sidecar', tailer'.mark} \subseteq Saved /\ Claims(pending', down') \subseteq acks
      BY <1>1, <1>4 DEF Saved, acks
    <3> QED BY <1>1, <1>3, <2>3, <2>4, <3>1, Assembled
  <2>6. Waits'
    <3>1. Unread(stream, named)'
      BY <1>1, <2>3 DEF Unread
    <3>2. file # NoFile => Tracks(s)
      BY <1>9, <2>2 DEF Goes, LookedAt
    <3> QED BY <1>1, <2>1, <2>3, <3>1, <3>2 DEF Waits
  <2>7. Closing'
    <3>1. CASE s = stream
      BY <1>1, <1>3, <2>3, <3>1 DEF SInv, Closing
    <3>2. CASE Goes(stream, s)
      <4>1. stream.closed => file # NoFile
        <5>1. stream.closed => stream.ino = file.ino
          BY DEF SInv, Closing
        <5>2. stream.ino # 0
          BY <1>9, UntrackedIs, <2>1 DEF Follows, Placed, Seen
        <5> QED BY <5>1, <5>2 DEF NoFile
      <4>2. s.closed => stream.closed /\ LookedAt(s)
        BY <3>2, <4>1 DEF Goes
      <4>3. stream.closed => s.closed
        BY <3>2, <4>1 DEF Goes, SInv, Closing
      <4>4. s.eofSent => s.closed
        BY <3>2 DEF Goes, SInv, Closing
      <4> QED BY <1>1, <1>3, <1>9, <2>3, <4>2, <4>3, <4>4 DEF SInv, Closing, LookedAt
    <3> QED BY <2>2, <3>1, <3>2
  <2> QED BY <1>7, <2>5, <2>6, <2>7, TakeGapKeeps DEF SInv
<1> QED BY <1>8, <1>9

\* What an ack that is heeded leaves.
LEMMA AckTaken ==
  ASSUME SInv, TakeAck, Heeds(stream, Head(down).offset)
  PROVE  \E s, q, sound :
           /\ Follows(Claims(pending, down), Saved, s, q, named \cup NamedIn(q), sound)
           /\ stream' = s /\ up' = q /\ named' = named \cup NamedIn(q)
           /\ flaws' \subseteq Flaws /\ flaws \subseteq flaws' /\ (Sound' => sound)
           /\ \/ /\ Tracks(s) /\ s.closed = stream.closed /\ s.eofSent = stream.eofSent
                 /\ s.ino = stream.ino /\ s.size = stream.size
              \/ tailer.life = "running" /\ (file # NoFile => Tracks(s))
                 /\ (s.closed => stream.closed)
                 /\ ((stream.eofSent => stream.closed) => (s.eofSent => s.closed))
<1> DEFINE acks == Claims(pending, down)
           m == Head(down)
           k == [offset |-> m.offset, generation |-> m.generation]
           r == Acknowledged(stream, m.offset)
           advanced == r.acked > stream.acked
           why == IF advanced /\ m.generation # stream.generation THEN {"misread"} ELSE {}
           sound == Sound /\ (k.offset > stream.acked => k.generation = stream.generation)
<1>1. down # <<>> /\ down' = Tail(down) /\ m.type = "log_ack"
  BY DEF TakeAck
<1>2. m \in Answers /\ k \in acks /\ Known(acks, Saved) /\ stream \in Streams
  BY <1>1, ControlTaken, SInvKnows
<1>3. PICK tail \in (IF tailer.life = "running" THEN Drain(r, file, up) ELSE {Tails(r, up)}) :
        Sends(tail, why)
  BY DEF TakeAck
<1>4. Tracks(stream) /\ m.offset <= stream.sent /\ m.offset \in Nat
  BY <1>2 DEF Heeds, Answers
<1>5. Follows(acks, Saved, stream, up, named, Sound)
  BY <1>4, Started
<1>6. why \subseteq Flaws /\ flaws \subseteq Flaws
  BY DEF Flaws, SInv, Bounded
<1>7. k.offset = m.offset /\ k.generation = m.generation
  OBVIOUS
<1>8. k.offset > stream.acked => r.acked = k.offset
  <2>1. stream \in Streams /\ m.offset \in Nat /\ r = Acknowledged(stream, m.offset)
    BY <1>2, <1>4
  <2>2. stream.acked \in Nat
    BY <2>1 DEF Streams
  <2> HIDE DEF r, k
  <2>3. (m.offset > stream.acked /\ r.acked = m.offset) \/ (m.offset <= stream.acked /\ r.acked = stream.acked)
    BY <2>1, AcknowledgedIs
  <2> QED BY <1>4, <1>7, <2>2, <2>3
<1>9. (why \subseteq flaws' /\ (Sound' => Sound)) => (Sound' => sound)
  <2> SUFFICES ASSUME why \subseteq flaws', Sound', k.offset > stream.acked, k.generation # stream.generation
               PROVE  FALSE
    OBVIOUS
  <2>1. advanced
    BY <1>8
  <2>2. "misread" \in flaws'
    BY <1>7, <2>1
  <2> QED BY <2>2 DEF Sound
<1>10. /\ Follows(acks, Saved, r, up, named, sound) /\ Tracks(r)
       /\ r.ino = stream.ino /\ r.size = stream.size /\ r.closed = stream.closed /\ r.eofSent = stream.eofSent
  <2>1. r = Acknowledged(stream, k.offset) /\ k.offset <= stream.sent
    BY <1>4, <1>7
  <2>2. sound => Sound /\ (k.offset > stream.acked => k.generation = stream.generation)
    OBVIOUS
  <2> HIDE DEF acks, k, r, sound
  <2> QED BY <1>2, <1>4, <1>5, <2>1, <2>2, AckFollows
<1> HIDE DEF acks, m, k, r, why, sound
<1>11. /\ stream' = tail.stream /\ up' = tail.queue /\ named' = named \cup NamedIn(tail.queue)
       /\ flaws' \subseteq Flaws /\ flaws \cup why \subseteq flaws' /\ (Sound' => Sound)
  BY <1>3, <1>6, SendsIs
<1>12. flaws \subseteq flaws' /\ (Sound' => sound)
  BY <1>9, <1>11
<1>13. CASE tailer.life = "running"
  <2>1. tail \in Drain(r, file, up)
    BY <1>3, <1>13
  <2>2. /\ Follows(acks, Saved, tail.stream, tail.queue, named \cup NamedIn(tail.queue), sound)
        /\ Goes(r, tail.stream)
    BY <1>2, <1>10, <2>1, DrainGoes
  <2>3. /\ file # NoFile => Tracks(tail.stream)
        /\ tail.stream.closed => stream.closed
        /\ (stream.eofSent => stream.closed) => (tail.stream.eofSent => tail.stream.closed)
    BY <1>10, <2>2 DEF Goes, LookedAt
  <2> QED BY <1>11, <1>12, <1>13, <2>2, <2>3 DEF acks
<1>14. CASE tailer.life # "running"
  <2>1. tail = Tails(r, up)
    BY <1>3, <1>14
  <2>2. tail.stream = r /\ tail.queue = up
    BY <2>1, Zenon DEF Tails
  <2>3. named \cup NamedIn(up) = named
    BY <1>5 DEF Follows
  <2>4. Follows(acks, Saved, tail.stream, tail.queue, named \cup NamedIn(tail.queue), sound)
    BY <1>10, <2>2, <2>3
  <2> QED BY <1>10, <1>11, <1>12, <2>2, <2>4 DEF acks
<1> QED BY <1>13, <1>14

LEMMA TakeAckSteady ==
  ASSUME SInv, TakeAck
  PROVE  SInv'
<1> DEFINE acks == Claims(pending, down)
           m == Head(down)
           due == tailer.timer \/ (tailer.life = "running"
                    /\ (IF Heeds(stream, m.offset) THEN Acknowledged(stream, m.offset) ELSE stream).acked
                         > stream.acked)
<1>1. /\ down # <<>> /\ down' = Tail(down)
      /\ UNCHANGED <<file, files, sidecar, paired, store, pending, faults>>
      /\ tailer' = [tailer EXCEPT !.timer = due]
  BY DEF TakeAck
<1>2. /\ Claims(pending, down') \subseteq acks
      /\ \A i \in DOMAIN down' : down'[i].offset <= MaxLen
  BY <1>1, ControlTaken
<1> HIDE DEF due
<1>3. /\ tailer'.life = tailer.life /\ tailer'.mark = tailer.mark
      /\ tailer'.assigned = tailer.assigned /\ tailer'.boundary = tailer.boundary
  BY <1>1, SInvKnows DEF Tailers
<1>4. {sidecar', tailer'.mark} \subseteq Saved /\ Claims(pending', down') \subseteq acks
  BY <1>1, <1>2, <1>3 DEF Saved
<1>5. Holds(acks, Saved, Current, stream, up, named, Sound)
  BY DEF SInv, Held
<1>6. CASE ~Heeds(stream, m.offset)
  <2> DEFINE s == IF Heeds(stream, m.offset) THEN Acknowledged(stream, m.offset) ELSE stream
             why == IF s.acked > stream.acked /\ m.generation # stream.generation THEN {"misread"} ELSE {}
  <2>1. PICK tail \in {Tails(stream, up)} : Sends(tail, why)
    BY <1>6 DEF TakeAck
  <2>2. tail.stream = stream /\ tail.queue = up
    <3>1. tail = Tails(stream, up)
      BY <2>1
    <3> HIDE DEF why
    <3> QED BY <3>1, Zenon DEF Tails
  <2>3. why \subseteq Flaws /\ flaws \subseteq Flaws
    BY DEF Flaws, SInv, Bounded
  <2> HIDE DEF why
  <2>4. /\ stream' = stream /\ up' = up /\ named' = named \cup NamedIn(up)
        /\ flaws' \subseteq Flaws /\ flaws \cup why \subseteq flaws' /\ (Sound' => Sound)
    BY <2>1, <2>2, <2>3, SendsIs
  <2>5. named' = named
    BY <2>4, <1>5 DEF Holds
  <2>6. Bounded'
    BY <1>1, <1>2, <1>3, <2>4, BoundedStays DEF SInv, Bounded
  <2>7. Current' = Current
    BY <1>1, <1>3, <2>4 DEF Current
  <2> HIDE DEF acks
  <2>8. Held'
    BY <1>1, <1>4, <1>5, <2>4, <2>5, <2>7, Assembled
  <2>9. Waits' /\ Closing'
    BY <1>1, <1>3, <2>4, <2>5 DEF SInv, Waits, Unread, Closing
  <2> QED BY <2>6, <2>8, <2>9, TakeAckKeeps DEF SInv
<1>7. CASE Heeds(stream, m.offset)
  <2>1. PICK s, q, sound :
           /\ Follows(acks, Saved, s, q, named \cup NamedIn(q), sound)
           /\ stream' = s /\ up' = q /\ named' = named \cup NamedIn(q)
           /\ flaws' \subseteq Flaws /\ flaws \subseteq flaws' /\ (Sound' => sound)
           /\ \/ /\ Tracks(s) /\ s.closed = stream.closed /\ s.eofSent = stream.eofSent
                 /\ s.ino = stream.ino /\ s.size = stream.size
              \/ tailer.life = "running" /\ (file # NoFile => Tracks(s))
                 /\ (s.closed => stream.closed)
                 /\ ((stream.eofSent => stream.closed) => (s.eofSent => s.closed))
    BY <1>7, AckTaken
  <2>2. Tracks(stream) /\ tailer.life # "starting"
    BY <1>7, Started DEF Heeds
  <2>3. Bounded'
    BY <1>1, <1>2, <1>3, <2>1, BoundedStays DEF SInv, Bounded
  <2>4. Current' = s.ino
    BY <1>3, <2>1, <2>2 DEF Current
  <2> DEFINE names == named \cup NamedIn(q)
  <2>5. Holds(acks, Saved, s.ino, s, q, names, sound) /\ Unread(s, names) /\ named' = names
    BY <2>1, FollowsIs
  <2> HIDE DEF acks, names
  <2>6. Held'
    BY <1>1, <1>4, <2>1, <2>4, <2>5, Assembled
  <2>7. Waits'
    <3>1. Unread(stream, named)'
      BY <1>1, <2>1, <2>5 DEF Unread
    <3>2. file # NoFile => Tracks(s)
      BY <2>1
    <3> QED BY <1>1, <1>3, <2>1, <2>2, <3>1, <3>2 DEF Waits
  <2>8. Closing'
    <3>1. CASE s.closed = stream.closed /\ s.eofSent = stream.eofSent /\ s.ino = stream.ino
               /\ s.size = stream.size /\ Tracks(s)
      BY <1>1, <1>3, <2>1, <2>2, <3>1 DEF SInv, Closing
    <3>2. CASE tailer.life = "running" /\ (s.closed => stream.closed)
               /\ ((stream.eofSent => stream.closed) => (s.eofSent => s.closed))
      <4>1. Ends
        BY <2>1, <3>2 DEF Ends
      <4> QED BY <1>3, <3>2, <4>1, ClosingStays DEF SInv
    <3> QED BY <2>1, <3>1, <3>2
  <2> QED BY <2>3, <2>6, <2>7, <2>8, TakeAckKeeps DEF SInv
<1> QED BY <1>6, <1>7

LEMMA WriteSidecarSteady ==
  ASSUME SInv, WriteSidecar
  PROVE  SInv'
<1> DEFINE acks == Claims(pending, down)
           marks == Saved \cup {MarkOf(stream)}
<1>1. /\ tailer' = [tailer EXCEPT !.timer = FALSE] /\ sidecar' = MarkOf(stream)
      /\ UNCHANGED <<file, files, stream, paired, up, store, pending, down, faults, flaws, named>>
  BY DEF WriteSidecar
<1>2. /\ tailer'.life = tailer.life /\ tailer'.mark = tailer.mark
      /\ tailer'.assigned = tailer.assigned /\ tailer'.boundary = tailer.boundary
  BY <1>1, SInvKnows DEF Tailers
<1>3. Holds(acks, marks, Current, stream, up, named, Sound)
  BY SInvKnows, MarkOfHolds DEF SInv, Held
<1>4. {sidecar', tailer'.mark} \subseteq marks /\ Claims(pending', down') \subseteq acks
  BY <1>1, <1>2 DEF Saved
<1>5. Current' = Current /\ (Sound' => Sound)
  BY <1>1, <1>2 DEF Current, Sound
<1> HIDE DEF acks, marks
<1>6. Held'
  BY <1>1, <1>3, <1>4, <1>5, Assembled
<1>7. Bounded'
  BY <1>1, <1>2, BoundedStays DEF SInv, Bounded
<1>8. Waits' /\ Closing'
  BY <1>1, <1>2 DEF SInv, Waits, Unread, Closing
<1> QED BY <1>6, <1>7, <1>8, WriteSidecarKeeps DEF SInv

LEMMA QuiesceSteady ==
  ASSUME SInv, Quiesce
  PROVE  SInv'
<1> DEFINE acks == Claims(pending, down)
           why == IF Finished(stream) /\ stream.sent < stream.size THEN {"retried"} ELSE {}
<1>1. PICK tail \in Finalize(stream, file, up) :
         /\ Sends(tail, why)
         /\ sidecar' = MarkOf(tail.stream)
         /\ tailer' = [tailer EXCEPT !.life = "quiesced", !.timer = FALSE, !.boundary = Boundary(tail)]
  BY DEF Quiesce
<1>2. /\ tailer.life # "starting"
      /\ UNCHANGED <<file, files, paired, store, pending, down, faults>>
  BY DEF Quiesce
<1> DEFINE s == tail.stream
           q == tail.queue
           names == named \cup NamedIn(q)
           marks == Saved \cup {MarkOf(s)}
           boundary == Boundary(tail)
<1>3. /\ tailer \in Tailers /\ Known(acks, Saved) /\ (stream.eofSent => stream.closed)
      /\ Follows(acks, Saved, stream, up, named, Sound)
  <2>1. Current = stream.ino /\ Unread(stream, named)
    BY <1>2 DEF Current, SInv, Waits
  <2> QED BY <2>1, SInvKnows, FollowsIs DEF SInv, Held, Closing
<1>4. stream' = s /\ up' = q /\ named' = names /\ sidecar' = MarkOf(s)
      /\ flaws' \subseteq Flaws /\ flaws \cup why \subseteq flaws' /\ (Sound' => Sound)
  <2>1. why \subseteq Flaws /\ flaws \subseteq Flaws
    BY DEF Flaws, SInv, Bounded
  <2> HIDE DEF why
  <2> QED BY <1>1, <2>1, SendsIs
<1>5. /\ Follows(acks, Saved, s, q, names, Sound)
      /\ \/ (~Tracks(stream) \/ Finished(stream)) /\ s = stream /\ q = up
         \/ Tracks(stream) /\ file = NoFile /\ s = Untracked
         \/ /\ Tracks(stream) /\ LookedAt(s) /\ file # NoFile
            /\ s.eofSent => s.closed /\ s.sent = file.len
  <2> HIDE DEF acks
  <2> QED BY <1>1, <1>3, FinalizeFollows
<1>6. /\ tailer'.life = "quiesced" /\ tailer'.mark = tailer.mark
      /\ tailer'.assigned = tailer.assigned /\ tailer'.boundary = boundary
  <2>1. tailer' = [tailer EXCEPT !.life = "quiesced", !.timer = FALSE, !.boundary = boundary]
    BY <1>1
  <2> HIDE DEF boundary
  <2> QED BY <1>3, <2>1 DEF Tailers
<1>7. stream.sent \in 0..MaxLen /\ s.sent \in 0..MaxLen /\ s \in Streams
  <2>1. ASSUME NEW w, Placed(w) PROVE w.sent \in 0..MaxLen /\ w \in Streams
    <3>1. w \in Streams /\ (w = Untracked \/ Seen(w))
      BY <2>1, UntrackedIs DEF Placed
    <3>2. w.sent \in Nat /\ w.size \in Nat /\ MaxLen \in Nat
      BY <3>1, MirrorBounds DEF Streams
    <3> QED BY <3>1, <3>2, UntrackedIs DEF Seen
  <2>2. Placed(stream) /\ Placed(s)
    BY <1>3, <1>5 DEF Follows
  <2> QED BY <2>1, <2>2
<1>8. /\ s.eofSent => boundary = s.sent
      /\ boundary # NoBoundary => s.eofSent \/ ~Tracks(s)
      /\ boundary \in {NoBoundary, s.sent, stream.sent}
  <2>1. s.eofSent \in BOOLEAN
    BY <1>7 DEF Streams
  <2>2. CASE s.eofSent
    <3>1. Tracks(s)
      BY <1>5, <2>2, UntrackedIs DEF Follows, Placed
    <3>2. boundary = s.sent
      BY <2>2, <3>1 DEF Boundary
    <3> QED BY <2>2, <3>2
  <2>3. CASE ~s.eofSent /\ ~Tracks(s) /\ q # up
    <3>1. boundary = stream.sent
      BY <2>3 DEF Boundary
    <3> QED BY <2>3, <3>1
  <2>4. CASE ~s.eofSent /\ ~(~Tracks(s) /\ q # up)
    <3>1. boundary = NoBoundary
      BY <2>4 DEF Boundary
    <3> QED BY <2>4, <3>1
  <2> QED BY <2>1, <2>2, <2>3, <2>4
<1> HIDE DEF acks, s, q, names, marks, boundary, why
<1>9. Holds(acks, Saved, s.ino, s, q, names, Sound) /\ Unread(s, names)
  BY <1>5, FollowsIs
<1>10. Holds(acks, marks, s.ino, s, q, names, Sound)
  BY <1>3, <1>9, MarkOfHolds DEF marks
<1>11. Held'
  <2>1. {sidecar', tailer'.mark} \subseteq marks /\ Claims(pending', down') \subseteq acks
    BY <1>2, <1>4, <1>6 DEF Saved, marks, acks
  <2>2. Current' = s.ino
    BY <1>4, <1>6 DEF Current
  <2> QED BY <1>2, <1>4, <1>10, <2>1, <2>2, Assembled
<1>12. Bounded'
  <2>1. tailer'.boundary \in {NoBoundary} \cup 0..MaxLen
    BY <1>6, <1>7, <1>8
  <2> QED BY <1>2, <1>4, <1>6, <2>1, BoundedStays DEF SInv, Bounded
<1>13. Waits'
  <2>1. Unread(stream, named)'
    BY <1>2, <1>4, <1>9 DEF Unread
  <2>2. file # NoFile /\ ~Tracks(s) => tailer.assigned < file.ino
    BY <1>5 DEF LookedAt, SInv, Waits
  <2> QED BY <1>2, <1>4, <1>6, <2>1, <2>2 DEF Waits
<1>14. Closing'
  <2>1. CASE (~Tracks(stream) \/ Finished(stream)) /\ s = stream
    <3>1. /\ s.closed => Tracks(s) /\ s.ino = file.ino /\ s.size = file.len
          /\ s.eofSent => s.closed
      BY <2>1 DEF SInv, Closing
    <3>2. boundary > 0 /\ Tracks(s) /\ "retried" \notin flaws' => s.closed /\ boundary = file.len
      <4> SUFFICES ASSUME boundary > 0, Tracks(s), "retried" \notin flaws'
                   PROVE  s.closed /\ boundary = file.len
        OBVIOUS
      <4>1. Finished(s) /\ s = stream
        BY <2>1
      <4>2. s.closed /\ boundary = s.sent /\ s.size = file.len
        BY <1>8, <3>1, <4>1 DEF Finished
      <4>3. ~(stream.sent < stream.size)
        BY <1>4, <4>1 DEF why
      <4>4. s.sent <= s.size /\ s.size \in Nat /\ s.sent \in Nat
        BY <1>3, <1>7, <4>1, UntrackedIs DEF Follows, Placed, Seen, Streams
      <4> QED BY <4>1, <4>2, <4>3, <4>4
    <3> QED BY <1>2, <1>4, <1>6, <3>1, <3>2 DEF Closing
  <2>2. CASE s = Untracked
    BY <1>4, <1>6, <2>2, UntrackedIs DEF Closing
  <2>3. CASE LookedAt(s) /\ (s.eofSent => s.closed /\ s.sent = file.len)
    <3>1. boundary > 0 => s.closed /\ boundary = file.len
      BY <1>8, <2>3 DEF LookedAt, NoBoundary
    <3> QED BY <1>2, <1>4, <1>6, <2>3, <3>1 DEF Closing, LookedAt
  <2> QED BY <1>5, <2>1, <2>2, <2>3
<1> QED BY <1>11, <1>12, <1>13, <1>14, QuiesceKeeps DEF SInv

(* A daemon that starts again has only its marks.                          *)
LEMMA RestartHolds ==
  ASSUME NEW acks, NEW marks, Known(acks, marks), NEW cur, NEW s, NEW q, NEW names, NEW sound,
         Holds(acks, marks, cur, s, q, names, sound),
         cur = file.ino \/ (cur = s.ino /\ Unread(s, names))
  PROVE  Holds(acks, marks, file.ino, Untracked, <<>>, names, sound)
<1>1. Queued(<<>>)
  BY TailerLimits DEF Queued
<1>2. NamedIn(<<>>) = {} /\ Traced(Untracked, <<>>, names)
  BY DEF NamedIn, Traced
<1>3. Placed(Untracked) /\ Backed(Untracked, names)
  BY UntrackedIs DEF Placed, Backed
<1>4. ASSUME NEW g \in Nat, NEW n, NEW x \in 1..files, <<g, x>> \in names, Vouched(g, n, x, cur, s, q)
      PROVE  Vouched(g, n, x, file.ino, Untracked, <<>>)
  <2>1. x = file.ino => x = cur
    <3> SUFFICES ASSUME x = file.ino, cur = s.ino, Unread(s, names), x # cur
                 PROVE  FALSE
      OBVIOUS
    <3>1. file # NoFile /\ s.ino # file.ino
      BY DEF NoFile
    <3>2. \A p \in names : p[2] # file.ino
      BY <3>1 DEF Unread
    <3> QED BY <1>4, <3>2
  <2> QED BY <1>4, <2>1, UntrackedIs DEF Vouched, Honoured
<1>5. ASSUME sound, OneEach(names)
      PROVE  /\ \A a \in acks : AckKept(a, file.ino, Untracked, <<>>, names)
             /\ \A m \in marks : MarkKept(m, file.ino, Untracked, <<>>)
  <2>1. /\ \A a \in acks : AckKept(a, cur, s, q, names)
        /\ \A m \in marks : MarkKept(m, cur, s, q)
    BY <1>5 DEF Holds, Promises
  <2>2. ASSUME NEW a \in acks PROVE AckKept(a, file.ino, Untracked, <<>>, names)
    <3>1. a.generation \in Nat
      BY DEF Known
    <3> QED BY <1>4, <2>1, <3>1 DEF AckKept
  <2>3. ASSUME NEW m \in marks, m.offset > 0 PROVE MarkKept(m, file.ino, Untracked, <<>>)
    <3>1. m.generation \in Nat /\ <<m.generation, m.ino>> \in names
      BY <2>3 DEF Known, Marks, Holds, MarkFits
    <3>2. m.ino \in 1..files
      BY <3>1 DEF Holds, Names
    <3> QED BY <1>4, <2>1, <2>3, <3>1, <3>2 DEF MarkKept
  <2> QED BY <2>2, <2>3 DEF MarkKept
<1> QED BY <1>1, <1>2, <1>3, <1>5, UntrackedIs DEF Holds, Promises

LEMMA DaemonEndsSteady ==
  ASSUME SInv, DaemonCrashes \/ DaemonStops
  PROVE  SInv'
<1> DEFINE acks == Claims(pending, down)
           marks == Saved \cup {MarkOf(stream)}
<1>1. PICK mark \in {sidecar, MarkOf(stream)} : DaemonEnds(mark)
  BY DEF DaemonCrashes, DaemonStops
<1>2. /\ faults < MaxFaults /\ faults' = faults + 1 /\ flaws' = flaws \cup {"lost"}
      /\ sidecar' = mark /\ tailer' = NewTailer(mark) /\ stream' = Untracked
      /\ up' = <<>> /\ down' = <<>> /\ paired' = FALSE
      /\ UNCHANGED <<file, files, store, pending, named>>
  BY <1>1 DEF DaemonEnds
<1>3. /\ tailer'.life = "starting" /\ tailer'.assigned = 0 /\ tailer'.mark = mark
      /\ tailer'.boundary = NoBoundary
  BY <1>2 DEF NewTailer
<1>4. /\ Known(acks, Saved) /\ Holds(acks, marks, Current, stream, up, named, Sound)
      /\ MarkOf(stream) \in Marks /\ sidecar \in Marks
  BY SInvKnows, MarkOfHolds DEF SInv, Held, IInv, Typed
<1>5. Known(acks, marks)
  BY <1>4 DEF Known
<1>6. Current = file.ino \/ (Current = stream.ino /\ Unread(stream, named))
  BY DEF Current, SInv, Waits
<1>7. Claims(pending', down') \subseteq acks /\ {sidecar', tailer'.mark} \subseteq marks
  BY <1>2, <1>3 DEF Claims, Saved
<1>8. Current' = file.ino /\ (Sound' => Sound)
  BY <1>2, <1>3 DEF Current, Sound
<1> HIDE DEF acks, marks
<1>9. Holds(acks, marks, file.ino, Untracked, <<>>, named, Sound)
  BY <1>4, <1>5, <1>6, RestartHolds
<1>10. Held'
  BY <1>2, <1>7, <1>8, <1>9, Assembled
<1>11. Bounded'
  <2>1. files \in Nat /\ faults' \in 0..MaxFaults
    BY <1>2, MirrorBounds DEF SInv, Bounded, IInv, Typed
  <2>2. flaws' \subseteq Flaws /\ \A i \in DOMAIN down' : down'[i].offset <= MaxLen
    BY <1>2 DEF Flaws, SInv, Bounded
  <2>3. tailer'.assigned <= files /\ tailer'.boundary \in {NoBoundary} \cup 0..MaxLen
    BY <1>3, <2>1
  <2>4. Bounded /\ UNCHANGED <<file, files, store, pending>> /\ paired' \in BOOLEAN
    BY <1>2 DEF SInv
  <2> QED BY <2>1, <2>2, <2>3, <2>4, BoundedStays
<1>12. Waits' /\ Closing'
  <2>1. file # NoFile => 0 < file.ino
    BY DEF SInv, Bounded, FileOK
  <2> QED BY <1>2, <1>3, <2>1, UntrackedIs DEF Waits, Closing, NoBoundary
<1>13. mark \in Marks
  BY <1>4
<1> QED BY <1>1, <1>10, <1>11, <1>12, <1>13, DaemonEndsKeeps DEF SInv

\* What the writers leave of the files there have been.
Written ==
  /\ files <= files' /\ files' \in Nat /\ file' \in Files
  /\ FileOK'
  /\ \A x \in 1..files : x = file'.ino => x = file.ino /\ file.len <= file'.len
  /\ file' # NoFile => file'.ino > files \/ (file # NoFile /\ file'.ino = file.ino)

LEMMA WritersWrite ==
  ASSUME SInv, AppendToFile \/ Replace \/ DeleteFile
  PROVE  Written /\ tailer.life # "quiesced" /\ WriterUnchanged
<1>1. /\ file \in Files /\ files \in Nat /\ MaxLen \in Nat /\ MaxFiles \in Nat
      /\ file.len \in Nat /\ file.ino \in Nat /\ FileOK
  BY MirrorBounds DEF SInv, IInv, Typed, Bounded, Files
<1>2. CASE AppendToFile
  <2>1. /\ file # NoFile /\ file.len < MaxLen /\ files' = files
        /\ file' = [file EXCEPT !.len = @ + 1]
    BY <1>2 DEF AppendToFile
  <2>2. file' \in Files /\ file'.ino = file.ino /\ file'.len = file.len + 1
    BY <1>1, <2>1 DEF Files
  <2>3. FileOK'
    BY <1>1, <2>1, <2>2 DEF FileOK
  <2> QED BY <1>1, <1>2, <2>1, <2>2, <2>3 DEF Written, AppendToFile, Writable
<1>3. CASE Replace
  <2>1. files' = files + 1 /\ files < MaxFiles
    BY <1>3 DEF Replace
  <2>2. PICK n \in 0..MaxLen : file' = [ino |-> files + 1, len |-> n]
    BY <1>3 DEF Replace
  <2>3. file' \in Files /\ file'.ino = files + 1 /\ file'.len \in 0..MaxLen
    BY <1>1, <2>2 DEF Files
  <2>4. FileOK'
    BY <1>1, <2>1, <2>3 DEF FileOK
  <2> QED BY <1>1, <1>3, <2>1, <2>3, <2>4 DEF Written, Replace, Writable
<1>4. CASE DeleteFile
  <2>1. file' = NoFile /\ files' = files
    BY <1>4 DEF DeleteFile
  <2>2. file' \in Files /\ file'.ino = 0 /\ file'.len = 0
    BY <2>1 DEF Files, NoFile
  <2>3. FileOK'
    BY <1>1, <2>1, <2>2 DEF FileOK
  <2> QED BY <1>1, <1>4, <2>1, <2>2, <2>3 DEF Written, DeleteFile, Writable
<1> QED BY <1>2, <1>3, <1>4

(* What is known of the files stays known.                                 *)
LEMMA WrittenHolds ==
  ASSUME SInv, Written, WriterUnchanged, tailer.life # "quiesced"
  PROVE  Held' /\ StoreFits(store)' /\ (tailer'.life # "starting" => Unread(stream, named)')
<1> DEFINE acks == Claims(pending, down)
<1>1. /\ stream' = stream /\ tailer' = tailer /\ sidecar' = sidecar /\ up' = up /\ store' = store
      /\ pending' = pending /\ down' = down /\ flaws' = flaws /\ named' = named
  BY DEF WriterUnchanged
<1>2. /\ files \in Nat /\ files' \in Nat /\ files <= files' /\ MaxLen \in Nat
      /\ file.len \in Nat /\ file'.len \in Nat
      /\ \A x \in 1..files : x \in 1..files'
      /\ \A x \in 1..files : x = file'.ino => x = file.ino /\ file.len <= file'.len
  BY MirrorBounds DEF Written, SInv, IInv, Typed, Files
<1>3. /\ stream \in Streams /\ up \in Seq(Chunks) /\ Known(acks, Saved) /\ store \in Stores
      /\ Names(named) /\ StoreFits(store)
  <2>1. stream \in Streams /\ up \in Seq(Chunks) /\ Known(acks, Saved)
    BY SInvKnows
  <2> QED BY <2>1 DEF SInv, IInv, Typed, Kept, Held, Holds, Bounded
<1>4. StoreFits(store)'
  <2>1. /\ Len(store.data) \in Nat /\ DOMAIN store.data = 1..Len(store.data)
        /\ store.entry.generation \in Nat /\ store.index.generation \in Nat
    BY <1>3, StoreNumbers
  <2>2. ASSUME NEW i \in DOMAIN store.data
        PROVE  store.data[i] \in 1..files' /\ (store.data[i] = file'.ino => i <= file'.len)
    <3>1. store.data[i] \in 1..files /\ (store.data[i] = file.ino => i <= file.len) /\ i \in Nat
      BY <1>3, <2>1 DEF StoreFits, DataFits
    <3> QED BY <1>2, <3>1
  <2> QED BY <1>1, <1>2, <1>3, <2>1, <2>2 DEF StoreFits, DataFits
<1>5. Placed(stream)'
  <2>1. CASE stream = Untracked
    BY <1>1, <2>1 DEF Placed
  <2>2. CASE Tracks(stream) /\ Seen(stream)
    <3>1. stream.size \in Nat
      BY <1>3 DEF Streams
    <3> QED BY <1>1, <1>2, <1>3, <2>2, <3>1 DEF Placed, Seen
  <2> QED BY <2>1, <2>2 DEF SInv, Held, Holds, Placed
<1>6. Queued(up)'
  <2>1. ASSUME NEW i \in DOMAIN up
        PROVE  /\ up[i].generation <= files' /\ End(up[i]) <= MaxLen
               /\ \A j \in DOMAIN up[i].data : /\ up[i].data[j] \in 1..files'
                                               /\ up[i].data[j] = file'.ino => up[i].offset + j <= file'.len
    <3>1. up[i] \in Chunks /\ Fits(up[i])
      BY <1>3 DEF SInv, Held, Holds, Queued
    <3>2. up[i].generation \in Nat /\ up[i].offset \in Nat /\ up[i].data \in Seq(Nat)
      BY <3>1 DEF Chunks
    <3>3. ASSUME NEW j \in DOMAIN up[i].data
          PROVE  up[i].data[j] \in 1..files' /\ (up[i].data[j] = file'.ino => up[i].offset + j <= file'.len)
      <4>1. up[i].data[j] \in 1..files /\ (up[i].data[j] = file.ino => up[i].offset + j <= file.len)
        BY <3>1 DEF Fits
      <4>2. up[i].offset + j \in Nat
        BY <3>2
      <4> QED BY <1>2, <4>1, <4>2
    <3> QED BY <1>2, <3>1, <3>2, <3>3 DEF Fits
  <2>2. Len(up) <= QueueMax
    BY DEF SInv, Held, Holds, Queued
  <2> QED BY <1>1, <1>3, <2>1, <2>2 DEF Queued, Fits
<1>7. Names(named)'
  BY <1>1, <1>2, <1>3 DEF Names
<1>8. (NamedIn(up) \subseteq named)' /\ Backed(stream, named)'
  BY <1>1 DEF SInv, Held, Holds, Backed
<1>9. (\A m \in Saved : MarkFits(m, named))'
  <2>1. ASSUME NEW m \in Saved
        PROVE  /\ m.ino <= files' /\ m.offset <= MaxLen /\ m.generation <= m.ino
               /\ m.offset > 0 => <<m.generation, m.ino>> \in named
               /\ m.offset = 0 => m = NoMark
               /\ m.ino = file'.ino => m.offset <= file'.len
    <3>1. MarkFits(m, named) /\ m.ino \in Nat /\ m.offset \in Nat
      BY <1>3 DEF SInv, Held, Holds, Known, Marks
    <3>2. m.ino = file'.ino => m.offset <= file'.len
      <4>1. CASE m.offset > 0
        <5>1. m.ino \in 1..files
          BY <1>3, <3>1, <4>1 DEF MarkFits, Names
        <5> QED BY <1>2, <3>1, <5>1 DEF MarkFits
      <4>2. CASE m.offset = 0
        BY <1>2, <4>2
      <4> QED BY <3>1, <4>1, <4>2
    <3> QED BY <1>2, <3>1, <3>2 DEF MarkFits
  <2> QED BY <1>1, <2>1 DEF Saved, MarkFits
<1>10. Traced(stream, up, named)'
  <2>1. ASSUME NEW i \in DOMAIN up, End(up[i]) > 0
        PROVE  \E x \in 1..files' :
                 /\ <<up[i].generation, x>> \in named
                 /\ x = stream.ino => \A j \in i..Len(up) : up[j].generation = stream.generation
    BY <1>2, <2>1 DEF SInv, Held, Holds, Traced
  <2> QED BY <1>1, <2>1 DEF Traced
<1>11. \A x \in 1..files : x = Current' => x = Current
  BY <1>1, <1>2 DEF Current
<1>12. Promises(Claims(pending, down), Saved, Current, stream, up, named, Sound)'
  <2> SUFFICES ASSUME Sound', OneEach(named)'
      PROVE  /\ \A a \in Claims(pending', down') : AckKept(a, Current, stream, up, named)'
             /\ \A m \in {sidecar', tailer'.mark} : MarkKept(m, Current, stream, up)'
             /\ (stream.acked > 0 => Vouched(stream.generation, stream.acked, stream.ino, Current, stream, up))'
    BY DEF Promises, Saved
  <2>1. Sound /\ OneEach(named)
    BY <1>1 DEF OneEach, Sound
  <2>2. /\ \A a \in acks : AckKept(a, Current, stream, up, named)
        /\ \A m \in Saved : MarkKept(m, Current, stream, up)
        /\ stream.acked > 0 => Vouched(stream.generation, stream.acked, stream.ino, Current, stream, up)
    BY <2>1 DEF SInv, Held, Holds, Promises
  <2>3. ASSUME NEW a \in acks PROVE AckKept(a, Current, stream, up, named)'
    <3> SUFFICES ASSUME a.offset > 0
        PROVE \E x \in 1..files' : /\ <<a.generation, x>> \in named
                                   /\ store.index.generation >= a.generation
                                   /\ x = Current' => Honoured(a.generation, a.offset, stream, up)
      BY <1>1 DEF AckKept, Vouched, Honoured
    <3>1. PICK x \in 1..files : /\ <<a.generation, x>> \in named
                                /\ Vouched(a.generation, a.offset, x, Current, stream, up)
      BY <2>2 DEF AckKept
    <3> QED BY <1>2, <1>11, <3>1 DEF Vouched
  <2>4. ASSUME NEW m \in Saved PROVE MarkKept(m, Current, stream, up)'
    <3> SUFFICES ASSUME m.offset > 0
        PROVE /\ store.index.generation >= m.generation
              /\ m.ino = Current' => Honoured(m.generation, m.offset, stream, up)
      BY <1>1 DEF MarkKept, Vouched, Honoured
    <3>1. m.ino \in 1..files
      BY <1>3 DEF SInv, Held, Holds, MarkFits, Names
    <3> QED BY <1>11, <2>2, <3>1 DEF Vouched, MarkKept
  <2>5. (stream.acked > 0 => Vouched(stream.generation, stream.acked, stream.ino, Current, stream, up))'
    <3> SUFFICES ASSUME stream.acked > 0
        PROVE /\ store.index.generation >= stream.generation
              /\ stream.ino = Current' => Honoured(stream.generation, stream.acked, stream, up)
      BY <1>1 DEF Vouched, Honoured
    <3>1. stream.ino \in 1..files
      BY <1>3 DEF SInv, Held, Holds, Backed, Names
    <3> QED BY <1>11, <2>2, <3>1 DEF Vouched
  <2> QED BY <1>1, <2>3, <2>4, <2>5 DEF Saved, acks
<1>13. ASSUME tailer'.life # "starting" PROVE Unread(stream, named)'
  <2> SUFFICES ASSUME file' # NoFile, stream.ino # file'.ino, NEW p \in named, p[2] = file'.ino
               PROVE  FALSE
    BY <1>1 DEF Unread
  <2>1. p[2] \in 1..files
    BY <1>3 DEF Names
  <2>2. p[2] = file.ino /\ file # NoFile
    BY <1>2, <2>1 DEF NoFile
  <2>3. Unread(stream, named)
    BY <1>1, <1>13 DEF SInv, Waits
  <2> QED BY <2>2, <2>3 DEF Unread
<1> QED BY <1>4, <1>5, <1>6, <1>7, <1>8, <1>9, <1>10, <1>12, <1>13 DEF Held, Holds

LEMMA WritersSteady ==
  ASSUME SInv, AppendToFile \/ Replace \/ DeleteFile
  PROVE  SInv'
<1>1. Written /\ tailer.life # "quiesced" /\ WriterUnchanged
  BY WritersWrite
<1>2. Held' /\ StoreFits(store)' /\ (tailer'.life # "starting" => Unread(stream, named)')
  BY <1>1, WrittenHolds
<1>3. Bounded'
  <2>1. tailer.assigned \in Nat /\ files \in Nat
    BY SInvKnows DEF Tailers, SInv, IInv, Typed
  <2> QED BY <1>1, <1>2, <2>1 DEF Written, WriterUnchanged, SInv, Bounded
<1>4. Waits'
  <2>1. tailer.assigned \in Nat /\ files \in Nat /\ file' \in Files
    BY <1>1, SInvKnows DEF Tailers, SInv, IInv, Typed, Written
  <2>2. file' # NoFile /\ ~Tracks(stream) => tailer.assigned < file'.ino
    BY <1>1, <2>1 DEF Written, SInv, Waits, Bounded, Files
  <2> QED BY <1>1, <1>2, <2>2 DEF WriterUnchanged, SInv, Waits
<1>5. Closing'
  BY <1>1, ClosingStays DEF SInv, Ends, WriterUnchanged
<1> QED BY <1>2, <1>3, <1>4, <1>5, WritersKeep DEF SInv

-----------------------------------------------------------------------------
(* The steps of the pair and of the fleet.                                 *)

\* The first n chunks have gone.
Shed(n) ==
  /\ up' \in Seq(Chunks) /\ Len(up') \in Nat /\ Len(up') + n = Len(up)
  /\ \A i \in DOMAIN up' : i + n \in DOMAIN up /\ up'[i] = up[i + n]

LEMMA ShedIs ==
  ASSUME SInv, NEW n \in 0..Len(up), up' = SubSeq(up, n + 1, Len(up))
  PROVE  Shed(n)
<1>1. up \in Seq(Chunks) /\ Len(up) \in Nat /\ n \in Nat /\ n + 1 \in Nat \ {0} /\ Len(up) \in 0..Len(up)
  BY SInvKnows
<1>2. /\ up' \in Seq(Chunks)
      /\ \A i \in DOMAIN up' : n + 1 + i - 1 \in DOMAIN up /\ up'[i] = up[n + 1 + i - 1]
  BY <1>1, PartOf
<1>3. Len(up') = IF n + 1 <= Len(up) THEN Len(up) - (n + 1) + 1 ELSE 0
  <2>1. \A i \in (n + 1)..Len(up) : up[i] \in Chunks
    BY <1>1
  <2> QED BY <1>1, <2>1, SubSeqProperties
<1>4. \A i \in DOMAIN up' : n + 1 + i - 1 = i + n
  BY <1>1, <1>2
<1>5. Len(up') + n = Len(up) /\ Len(up') \in Nat
  BY <1>1, <1>3
<1> QED BY <1>2, <1>4, <1>5 DEF Shed

\* What the store's step leaves of what was promised; k is 0 or the generation
\* of a chunk that was on its way.
StoreGoes(k) ==
  /\ store.index.generation <= store'.index.generation
  /\ Sound' => Sound /\ \A g \in Nat \ {0} : k <= g => Keeps(store, store', g)

(* Chunks leave the queue, the store moves, the tailer stays.              *)
LEMMA StoreMoves ==
  ASSUME SInv, IInv', UNCHANGED <<file, files, stream, tailer, sidecar>>,
         NEW n \in Nat, Shed(n),
         named \subseteq named', \A z \in named' : z[1] \in 1..files /\ \E p \in named : p[2] = z[2],
         named' \subseteq (1..files) \X (1..files),
         NEW k, k = 0 \/ (\E i \in DOMAIN up : k = up[i].generation), StoreGoes(k),
         Sound' /\ OneEach(named') =>
           \A a \in Claims(pending', down') : a \in Claims(pending, down) \/ AckKept(a, Current, stream, up, named)'
  PROVE  Held' /\ Waits'
<1> DEFINE acks == Claims(pending, down)
<1>1. /\ stream \in Streams /\ up \in Seq(Chunks) /\ Known(acks, Saved) /\ files \in Nat
      /\ Names(named) /\ Queued(up) /\ Held
      /\ store.index.generation \in Nat /\ store'.index.generation \in Nat
      /\ store.index.acked \in Nat /\ store'.index.acked \in Nat
  <2>1. stream \in Streams /\ up \in Seq(Chunks) /\ Known(acks, Saved)
    BY SInvKnows
  <2>2. store \in Stores /\ store' \in Stores /\ files \in Nat
    BY DEF SInv, IInv, Typed, Kept
  <2>3. /\ store.index.generation \in Nat /\ store'.index.generation \in Nat
        /\ store.index.acked \in Nat /\ store'.index.acked \in Nat
    BY <2>2, StoreNumbers
  <2> QED BY <2>1, <2>2, <2>3 DEF SInv, Held, Holds
<1>2. /\ up' \in Seq(Chunks) /\ Len(up') \in Nat /\ Len(up') + n = Len(up) /\ Len(up) \in Nat
      /\ DOMAIN up' = 1..Len(up')
      /\ \A i \in DOMAIN up' : i + n \in DOMAIN up /\ up'[i] = up[i + n]
  BY <1>1 DEF Shed
<1>3. Current' = Current
  BY DEF Current
<1>4. Placed(stream)'
  BY DEF SInv, Held, Holds, Placed, Seen
<1>5. Queued(up)'
  <2>1. \A i \in DOMAIN up' : Fits(up[i + n])
    BY <1>1, <1>2 DEF Queued
  <2>2. Len(up') <= QueueMax
    BY <1>1, <1>2, TailerLimits DEF Queued
  <2> QED BY <1>2, <2>1, <2>2 DEF Queued, Fits
<1>6. Names(named)'
  BY DEF Names
<1>7. (NamedIn(up) \subseteq named)'
  BY DEF IInv, Carried
<1>8. (\A m \in Saved : MarkFits(m, named))'
  BY DEF SInv, Held, Holds, MarkFits, Saved
<1>9. Backed(stream, named)'
  BY DEF SInv, Held, Holds, Backed
<1>10. Traced(stream, up, named)'
  <2>1. ASSUME NEW i \in DOMAIN up', End(up'[i]) > 0
        PROVE  \E x \in 1..files :
                 /\ <<up'[i].generation, x>> \in named'
                 /\ x = stream.ino => \A j \in i..Len(up') : up'[j].generation = stream.generation
    <3>1. i + n \in DOMAIN up /\ up'[i] = up[i + n] /\ i \in Nat
      BY <1>2
    <3>2. PICK x \in 1..files :
                 /\ <<up[i + n].generation, x>> \in named
                 /\ x = stream.ino => \A j \in (i + n)..Len(up) : up[j].generation = stream.generation
      BY <1>1, <2>1, <3>1 DEF Held, Holds, Traced
    <3>3. ASSUME NEW j \in i..Len(up') PROVE j + n \in (i + n)..Len(up) /\ up'[j] = up[j + n]
      <4>1. j \in 1..Len(up')
        BY <1>2, <2>1, <3>1
      <4> QED BY <1>2, <3>1, <4>1
    <3> QED BY <3>1, <3>2, <3>3
  <2> QED BY <2>1 DEF Traced
<1>11. ASSUME Sound', NEW g \in Nat \ {0}, NEW m \in Nat, NEW x, Vouched(g, m, x, Current, stream, up)
       PROVE  Vouched(g, m, x, Current, stream, up)'
  <2>1. store'.index.generation >= g
    BY <1>1, <1>11 DEF StoreGoes, Vouched
  <2>2. ASSUME x = Current PROVE Honoured(g, m, stream, up)'
    <3>1. Honoured(g, m, stream, up)
      BY <1>11, <2>2 DEF Vouched
    <3>2. k <= g
      BY <3>1 DEF Honoured
    <3>3. /\ store'.entry.generation = g /\ store'.index.generation = g
          /\ store'.index.acked >= store.index.acked
      BY <1>11, <3>1, <3>2 DEF StoreGoes, Keeps, Honoured
    <3>4. store'.index.acked >= m
      BY <1>1, <3>1, <3>3 DEF Honoured
    <3>5. \A i \in DOMAIN up' : up'[i].generation <= g
      BY <1>2, <3>1 DEF Honoured
    <3> QED BY <3>1, <3>3, <3>4, <3>5 DEF Honoured
  <2> QED BY <1>3, <2>1, <2>2 DEF Vouched
<1>12. Promises(Claims(pending, down), Saved, Current, stream, up, named, Sound)'
  <2> SUFFICES ASSUME Sound', OneEach(named)'
      PROVE  /\ \A a \in Claims(pending', down') : AckKept(a, Current, stream, up, named)'
             /\ \A m \in {sidecar', tailer'.mark} : MarkKept(m, Current, stream, up)'
             /\ (stream.acked > 0 => Vouched(stream.generation, stream.acked, stream.ino, Current, stream, up))'
    BY DEF Promises, Saved
  <2>1. Sound /\ OneEach(named) /\ OneEach(named')
    BY DEF OneEach, StoreGoes
  <2>2. /\ \A a \in acks : AckKept(a, Current, stream, up, named)
        /\ \A m \in Saved : MarkKept(m, Current, stream, up)
        /\ stream.acked > 0 => Vouched(stream.generation, stream.acked, stream.ino, Current, stream, up)
    BY <1>1, <2>1 DEF Held, Holds, Promises
  <2>3. ASSUME NEW a \in acks PROVE AckKept(a, Current, stream, up, named)'
    <3> SUFFICES ASSUME a.offset > 0
        PROVE \E x \in 1..files : <<a.generation, x>> \in named' /\ Vouched(a.generation, a.offset, x, Current, stream, up)'
      BY DEF AckKept
    <3>1. PICK x \in 1..files : /\ <<a.generation, x>> \in named
                                /\ Vouched(a.generation, a.offset, x, Current, stream, up)
      BY <2>2 DEF AckKept
    <3>2. a.offset \in Nat /\ a.generation \in Nat \ {0}
      BY <1>1, <3>1 DEF Known, Names
    <3>3. Vouched(a.generation, a.offset, x, Current, stream, up)'
      BY <1>11, <3>1, <3>2
    <3> QED BY <3>1, <3>3
  <2>4. ASSUME NEW m \in Saved PROVE MarkKept(m, Current, stream, up)'
    <3> SUFFICES ASSUME m.offset > 0
        PROVE Vouched(m.generation, m.offset, m.ino, Current, stream, up)'
      BY DEF MarkKept
    <3>1. m.offset \in Nat /\ m.generation \in Nat \ {0}
      <4>1. m \in Marks /\ <<m.generation, m.ino>> \in named
        BY <1>1 DEF Held, Holds, MarkFits, Known
      <4> QED BY <1>1, <4>1 DEF Marks, Names
    <3> QED BY <1>11, <2>2, <3>1 DEF MarkKept
  <2>5. (stream.acked > 0 => Vouched(stream.generation, stream.acked, stream.ino, Current, stream, up))'
    <3> SUFFICES ASSUME stream.acked > 0
        PROVE Vouched(stream.generation, stream.acked, stream.ino, Current, stream, up)'
      OBVIOUS
    <3>1. stream.acked \in Nat /\ stream.generation \in Nat \ {0}
      BY <1>1 DEF Streams, Held, Holds, Backed, Names
    <3> QED BY <1>11, <2>2, <3>1
  <2> QED BY <2>1, <2>3, <2>4, <2>5 DEF Saved, acks
<1>13. Held'
  BY <1>4, <1>5, <1>6, <1>7, <1>8, <1>9, <1>10, <1>12 DEF Held, Holds
<1>14. Waits'
  <2>1. tailer.life # "starting" => Unread(stream, named)'
    BY DEF SInv, Waits, Unread
  <2>2. tailer.life = "starting" => up' = <<>>
    BY <1>2 DEF SInv, Waits
  <2> QED BY <2>1, <2>2 DEF SInv, Waits
<1> QED BY <1>13, <1>14

LEMMA PairBreaksSteady ==
  ASSUME SInv, PairBreaks
  PROVE  SInv'
<1>1. UNCHANGED <<file, files, stream, tailer, sidecar, store, pending, named>> /\ IInv'
  BY PairBreaksKeeps DEF PairBreaks, SInv
<1>2. PICK n \in 0..Len(up) : Breaks(n, {})
  BY DEF PairBreaks
<1>3. /\ up' = SubSeq(up, n + 1, Len(up)) /\ down' = <<>> /\ paired' = FALSE
      /\ faults < MaxFaults /\ faults' = faults + 1
      /\ flaws' = flaws \cup (IF n > 0 \/ down # <<>> THEN {"lost"} ELSE {})
  BY <1>2 DEF Breaks
<1>4. Shed(n) /\ n \in Nat
  BY <1>3, ShedIs
<1>5. Names(named) /\ named \subseteq (1..files) \X (1..files)
  BY DEF SInv, Held, Holds, Names
<1>6. \A z \in named' : z[1] \in 1..files /\ \E p \in named : p[2] = z[2]
  BY <1>1, <1>5
<1>7. StoreGoes(0)
  <2>1. store.index.generation \in Nat /\ store.index.acked \in Nat
    BY StoreNumbers DEF SInv, IInv, Kept
  <2>2. Sound' => Sound
    BY <1>3 DEF Sound
  <2> QED BY <1>1, <2>1, <2>2 DEF StoreGoes, Keeps
<1>8. \A a \in Claims(pending', down') : a \in Claims(pending, down)
  BY <1>1, <1>3 DEF Claims
<1>9. Held' /\ Waits'
  BY <1>1, <1>4, <1>5, <1>6, <1>7, <1>8, StoreMoves
<1>10. Bounded'
  <2>1. faults' \in 0..MaxFaults
    BY <1>3, MirrorBounds DEF SInv, Bounded
  <2>2. flaws' \subseteq Flaws /\ \A i \in DOMAIN down' : down'[i].offset <= MaxLen
    BY <1>3 DEF Flaws, SInv, Bounded
  <2> QED BY <1>1, <1>3, <2>1, <2>2, BoundedStays DEF SInv, Bounded
<1>11. Closing'
  BY <1>1, <1>3 DEF SInv, Closing
<1> QED BY <1>1, <1>9, <1>10, <1>11 DEF SInv

LEMMA FlushAcksSteady ==
  ASSUME SInv, FlushAcks
  PROVE  SInv'
<1> DEFINE acks == Claims(pending, down)
           x == [type |-> "log_ack", offset |-> pending.offset, generation |-> pending.generation]
<1>1. /\ pending' = NoAck /\ flaws \subseteq flaws' /\ flaws' \subseteq flaws \cup {"lost"}
      /\ down' = down \/ down' = Append(down, x)
      /\ UNCHANGED <<file, files, stream, tailer, sidecar, paired, up, store, faults, named>>
  BY DEF FlushAcks
<1>2. down \in Seq(Answers) /\ pending \in Acks /\ IInv'
  BY FlushAcksKeeps DEF SInv, IInv, Typed
<1>3. ASSUME NEW i \in DOMAIN down'
      PROVE  (i \in DOMAIN down /\ down'[i] = down[i]) \/ down'[i] = x
  <2> HIDE DEF x
  <2> QED BY <1>1, <1>2, <1>3
<1>4. x.offset = pending.offset /\ x.generation = pending.generation
  OBVIOUS
<1>5. pending = [offset |-> pending.offset, generation |-> pending.generation]
  BY <1>2 DEF Acks
<1>6. Claims(pending', down') \subseteq acks \cup {NoAck}
  <2> SUFFICES ASSUME NEW i \in DOMAIN down', down'[i].type = "log_ack"
               PROVE  [offset |-> down'[i].offset, generation |-> down'[i].generation] \in acks
    BY <1>1 DEF Claims
  <2>1. CASE i \in DOMAIN down /\ down'[i] = down[i]
    BY <2>1 DEF Claims
  <2>2. CASE down'[i] = x
    <3>1. [offset |-> down'[i].offset, generation |-> down'[i].generation] = pending
      BY <1>4, <1>5, <2>2
    <3> QED BY <3>1 DEF Claims
  <2> QED BY <1>3, <2>1, <2>2
<1>7. Holds(acks \cup {NoAck}, Saved, Current, stream, up, named, Sound)
  BY NoAckHolds DEF SInv, Held
<1>8. {sidecar', tailer'.mark} \subseteq Saved /\ Current' = Current /\ (Sound' => Sound)
  BY <1>1 DEF Saved, Current, Sound
<1>9. Held'
  <2> DEFINE all == acks \cup {NoAck}
  <2>1. Holds(all, Saved, Current, stream, up, named, Sound) /\ Claims(pending', down') \subseteq all
    BY <1>6, <1>7
  <2> HIDE DEF all, acks, x
  <2> QED BY <1>1, <1>8, <2>1, Assembled
<1>10. Bounded'
  <2>1. flaws' \subseteq Flaws /\ pending'.offset <= MaxLen
    BY <1>1, MirrorBounds DEF Flaws, NoAck, SInv, Bounded
  <2>2. \A i \in DOMAIN down' : down'[i].offset <= MaxLen
    <3> HIDE DEF x
    <3> QED BY <1>3, <1>4 DEF SInv, Bounded
  <2>3. FileOK' /\ StoreFits(store)'
    BY <1>1 DEF SInv, Bounded, FileOK, StoreFits, DataFits
  <2> QED BY <1>1, <2>1, <2>2, <2>3 DEF SInv, Bounded
<1>11. Waits' /\ Closing'
  BY <1>1 DEF SInv, Waits, Unread, Closing
<1> QED BY <1>2, <1>9, <1>10, <1>11 DEF SInv

LEMMA DeliverSteady ==
  ASSUME SInv, Deliver
  PROVE  SInv'
<1>0. PICK c, a : c = Head(up) /\ a = [offset |-> End(c), generation |-> c.generation]
  OBVIOUS
<1> DEFINE verdict == Verdict(store, c)
           x == [type |-> "log_gap", offset |-> Len(store'.data), generation |-> c.generation]
           acks == Claims(pending, down)
<1>1. /\ up # <<>> /\ up' = Tail(up) /\ store' = Ingest(store, c)
      /\ pending' = IF verdict = "acked" THEN a ELSE pending
      /\ down' = IF verdict = "gap" THEN Append(down, x) ELSE down
      /\ UNCHANGED <<file, files, stream, tailer, sidecar, paired, faults, flaws, named>>
  BY <1>0 DEF Deliver
<1>2. /\ up \in Seq(Chunks) /\ down \in Seq(Answers) /\ Kept(store, named) /\ files \in Nat
      /\ Queued(up) /\ Traced(stream, up, named) /\ named \subseteq (1..files) \X (1..files)
      /\ StoreFits(store)
  BY SInvKnows DEF SInv, IInv, Typed, Held, Holds, Names, Bounded
<1>3. IInv'
  BY DeliverKeeps DEF SInv
<1>4. /\ 1 \in DOMAIN up /\ c = up[1] /\ c \in Chunks /\ Fits(c) /\ Len(up) \in Nat
      /\ DOMAIN up = 1..Len(up) /\ 1 \in 0..Len(up)
  <2>1. 1 \in DOMAIN up /\ c = up[1] /\ up[1] \in Chunks /\ Len(up) \in Nat
        /\ DOMAIN up = 1..Len(up) /\ 1 \in 0..Len(up)
    BY <1>0, <1>1, <1>2
  <2> QED BY <1>2, <2>1 DEF Queued
<1>5. c.generation \in Nat \ {0} /\ End(c) \in Nat
  BY <1>4, ChunkNumbers
<1> DEFINE r == store'
<1>6. a.offset = End(c) /\ a.generation = c.generation
      /\ x.offset = Len(r.data) /\ x.type = "log_gap"
  BY <1>0
<1> HIDE DEF verdict, x, acks
<1>7. /\ StoreFits(r) /\ r \in Stores /\ r.index.generation >= store.index.generation
      /\ \A g \in Nat \ {0} : c.generation <= g => Keeps(store, r, g)
      /\ verdict = "acked" => r.entry.generation = c.generation /\ r.index.generation = c.generation
                              /\ r.index.acked = End(c)
      /\ Len(r.data) \in 0..MaxLen
  <2>1. r = Ingest(store, c)
    BY <1>1
  <2> HIDE DEF r
  <2> QED BY <1>2, <1>4, <2>1, IngestFits DEF verdict
<1>8. Shed(1)
  <2>1. up' = SubSeq(up, 1 + 1, Len(up))
    BY <1>1, <1>2, TailIsSubSeq
  <2> QED BY <1>4, <2>1, ShedIs
<1>9. StoreGoes(c.generation) /\ \E i \in DOMAIN up : c.generation = up[i].generation
  <2>1. store.index.generation \in Nat /\ r.index.generation \in Nat /\ (Sound' => Sound)
    BY <1>1, <1>2, <1>7, StoreNumbers DEF Kept, Sound
  <2> QED BY <1>4, <1>7, <2>1 DEF StoreGoes
<1>10. ASSUME verdict = "acked" PROVE AckKept(a, Current, stream, up, named)'
  <2> SUFFICES ASSUME a.offset > 0
      PROVE \E y \in 1..files : <<a.generation, y>> \in named
                                 /\ Vouched(a.generation, a.offset, y, Current, stream, up)'
    BY <1>1 DEF AckKept
  <2>1. PICK y \in 1..files :
           /\ <<c.generation, y>> \in named
           /\ y = stream.ino => \A j \in 1..Len(up) : up[j].generation = stream.generation
    BY <1>2, <1>4, <1>6 DEF Traced
  <2>2. Current' = stream.ino
    BY <1>1 DEF Current, SInv, Waits
  <2>3. ASSUME y = stream.ino PROVE Honoured(a.generation, a.offset, stream, up)'
    <3>1. \A j \in 1..Len(up) : up[j].generation = stream.generation
      BY <2>1, <2>3
    <3>2. c.generation = stream.generation
      BY <1>4, <3>1
    <3>3. \A i \in DOMAIN up' : up'[i].generation = stream.generation
      BY <1>4, <1>8, <3>1 DEF Shed
    <3> QED BY <1>1, <1>5, <1>6, <1>7, <1>10, <3>2, <3>3 DEF Honoured
  <2>4. Vouched(a.generation, a.offset, y, Current, stream, up)'
    BY <1>5, <1>6, <1>7, <1>10, <2>2, <2>3 DEF Vouched
  <2> QED BY <1>6, <2>1, <2>4
<1>11. ASSUME NEW i \in DOMAIN down'
       PROVE  (i \in DOMAIN down /\ down'[i] = down[i]) \/ down'[i] = x
  BY <1>1, <1>2, <1>11
<1>12. \A k \in Claims(pending', down') : k \in acks \/ AckKept(k, Current, stream, up, named)'
  <2>1. pending \in acks
    BY DEF Claims, acks
  <2>2. ASSUME NEW i \in DOMAIN down', down'[i].type = "log_ack"
        PROVE  [offset |-> down'[i].offset, generation |-> down'[i].generation] \in acks
    <3>1. i \in DOMAIN down /\ down'[i] = down[i]
      BY <1>6, <1>11, <2>2
    <3> QED BY <2>2, <3>1 DEF Claims, acks
  <2>3. \A k \in Claims(pending', down') : k = pending' \/ k \in acks
    BY <2>2 DEF Claims
  <2> QED BY <1>1, <1>10, <2>1, <2>3
<1>13. \A z \in named' : z[1] \in 1..files /\ \E p \in named : p[2] = z[2]
  BY <1>1, <1>2
<1>14. Held' /\ Waits'
  <2> DEFINE g == c.generation
  <2>1. StoreGoes(g) /\ \E i \in DOMAIN up : g = up[i].generation
    BY <1>9
  <2> HIDE DEF g
  <2>2. UNCHANGED <<file, files, stream, tailer, sidecar>> /\ named \subseteq named'
        /\ named' \subseteq (1..files) \X (1..files)
    BY <1>1, <1>2
  <2> QED BY <1>3, <1>8, <1>12, <1>13, <2>1, <2>2, StoreMoves DEF acks
<1>15. Bounded'
  <2>1. StoreFits(store)' /\ FileOK'
    BY <1>1, <1>7 DEF StoreFits, DataFits, SInv, Bounded, FileOK
  <2>2. pending'.offset <= MaxLen
    BY <1>1, <1>4, <1>6 DEF Fits, SInv, Bounded
  <2>3. \A i \in DOMAIN down' : down'[i].offset <= MaxLen
    BY <1>6, <1>7, <1>11, MirrorBounds DEF SInv, Bounded
  <2> QED BY <1>1, <2>1, <2>2, <2>3 DEF SInv, Bounded
<1>16. Closing'
  BY <1>1 DEF SInv, Closing
<1> QED BY <1>3, <1>14, <1>15, <1>16 DEF SInv

LEMMA FleetCrashesSteady ==
  ASSUME SInv, FleetCrashes
  PROVE  SInv'
<1>1. pending' = NoAck /\ UNCHANGED <<file, files, stream, tailer, sidecar>> /\ IInv'
  BY FleetCrashesKeeps DEF FleetCrashes, SInv
<1>2. PICK n \in 0..Len(up) :
        \E disk \in {store} \cup (IF paired /\ n > 0 THEN Interrupted(store, Head(up)) ELSE {}) :
           /\ store' = Loaded(disk)
           /\ named' = named \cup NamedByLoad(disk, store')
           /\ Breaks(n, Reuse(named') \cup (IF pending # NoAck THEN {"lost"} ELSE {})
                        \cup (IF Len(store'.data) < disk.index.acked /\ disk.index.acked <= Len(disk.data)
                              THEN {"cut"} ELSE {}))
  BY DEF FleetCrashes
<1>3. PICK disk \in {store} \cup (IF paired /\ n > 0 THEN Interrupted(store, Head(up)) ELSE {}) :
           /\ store' = Loaded(disk)
           /\ named' = named \cup NamedByLoad(disk, store')
           /\ Breaks(n, Reuse(named') \cup (IF pending # NoAck THEN {"lost"} ELSE {})
                        \cup (IF Len(store'.data) < disk.index.acked /\ disk.index.acked <= Len(disk.data)
                              THEN {"cut"} ELSE {}))
  BY <1>2
<1> DEFINE cuts == Len(store'.data) < disk.index.acked /\ disk.index.acked <= Len(disk.data)
           more == Reuse(named') \cup (IF pending # NoAck THEN {"lost"} ELSE {})
                     \cup (IF cuts THEN {"cut"} ELSE {})
<1>4. more \subseteq Flaws /\ (cuts => "cut" \in more)
  <2>1. Reuse(named') \subseteq Flaws
    BY DEF Reuse, Flaws
  <2>2. {"lost"} \subseteq Flaws /\ {"cut"} \subseteq Flaws
    BY DEF Flaws
  <2> QED BY <2>1, <2>2
<1>5. Breaks(n, more)
  BY <1>3
<1> HIDE DEF more
<1>6. /\ up' = SubSeq(up, n + 1, Len(up)) /\ down' = <<>> /\ paired' = FALSE
      /\ faults < MaxFaults /\ faults' = faults + 1
      /\ flaws \cup more \subseteq flaws' /\ flaws' \subseteq flaws \cup more \cup {"lost"}
  BY <1>5 DEF Breaks
<1>7. (Sound' => Sound) /\ (Sound' => ~cuts)
  BY <1>4, <1>6 DEF Sound
<1> HIDE DEF cuts
<1>8. /\ Kept(store, named) /\ StoreFits(store) /\ files \in Nat /\ store \in Stores /\ Queued(up)
      /\ Carried /\ named \subseteq (1..files) \X (1..files)
  BY DEF SInv, IInv, Typed, Held, Holds, Names, Bounded, Kept
<1>9. \E k \in Nat : /\ Survives(disk, store, named, k)
                     /\ k = 0 \/ (\E i \in DOMAIN up : k = up[i].generation)
  <2>1. CASE disk = store
    <3>1. Survives(store, store, named, 0)
      BY <1>8, StoreSurvives
    <3> QED BY <2>1, <3>1
  <2>2. CASE n > 0 /\ disk \in Interrupted(store, Head(up))
    <3>1. PICK c : c = Head(up)
      OBVIOUS
    <3>2. up # <<>> /\ 1 \in DOMAIN up /\ c = up[1]
      BY <1>8, <2>2, <3>1 DEF Carried
    <3>3. c \in Chunks /\ ChunkNamed(c, named) /\ Fits(c)
      BY <1>8, <3>1, <3>2, TailIsCarried DEF Queued
    <3>4. Survives(disk, store, named, c.generation)
      BY <1>8, <2>2, <3>1, <3>3, InterruptedSurvives
    <3> QED BY <3>2, <3>3, <3>4, ChunkNumbers
  <2> QED BY <1>3, <2>1, <2>2
<1>10. PICK k \in Nat : /\ Survives(disk, store, named, k)
                        /\ k = 0 \/ (\E i \in DOMAIN up : k = up[i].generation)
  BY <1>9
<1>11. /\ StoreFits(store') /\ store'.index.generation >= store.index.generation
       /\ ~cuts => \A g \in Nat \ {0} : k <= g => Keeps(store, store', g)
       /\ \A z \in NamedByLoad(disk, store') : \E p \in named : p[2] = z[2]
  <2>0. PICK r : r = store'
    OBVIOUS
  <2>1. r = Loaded(disk)
    BY <1>3, <2>0
  <2>3. Survives(disk, store, named, k) /\ files \in Nat /\ store \in Stores
    BY <1>8, <1>10
  <2>2. /\ StoreFits(r) /\ r.index.generation >= store.index.generation
        /\ ~(Len(r.data) < disk.index.acked /\ disk.index.acked <= Len(disk.data)) =>
             \A g \in Nat \ {0} : k <= g => Keeps(store, r, g)
        /\ \A z \in NamedByLoad(disk, r) : \E p \in named : p[2] = z[2]
    <3> DEFINE cut == Len(r.data) < disk.index.acked /\ disk.index.acked <= Len(disk.data)
    <3>1. StoreFits(r) /\ r.index.generation >= store.index.generation
      BY <2>1, <2>3, LoadedFits
    <3>2. ~cut => \A g \in Nat \ {0} : k <= g => Keeps(store, r, g)
      BY <2>1, <2>3, LoadedFits
    <3>3. Familiar(NamedByLoad(disk, r), named)
      BY <2>1, <2>3, LoadedFits
    <3> QED BY <3>1, <3>2, <3>3 DEF Familiar
  <2> QED BY <2>0, <2>2 DEF cuts
<1>12. StoreGoes(k)
  <2>1. store'.index.generation \in Nat /\ store.index.generation \in Nat
    BY <1>1, <1>8, StoreNumbers DEF IInv, Kept
  <2> QED BY <1>7, <1>11, <2>1 DEF StoreGoes
<1>13. ASSUME NEW z \in named' PROVE z \in (1..files) \X (1..files) /\ \E p \in named : p[2] = z[2]
  <2>1. CASE z \in named
    BY <1>8, <2>1
  <2>2. CASE z \in NamedByLoad(disk, store')
    <3>1. PICK y : z = <<1, y>>
      BY <2>2 DEF NamedByLoad
    <3>2. PICK p \in named : p[2] = z[2]
      BY <1>11, <2>2
    <3>3. y \in 1..files /\ 1 \in 1..files
      BY <1>8, <3>1, <3>2
    <3> QED BY <3>1, <3>2, <3>3
  <2> QED BY <1>3, <2>1, <2>2
<1>14. \A a \in Claims(pending', down') : AckKept(a, Current, stream, up, named)'
  <2>1. Claims(pending', down') = {NoAck}
    BY <1>1, <1>6 DEF Claims
  <2> QED BY <2>1 DEF AckKept, NoAck
<1>15. Held' /\ Waits'
  <2>1. Shed(n) /\ n \in Nat
    BY <1>6, ShedIs
  <2>2. named \subseteq named' /\ named' \subseteq (1..files) \X (1..files)
        /\ \A z \in named' : z[1] \in 1..files /\ \E p \in named : p[2] = z[2]
    BY <1>3, <1>13
  <2> QED BY <1>1, <1>10, <1>12, <1>14, <2>1, <2>2, StoreMoves
<1>16. Bounded'
  <2>1. StoreFits(store)' /\ FileOK'
    BY <1>1, <1>11 DEF StoreFits, DataFits, SInv, Bounded, FileOK
  <2>2. faults' \in 0..MaxFaults /\ pending'.offset <= MaxLen
    BY <1>1, <1>6, MirrorBounds DEF SInv, Bounded, NoAck
  <2>3. flaws' \subseteq Flaws /\ \A i \in DOMAIN down' : down'[i].offset <= MaxLen
    BY <1>4, <1>6 DEF Flaws, SInv, Bounded
  <2> QED BY <1>1, <1>6, <2>1, <2>2, <2>3 DEF SInv, Bounded
<1>17. Closing'
  BY <1>1, <1>6 DEF SInv, Closing
<1> QED BY <1>1, <1>15, <1>16, <1>17 DEF SInv

-----------------------------------------------------------------------------
(* The second invariant holds.                                             *)

LEMMA SInitially == Init => SInv
<1> SUFFICES ASSUME Init PROVE SInv
  OBVIOUS
<1>1. IInv
  BY Initially
<1>2. /\ file = NoFile /\ files = 0 /\ stream = Untracked /\ tailer = NewTailer(NoMark)
      /\ sidecar = NoMark /\ paired = FALSE /\ up = <<>> /\ store = EmptyStore
      /\ pending = NoAck /\ down = <<>> /\ faults = 0 /\ flaws = {} /\ named = {}
  BY DEF Init
<1>3. /\ tailer.life = "starting" /\ tailer.assigned = 0 /\ tailer.mark = NoMark
      /\ tailer.boundary = NoBoundary
  BY <1>2 DEF NewTailer
<1>4. /\ store.data = <<>> /\ store.entry = NoEntry /\ store.index = NoEntry
  BY <1>2 DEF EmptyStore
<1>5. Bounded
  <2>1. FileOK
    BY <1>2, MirrorBounds DEF FileOK, NoFile
  <2>2. StoreFits(store)
    BY <1>2, <1>4, MirrorBounds DEF StoreFits, DataFits, NoEntry
  <2>3. /\ \A i \in DOMAIN down : down[i].offset <= MaxLen
        /\ pending.offset <= MaxLen
    BY <1>2, MirrorBounds DEF NoAck
  <2>4. /\ paired \in BOOLEAN /\ faults \in 0..MaxFaults /\ flaws \subseteq Flaws
        /\ tailer.assigned <= files /\ tailer.boundary \in {NoBoundary} \cup 0..MaxLen
    <3>1. 0 \in 0..MaxFaults /\ 0 <= 0
      BY MirrorBounds
    <3>2. paired \in BOOLEAN /\ faults \in 0..MaxFaults /\ flaws \subseteq Flaws
      BY <1>2, <3>1
    <3> QED BY <1>2, <1>3, <3>1, <3>2
  <2> QED BY <2>1, <2>2, <2>3, <2>4 DEF Bounded
<1>6. Waits
  BY <1>2, <1>3 DEF Waits
<1>7. Closing
  BY <1>2, <1>3, UntrackedIs DEF Closing, NoBoundary
<1>8. Held
  <2>1. Claims(pending, down) = {NoAck} /\ Saved = {NoMark} /\ Current = 0
    BY <1>2, <1>3 DEF Claims, Saved, Current, NoFile
  <2>2. Placed(Untracked) /\ Queued(<<>>) /\ Names({}) /\ NamedIn(<<>>) \subseteq {}
    BY TailerLimits DEF Placed, Queued, Names, NamedIn
  <2>3. MarkFits(NoMark, {}) /\ Backed(Untracked, {}) /\ Traced(Untracked, <<>>, {})
    <3>1. NoMark.ino = 0 /\ NoMark.offset = 0 /\ NoMark.generation = 0
      BY DEF NoMark
    <3>2. file.len = 0 /\ files = 0
      BY <1>2 DEF NoFile
    <3> QED BY <3>1, <3>2, UntrackedIs, MirrorBounds DEF MarkFits, Backed, Traced
  <2>4. AckKept(NoAck, 0, Untracked, <<>>, {}) /\ MarkKept(NoMark, 0, Untracked, <<>>)
    BY DEF AckKept, MarkKept, NoAck, NoMark
  <2> QED BY <1>2, <2>1, <2>2, <2>3, <2>4, UntrackedIs DEF Held, Holds, Promises
<1> QED BY <1>1, <1>5, <1>6, <1>7, <1>8 DEF SInv

LEMMA StutterSteady ==
  ASSUME SInv, UNCHANGED vars
  PROVE  SInv'
<1>1. UNCHANGED <<file, files, stream, tailer, sidecar, paired, up, store, pending, down, faults, flaws, named>>
  BY DEF vars
<1>2. IInv'
  BY StepKeeps DEF SInv
<1>3. Held'
  <2>1. Current' = Current /\ (Sound' => Sound)
    BY <1>1 DEF Current, Sound
  <2>2. Claims(pending', down') \subseteq Claims(pending, down) /\ {sidecar', tailer'.mark} \subseteq Saved
    BY <1>1 DEF Saved
  <2> QED BY <1>1, <2>1, <2>2, Assembled DEF SInv, Held
<1>4. Bounded'
  BY <1>1, BoundedStays DEF SInv, Bounded
<1>5. Waits' /\ Closing'
  BY <1>1 DEF SInv, Waits, Unread, Closing
<1> QED BY <1>2, <1>3, <1>4, <1>5 DEF SInv

LEMMA SStep == SInv /\ [Next]_vars => SInv'
<1> SUFFICES ASSUME SInv, [Next]_vars PROVE SInv'
  OBVIOUS
<1>1. CASE AppendToFile \/ Replace \/ DeleteFile
  BY <1>1, WritersSteady
<1>2. CASE Tick
  BY <1>2, TickSteady
<1>3. CASE TakeAck
  BY <1>3, TakeAckSteady
<1>4. CASE TakeGap
  BY <1>4, TakeGapSteady
<1>5. CASE WriteSidecar
  BY <1>5, WriteSidecarSteady
<1>6. CASE Quiesce
  BY <1>6, QuiesceSteady
<1>7. CASE DaemonCrashes \/ DaemonStops
  BY <1>7, DaemonEndsSteady
<1>8. CASE PairUp
  BY <1>8, PairUpSteady
<1>9. CASE PairBreaks
  BY <1>9, PairBreaksSteady
<1>10. CASE Deliver
  BY <1>10, DeliverSteady
<1>11. CASE FlushAcks
  BY <1>11, FlushAcksSteady
<1>12. CASE FleetCrashes
  BY <1>12, FleetCrashesSteady
<1>13. CASE UNCHANGED vars
  BY <1>13, StutterSteady
<1> QED BY <1>1, <1>2, <1>3, <1>4, <1>5, <1>6, <1>7, <1>8, <1>9, <1>10, <1>11, <1>12, <1>13 DEF Next

LEMMA SAlways == Spec => []SInv
<1>1. Init => SInv
  BY SInitially
<1>2. SInv /\ [Next]_vars => SInv'
  BY SStep
<1> QED BY <1>1, <1>2, PTL DEF Spec

LEMMA SInvTyped ==
  ASSUME SInv
  PROVE  TypeOK
<1>1. /\ file \in Files /\ files \in Nat /\ stream \in Streams /\ tailer \in Tailers /\ sidecar \in Marks
      /\ down \in Seq(Answers) /\ store \in Stores /\ up \in Seq(Chunks)
      /\ MaxLen \in Nat /\ MaxFiles \in Nat /\ MaxFaults \in Nat
      /\ FileOK /\ StoreFits(store) /\ Placed(stream) /\ Queued(up) /\ MarkFits(sidecar, named)
  BY MirrorBounds DEF SInv, IInv, Typed, Carried, Kept, Bounded, Held, Holds, Saved
<1>2. files <= MaxFiles /\ \A g \in Nat : g <= files => g \in Generations
  BY <1>1 DEF FileOK, Generations
<1>3. file \in [ino: 0..files, len: 0..MaxLen] /\ files \in 0..MaxFiles
  <2>1. file.ino \in 0..files /\ file.len \in 0..MaxLen
    BY <1>1 DEF FileOK, Files, NoFile
  <2> QED BY <1>1, <1>2, <2>1 DEF Files
<1>4. /\ stream \in [generation: Generations, acked: 0..MaxLen, sent: 0..MaxLen, ino: 0..files,
                     size: 0..MaxLen, watermark: 0..files, closed: BOOLEAN, eofSent: BOOLEAN,
                     gap: {NoGap} \cup 0..MaxLen]
      /\ stream.sent <= stream.size
  <2>1. CASE stream = Untracked
    <3>1. 0 \in Generations /\ 0 \in 0..files /\ 0 \in 0..MaxLen
      BY <1>1, <1>2
    <3> QED BY <2>1, <3>1 DEF Untracked
  <2>2. CASE Seen(stream)
    <3>1. /\ stream.generation \in Nat /\ stream.acked \in Nat /\ stream.sent \in Nat /\ stream.size \in Nat
          /\ stream.ino \in 1..files /\ stream.watermark = stream.ino /\ stream.generation <= stream.ino
          /\ stream.sent <= stream.size /\ stream.acked <= stream.size /\ stream.size <= MaxLen
          /\ stream.gap \in {NoGap} \cup 0..MaxLen
      BY <1>1, <2>2 DEF Streams, Seen
    <3>2. /\ stream.generation \in Generations /\ stream.acked \in 0..MaxLen /\ stream.sent \in 0..MaxLen
          /\ stream.size \in 0..MaxLen /\ stream.ino \in 0..files
      BY <1>1, <1>2, <3>1
    <3> QED BY <1>1, <3>1, <3>2 DEF Streams
  <2> QED BY <1>1, <2>1, <2>2 DEF Placed
<1>5. /\ tailer.life \in Lives /\ tailer.assigned \in Generations /\ tailer.timer \in BOOLEAN
      /\ tailer.boundary \in {NoBoundary} \cup 0..MaxLen
  BY <1>1, <1>2 DEF Tailers, SInv, Bounded
<1>6. sidecar \in [offset: 0..MaxLen, generation: Generations, ino: 0..files]
  <2>1. sidecar.offset \in 0..MaxLen /\ sidecar.generation \in Generations /\ sidecar.ino \in 0..files
    BY <1>1, <1>2 DEF MarkFits, Marks
  <2> QED BY <1>1, <2>1 DEF Marks
<1>7. Len(up) <= QueueMax
  BY <1>1 DEF Queued
<1>8. store.data \in Seq(1..MaxFiles) /\ EntryOK(store.entry) /\ EntryOK(store.index)
  <2>1. /\ store.data \in Seq(Nat) /\ Len(store.data) \in Nat
        /\ DOMAIN store.data = 1..Len(store.data)
        /\ store.entry \in Entries /\ store.index \in Entries
        /\ store.entry.generation \in Nat /\ store.entry.acked \in Nat
        /\ store.index.generation \in Nat /\ store.index.acked \in Nat
    BY <1>1, StoreNumbers
  <2>2. ASSUME NEW i \in 1..Len(store.data) PROVE store.data[i] \in 1..MaxFiles
    <3>1. store.data[i] \in 1..files
      BY <1>1, <2>1 DEF StoreFits, DataFits
    <3> QED BY <1>1, <1>2, <3>1
  <2>3. EntryOK(store.entry) /\ EntryOK(store.index)
    BY <1>1, <1>2, <2>1 DEF StoreFits, DataFits, EntryOK, Entries
  <2>4. store.data \in Seq(1..MaxFiles)
    <3> DEFINE d == store.data
    <3>1. d \in [1..Len(d) -> 1..MaxFiles] /\ Len(d) \in Nat
      BY <2>1, <2>2
    <3> HIDE DEF d
    <3>2. d \in Seq(1..MaxFiles)
      BY <3>1, SeqDef
    <3> QED BY <3>2 DEF d
  <2> QED BY <2>3, <2>4
<1>9. \A i \in DOMAIN down : down[i] \in Controls
  <2> SUFFICES ASSUME NEW i \in DOMAIN down PROVE down[i] \in Controls
    OBVIOUS
  <2>1. down[i] \in Answers /\ down[i].offset <= MaxLen
    BY <1>1 DEF SInv, Bounded
  <2> QED BY <1>1, <2>1 DEF Answers, Controls
<1> QED BY <1>3, <1>4, <1>5, <1>6, <1>7, <1>8, <1>9 DEF TypeOK, SInv, Bounded

LEMMA SInvStored ==
  ASSUME SInv, flaws \cap {"reused", "misread", "cut"} = {}, Tracks(stream), stream.acked > 0
  PROVE  /\ store.entry.generation = stream.generation
         /\ Len(store.data) \in Nat /\ DOMAIN store.data = 1..Len(store.data)
         /\ Len(store.data) >= stream.acked
         /\ \A i \in DOMAIN store.data : store.data[i] = stream.ino
         /\ Seen(stream) /\ stream.acked \in Nat
<1>1. Sound /\ OneEach(named)
  BY DEF Sound, SInv, IInv, OneFileEach, OneEach
<1>2. /\ Current = stream.ino
      /\ Follows(Claims(pending, down), Saved, stream, up, named, Sound)
  BY Started
<1>3. Honoured(stream.generation, stream.acked, stream, up)
  BY <1>1, <1>2 DEF Follows, Promises, Vouched
<1>4. stream \in Streams /\ Seen(stream) /\ <<stream.generation, stream.ino>> \in named
  BY <1>2, UntrackedIs DEF Follows, Placed, Backed
<1>5. /\ Len(store.data) \in Nat /\ DOMAIN store.data = 1..Len(store.data)
      /\ store.index.acked \in Nat /\ store.index.acked <= Len(store.data)
      /\ Owed(store.data, store.entry.generation, named)
  BY StoreNumbers DEF SInv, IInv, Kept, Bounded, StoreFits
<1>6. store.entry.generation = stream.generation /\ store.index.acked >= stream.acked
  BY <1>3 DEF Honoured
<1>7. stream.acked \in Nat
  BY <1>4 DEF Streams
<1>8. ASSUME NEW i \in DOMAIN store.data PROVE store.data[i] = stream.ino
  <2>1. <<stream.generation, store.data[i]>> \in named
    BY <1>5, <1>6 DEF Owed
  <2> QED BY <1>1, <1>4, <2>1 DEF OneEach
<1> QED BY <1>4, <1>5, <1>6, <1>7, <1>8

(* Every offset, generation and identity stays in its bounds: no offset    *)
(* passes the longest file, no generation the files there have been, and   *)
(* the tailer has sent nothing the file does not have.                     *)
THEOREM TypeCorrect == Spec => []TypeOK
<1>1. SInv => TypeOK
  BY SInvTyped
<1> QED BY <1>1, SAlways, PTL

(* What the tailer counts as acked is on the fleet's disk, in the          *)
(* generation the tailer has for the file and of that file alone, through  *)
(* every resend, repair, loss and restart of either side: the resume point *)
(* never skips a byte the fleet lacks.                                     *)
THEOREM AcksAreStored == Spec => []AckedIsStored
<1>1. ASSUME SInv PROVE AckedIsStored
  <2> SUFFICES ASSUME flaws \cap {"reused", "misread", "cut"} = {}, Tracks(stream), stream.acked > 0
               PROVE  /\ store.entry.generation = stream.generation
                      /\ Len(store.data) >= stream.acked
                      /\ \A i \in 1..stream.acked : store.data[i] = stream.watermark
    BY DEF AckedIsStored
  <2> QED BY <1>1, SInvStored DEF Seen
<1> QED BY <1>1, SAlways, PTL

(* When the gate of a deletion opens, the fleet has the whole file and     *)
(* nothing else: the acks that cover the boundary of finalizeForQuiesce    *)
(* are of the file's last byte, and no write comes after it.               *)
THEOREM GateIsSafe == Spec => []GateMeansStored
<1>1. ASSUME SInv PROVE GateMeansStored
  <2> SUFFICES ASSUME flaws \cap {"reused", "misread", "cut", "retried"} = {}, BoundaryAcked,
                      tailer.boundary > 0
               PROVE  store.data = Bytes(file.ino, file.len)
    BY DEF GateMeansStored
  <2>1. Tracks(stream) /\ stream.acked >= tailer.boundary /\ file.len \in Nat
    BY <1>1 DEF BoundaryAcked, SInv, IInv, Typed, Files
  <2>2. /\ tailer.boundary = file.len /\ stream.ino = file.ino /\ stream.size = file.len
    BY <1>1, <2>1 DEF SInv, Closing
  <2>3. stream \in Streams /\ stream.acked \in Nat /\ stream.acked > 0
    BY <1>1, <2>1, <2>2 DEF SInv, IInv, Typed, Streams
  <2>4. /\ Len(store.data) \in Nat /\ DOMAIN store.data = 1..Len(store.data)
        /\ Len(store.data) >= stream.acked
        /\ \A i \in DOMAIN store.data : store.data[i] = stream.ino
    BY <1>1, <2>1, <2>3, SInvStored
  <2>5. DataFits(store.data) /\ store.data \in Seq(Nat)
    BY <1>1, StoreNumbers DEF SInv, Bounded, StoreFits, IInv, Kept
  <2>6. Len(store.data) = file.len
    <3>1. Len(store.data) >= file.len
      BY <2>1, <2>2, <2>3, <2>4
    <3>2. Len(store.data) \in DOMAIN store.data
      BY <2>1, <2>2, <2>4, <3>1
    <3>3. Len(store.data) <= file.len
      BY <2>2, <2>4, <2>5, <3>2 DEF DataFits
    <3> QED BY <2>1, <2>4, <3>1, <3>3
  <2>7. Bytes(file.ino, file.len) = [i \in 1..Len(store.data) |-> stream.ino]
    BY <2>2, <2>6 DEF Bytes
  <2>8. store.data = [i \in 1..Len(store.data) |-> stream.ino]
    <3> DEFINE d == store.data
    <3>1. d \in [1..Len(d) -> Nat] /\ \A i \in 1..Len(d) : d[i] = stream.ino
      BY <2>4, <2>5
    <3> HIDE DEF d
    <3>2. d = [i \in 1..Len(d) |-> stream.ino]
      BY <3>1
    <3> QED BY <3>2 DEF d
  <2> QED BY <2>7, <2>8
<1> QED BY <1>1, SAlways, PTL
=============================================================================
