----------------------------- MODULE LogTailer -----------------------------
(***************************************************************************)
(* The daemon's tailing of one session log, apps/session/log-tailer.ts, as *)
(* operators.  Every method of it is synchronous.                          *)
(*                                                                         *)
(* A file is its identity (dev and ino, 0 when there is no file) and its   *)
(* length.  The writers replace a log by renaming another over it, so an   *)
(* identity stands for its bytes: they are appended to and never change.   *)
(* A stream is what the tailer tracks of the file (TrackedStream); ino and *)
(* watermark are the identities seen at the last look and under the acked  *)
(* offset.  gap is the end of the range under repair, NoGap when there is  *)
(* none.  A tail pairs a stream with the callback queue its chunks go to.  *)
(*                                                                         *)
(* ResyncKeepingSent, ResyncKeepingAcked, SendNextUnheard, SettledEarly    *)
(* and HeedsBelow are slips of the operator each stands before, for the    *)
(* mutants.                                                                *)
(***************************************************************************)
EXTENDS Integers, LogStore

CONSTANTS
  Jsonl,     \* whether the file's name ends in .jsonl
  ChunkMax,  \* LOG_CHUNK_MAX_BYTES
  RingMax,   \* SESSION_RING_MAX_BYTES
  QueueMax   \* chunks of this stream the callback queue has room for

ASSUME TailerLimits ==
  Jsonl \in BOOLEAN /\ ChunkMax \in Nat \ {0} /\ RingMax \in Nat \ {0} /\ QueueMax \in Nat \ {0}

NoFile == [ino |-> 0, len |-> 0]

Bytes(ino, n) == [i \in 1..n |-> ino]

NoGap == -1

NoMark == [offset |-> 0, generation |-> 0, ino |-> 0]

Untracked ==
  [generation |-> 0, acked |-> 0, sent |-> 0, ino |-> 0, size |-> 0, watermark |-> 0,
   closed |-> FALSE, eofSent |-> FALSE, gap |-> NoGap]

Tracks(s) == s.generation > 0

(* The end of the stream has been sent.                                    *)
Finished(s) == s.closed /\ s.eofSent

(***************************************************************************)
(* Discovery                                                               *)
(***************************************************************************)
(* assigned is the generation given out when the path was last tracked in  *)
(* this process; mark is the sidecar's entry as this process loaded it.    *)
NextGeneration(assigned, mark) ==
  CASE assigned > 0 -> assigned + 1
    [] assigned = 0 /\ mark.generation > 0 -> mark.generation
    [] OTHER -> 1

Track(assigned, mark) ==
  LET m == IF assigned = 0 THEN mark ELSE NoMark
  IN  [Untracked EXCEPT !.generation = NextGeneration(assigned, mark),
                        !.acked = m.offset, !.sent = m.offset, !.watermark = m.ino]

(***************************************************************************)
(* #drain                                                                  *)
(***************************************************************************)
ResyncKeepingSent(s) ==
  [s EXCEPT !.generation = @ + 1, !.acked = 0, !.gap = NoGap, !.closed = FALSE, !.eofSent = FALSE]

ResyncKeepingAcked(s) ==
  [s EXCEPT !.generation = @ + 1, !.sent = 0, !.gap = NoGap, !.closed = FALSE, !.eofSent = FALSE]

Resync(s) ==
  [s EXCEPT !.generation = @ + 1, !.acked = 0, !.sent = 0, !.gap = NoGap,
            !.closed = FALSE, !.eofSent = FALSE]

(* Another identity, a shorter file, or a file shorter than the offset the *)
(* sidecar restored.                                                       *)
Diverged(s, f) ==
  \/ s.ino # 0 /\ f.ino # s.ino
  \/ f.len < s.size
  \/ s.ino = 0 /\ s.acked > 0 /\ f.len < s.sent

(* The watermark belongs to another file than the one now on disk.         *)
Outdated(s, f) == s.watermark # 0 /\ s.acked > 0 /\ s.watermark # f.ino

Looked(s, f) ==
  LET d == IF Diverged(s, f) THEN Resync(s) ELSE s
      w == IF Outdated(d, f) THEN Resync(d) ELSE d
  IN  [w EXCEPT !.ino = f.ino, !.size = f.len, !.watermark = f.ino]

Unacked(s) == IF s.sent > s.acked THEN s.sent - s.acked ELSE 0

RingExhausted(s) == Unacked(s) >= RingMax

(* Where the next chunk ends: a live JSONL file is cut after a line, and   *)
(* its torn last line is held back unless it fills a chunk.                *)
Cut(s) ==
  LET full == IF s.sent + ChunkMax < s.size THEN s.sent + ChunkMax ELSE s.size
      line == LastLineEnd(full)
  IN  CASE ~Jsonl \/ s.closed -> full
        [] Jsonl /\ ~s.closed /\ line > s.sent -> line
        [] OTHER -> IF full = s.sent + ChunkMax THEN full ELSE s.sent

Chunk(s, end, eof) ==
  [generation |-> s.generation, offset |-> s.sent, eof |-> eof,
   data |-> Bytes(s.ino, end - s.sent)]

Room(queue) == Len(queue) < QueueMax

Tails(s, queue) == [stream |-> s, queue |-> queue]

SendNextUnheard(tail) ==
  LET s == tail.stream
      end == Cut(s)
  IN  IF s.sent < s.size /\ ~RingExhausted(s) /\ end > s.sent
      THEN Tails([s EXCEPT !.sent = end],
                 IF Room(tail.queue)
                 THEN Append(tail.queue, Chunk(s, end, s.closed /\ end = s.size)) ELSE tail.queue)
      ELSE tail

(* One turn of the read loop; it ends by changing nothing when the file is *)
(* sent, the ring is exhausted, the tail is held or the queue is full.     *)
SendNext(tail) ==
  LET s == tail.stream
      end == Cut(s)
  IN  IF s.sent < s.size /\ ~RingExhausted(s) /\ end > s.sent /\ Room(tail.queue)
      THEN Tails([s EXCEPT !.sent = end],
                 Append(tail.queue, Chunk(s, end, s.closed /\ end = s.size)))
      ELSE tail

(* Each turn takes a place in the queue, so QueueMax turns are all.  What  *)
(* follows a drain is given as the set of tails it may leave, of which     *)
(* there is one: TLC then computes every turn once, ENABLED included.      *)
SendAll(tail) ==
  LET turns[n \in 0..QueueMax] ==
        IF n = 0 THEN {tail} ELSE {SendNext(t) : t \in turns[n - 1]}
  IN  turns[QueueMax]

(* The marker that ends a closed file, and one whose file is gone.         *)
SendEof(tail) ==
  IF ~tail.stream.eofSent /\ Room(tail.queue)
  THEN Tails([tail.stream EXCEPT !.eofSent = TRUE],
             Append(tail.queue, Chunk(tail.stream, tail.stream.sent, TRUE)))
  ELSE tail

DropStream(s, queue) ==
  IF Finished(s) THEN Tails(s, queue)
  ELSE Tails(Untracked, SendEof(Tails(s, queue)).queue)

SettledEarly(looked, tail) ==
  IF tail.stream.closed /\ ~looked.eofSent THEN SendEof(tail) ELSE tail

Settled(looked, tail) ==
  IF tail.stream.closed /\ tail.stream.sent = tail.stream.size /\ ~looked.eofSent
  THEN SendEof(tail)
  ELSE tail

Sent(looked, queue) ==
  IF Finished(looked) THEN {Tails(looked, queue)}
  ELSE {Settled(looked, t) : t \in SendAll(Tails(looked, queue))}

Drain(s, f, queue) ==
  IF f = NoFile THEN {DropStream(s, queue)}
  ELSE UNION {Sent(looked, queue) : looked \in {Looked(s, f)}}

(* finalizeForQuiesce: a stream that is not finished is closed and drained *)
(* to its end.                                                             *)
Finalize(s, f, queue) ==
  IF ~Tracks(s) \/ Finished(s) THEN {Tails(s, queue)}
  ELSE Drain([s EXCEPT !.closed = TRUE], f, queue)

(***************************************************************************)
(* Ring and repair                                                         *)
(***************************************************************************)
Overflows(s) == Tracks(s) /\ Unacked(s) > RingMax /\ s.gap = NoGap

(* #checkRing after a drain: a ring beyond its limit is sent again from    *)
(* the acked offset, unless a repair is under way.                         *)
CheckRing(tail, f) ==
  LET s == tail.stream
  IN  IF Overflows(s)
      THEN Drain([s EXCEPT !.gap = s.sent, !.sent = s.acked], f, tail.queue)
      ELSE {tail}

(* log_gap                                                                 *)
RepairRange(s, from, f, queue) ==
  LET target == IF from < s.sent THEN from ELSE s.sent
  IN  IF ~Tracks(s) \/ (target >= s.sent /\ s.gap = NoGap) THEN {Tails(s, queue)}
      ELSE Drain([s EXCEPT !.gap = s.sent, !.sent = target], f, queue)

HeedsBelow(s, offset) == Tracks(s) /\ offset < s.sent

(* log_ack: an offset beyond what was sent is ignored.                     *)
Heeds(s, offset) == Tracks(s) /\ offset <= s.sent

Acknowledged(s, offset) ==
  LET acked == IF offset > s.acked THEN offset ELSE s.acked
  IN  [s EXCEPT !.acked = acked, !.gap = IF @ # NoGap /\ acked >= @ THEN NoGap ELSE @]

(* The sidecar's record of a stream; streams nothing of which is acked are *)
(* left out of it.                                                         *)
MarkOf(s) ==
  IF s.acked > 0 THEN [offset |-> s.acked, generation |-> s.generation, ino |-> s.ino] ELSE NoMark
=============================================================================
