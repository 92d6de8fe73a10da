---------------------------- MODULE SessionStream ----------------------------
(***************************************************************************)
(* The downlink of a session daemon, GET /events: session/sse-delivery.ts, *)
(* the replay ring of lib/wire/sse.ts, and primeConsumer of                *)
(* session/index.ts, with one consumer.                                    *)
(*                                                                         *)
(* A consumer gets the live frames from the moment it opens.  Meanwhile it *)
(* is primed: the transcript as it was at the opening, paced to what the   *)
(* reader drains, then the frames the ring has kept since.  What is read   *)
(* at once in the code is one step here; the steps are the awaits.         *)
(*                                                                         *)
(* An event is a number: the k-th change of the transcript, which its live *)
(* frame adds and which every later history contains.  Buffers count       *)
(* frames where the code counts bytes.  Ids of priming frames, which are   *)
(* all below SSE_DELTA_SEQ_START, are Priming.                             *)
(*                                                                         *)
(* ReplaySinceEnd is a slip of the operator it stands before, for the      *)
(* mutants.                                                                *)
(***************************************************************************)
EXTENDS Naturals, SequencesExt

CONSTANTS
  DownCap,    \* SSE_BACKPRESSURE_BYTES, in frames
  RingCap,    \* SSE_RING_CAP
  MaxNews     \* bound on the events, the answers and the changes of projects in all

ASSUME CapsArePositive == DownCap \in Nat \ {0, 1} /\ RingCap \in Nat \ {0}
ASSUME NewsIsNatural == MaxNews \in Nat

VARIABLES
  made,     \* the events of the transcript, which outlives the process
  other,    \* how much of what MaxNews bounds was no event
  daemon,   \* the process: its number, nextDeltaSeq and the ring
  cons,     \* the consumer
  down      \* its buffered frames

sessionVars == <<made, other, daemon>>
streamVars  == <<cons, down>>
daemonVars  == <<sessionVars, streamVars>>

Priming == 0
DeltaStart == 1

NewProcess(n) == [run |-> n, next |-> DeltaStart, ring |-> <<>>]

NoConsumer == [st |-> "none", snap |-> 0, last |-> 0, history |-> 0]

(* last: the Last-Event-ID it came with; snap: nextDeltaSeq at its opening; *)
(* history: the transcript at its opening.                                  *)
Consumers == [st: {"none", "history", "replay", "live", "ended"}, snap: Nat, last: Nat,
              history: 0..MaxNews]

\* settled: nothing of the prime comes after it.  No code reads that.
Frame(type, seq, n) == [type |-> type, seq |-> seq, n |-> n, settled |-> cons.st = "live"]

FrameTypes == {"attached", "history", "event", "answer", "stream_reset", "projects"}

Attached == cons.st \in {"history", "replay", "live"}

-----------------------------------------------------------------------------
(* The ring and the buffer.                                                *)

\* SseRing.push: beyond its bounds the ring loses its head.
Push(ring, entry) ==
  LET longer == Append(ring, entry)
  IN IF Len(longer) > RingCap THEN Tail(longer) ELSE longer

\* SseRing.after
After(ring, seq) == SelectSeq(ring, LAMBDA entry : entry.seq > seq)

(* enqueueTo, one frame after the other: the frame that goes over the cap   *)
(* ends the stream; what is buffered stays, and a stream_reset says why.    *)
(* proc is the process when the frames have their ids.                      *)
Enqueue(frames, proc) ==
  LET room == DownCap - Len(down)
  IN \/ /\ Len(frames) <= room
        /\ down' = down \o frames
        /\ daemon' = proc
        /\ UNCHANGED cons
     \/ /\ Len(frames) > room
        /\ down' = Append(down \o SubSeq(frames, 1, room), Frame("stream_reset", proc.next, 0))
        /\ daemon' = [proc EXCEPT !.next = @ + 1]
        /\ cons' = [cons EXCEPT !.st = "ended"]

\* A frame for the streams attached, if there is one.
Broadcast(frame, proc) ==
  \/ Attached /\ Enqueue(<<frame>>, proc)
  \/ ~Attached /\ daemon' = proc /\ UNCHANGED streamVars

-----------------------------------------------------------------------------
(* What the session does, and its process.                                 *)

MoreNews == made + other < MaxNews

\* broadcastTo with a frame the ring keeps.
Event ==
  /\ MoreNews
  /\ made' = made + 1
  /\ Broadcast(Frame("event", daemon.next, made'),
               [daemon EXCEPT !.next = @ + 1,
                              !.ring = Push(@, [seq |-> daemon.next, n |-> made'])])
  /\ UNCHANGED other

\* broadcastAnswer: the ring keeps no answers, and their ids are gaps in it.
Answer ==
  /\ MoreNews
  /\ other' = other + 1
  /\ Broadcast(Frame("answer", daemon.next, 0), [daemon EXCEPT !.next = @ + 1])
  /\ UNCHANGED made

\* detachConsumer, and what was buffered is lost with the connection.
Detach == cons' = NoConsumer /\ down' = <<>>

\* The process is replaced; the transcript is read from its file.
Respawn ==
  /\ daemon' = NewProcess(daemon.run + 1)
  /\ UNCHANGED <<made, other>>

-----------------------------------------------------------------------------
(* GET /events.                                                            *)

\* openEventsResponse and primeConsumer up to its first await.
PrimeStart(lastEventId) ==
  /\ cons' = [st |-> "history", snap |-> daemon.next, last |-> lastEventId, history |-> made]
  /\ down' = <<Frame("attached", Priming, 0)>>
  /\ UNCHANGED sessionVars

\* enqueuePaced: the last of the history waits until it leaves a margin.
PrimeHistory ==
  /\ cons.st = "history"
  /\ Len(down) + 1 < DownCap
  /\ down' = Append(down, Frame("history", Priming, cons.history))
  /\ cons' = [cons EXCEPT !.st = "replay"]
  /\ UNCHANGED sessionVars

\* The mark is taken when the prime is through.
ReplaySinceEnd == daemon.next - 1

\* Where the replay starts: after what the reader has and what the history holds.
ResumeFrom ==
  IF cons.last >= DeltaStart /\ cons.last > cons.snap - 1 THEN cons.last ELSE cons.snap - 1

(* The rest of primeConsumer.  A first frame that does not follow is taken  *)
(* for an eviction, and the stream is closed without a word.                *)
PrimeEnd ==
  /\ cons.st = "replay"
  /\ LET replay  == After(daemon.ring, ResumeFrom)
         frames  == [i \in 1..Len(replay) |-> Frame("event", replay[i].seq, replay[i].n)]
         evicted == replay # <<>> /\ replay[1].seq > ResumeFrom + 1
         fits    == Len(down) + Len(frames) <= DownCap
     IN \/ /\ evicted
           /\ cons' = [cons EXCEPT !.st = "ended"]
           /\ UNCHANGED <<daemon, down>>
        \/ /\ ~evicted /\ fits
           /\ down' = down \o frames
           /\ cons' = [cons EXCEPT !.st = "live"]
           /\ UNCHANGED daemon
        \/ /\ ~evicted /\ ~fits
           /\ Enqueue(frames, daemon)
  /\ UNCHANGED <<made, other>>

-----------------------------------------------------------------------------
StreamInit ==
  /\ made = 0 /\ other = 0
  /\ daemon = NewProcess(1)
  /\ cons = NoConsumer /\ down = <<>>
=============================================================================
