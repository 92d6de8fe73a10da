----------------------------- MODULE CloneFeed -----------------------------
(***************************************************************************)
(* A browser's event stream from a clone workspace, which no fleet can     *)
(* dial: the control broker of session/daemon-control.ts, as session/      *)
(* index.ts mounts it, and the callback pipe of fleet/edge.ts, over the    *)
(* pairs of CallbackPair.                                                  *)
(*                                                                         *)
(* The edge opens a stream, under an id of its own, by a control message,  *)
(* which it sends when a browser attaches and again whenever the pairs     *)
(* change.  The broker primes a stream it did not know, sends it the       *)
(* session's deltas while a pair is ready, and keeps a ring of them under  *)
(* the sequence numbers they went up with.                                 *)
(*                                                                         *)
(* A delta is a number: the k-th change of the session.  A prime is a      *)
(* snapshot, the number of changes so far.  Streams are numbered as        *)
(* browsers attach, and there is one browser.  What happens beyond the     *)
(* edge's pipe is BrowserFeed's matter.                                    *)
(*                                                                         *)
(* Left out: commands and acks, quiesce and its barrier, the caps on what  *)
(* is queued.                                                              *)
(*                                                                         *)
(* OpensOnce is a slip of the operator it stands before, for the mutants.  *)
(***************************************************************************)
EXTENDS CallbackPair, Integers

CONSTANTS
  RingCap,      \* RING_CAP
  MaxDeltas,    \* bound on the changes of the session
  MaxAttaches   \* bound on the attaches

ASSUME RingCapIsPositive == RingCap \in Nat \ {0}
ASSUME BoundsAreNatural == MaxDeltas \in Nat /\ MaxAttaches \in Nat

VARIABLES
  made,     \* the changes so far: they survive the process
  streams,  \* the broker's streams
  pipe,     \* the edge's callback pipe
  got       \* the last frame the pipe was given, and what it was told of

vars == <<pairVars, made, streams, pipe, got>>

Conns == 1..MaxAttaches

(* last: lastSeq, the floor.  evicted: evictedSeq.                          *)
Unknown == [open |-> FALSE, last |-> 0, ring |-> <<>>, evicted |-> 0]
Fresh == [Unknown EXCEPT !.open = TRUE]

(* conn: the number of the attach.  pair: pairConnectionId.                 *)
NoPipe == [conn |-> 0, open |-> FALSE, pair |-> 0, last |-> 0]
ClosedPipe == [NoPipe EXCEPT !.conn = pipe.conn]

(* The pair, the era and the change of the last frame that was no replay.   *)
(* told: the newest change that a frame of this attach told of, -1 if none. *)
NoFrame == [pair |-> 0, era |-> 0, n |-> 0, told |-> -1]

(* An envelope to a stream; pair and seq are stamped when it is sent.  era: *)
(* the pair that was ready when it was queued, which no code reads.         *)
Envelope(c, type, n) ==
  [conn |-> c, type |-> type, n |-> n, era |-> IF link.ready THEN link.pair ELSE 0,
   pair |-> 0, seq |-> 0]

Prime(c) == Envelope(c, "prime", made)
Ringed(env) == env.type \in {"prime", "delta"}

Init ==
  /\ PairInit
  /\ made = 0 /\ streams = [c \in Conns |-> Unknown]
  /\ pipe = NoPipe /\ got = NoFrame

-----------------------------------------------------------------------------
(* The broker.                                                             *)

\* onEmittedSeq, when an envelope of stream s leaves the queue.
Push(s, env) ==
  LET ring == Append(s.ring, [seq |-> env.seq, n |-> env.n])
      full == Len(ring) > RingCap
  IN [s EXCEPT !.ring = IF full THEN Tail(ring) ELSE ring,
               !.last = env.seq,
               !.evicted = IF full /\ Head(ring).seq > @ THEN Head(ring).seq ELSE @]

\* emit() of some envelopes, to streams that the action has come to.
Emit(strs, envs, ln) ==
  LET sent == Emitted(pending \o envs, ln)
      Own(c) == SelectSeq(sent, LAMBDA e : e.conn = c /\ Ringed(e))
  IN /\ Pump(pending \o envs, ln)
     /\ streams' = [c \in Conns |-> IF strs[c].open THEN FoldLeft(Push, strs[c], Own(c)) ELSE strs[c]]

\* openStream.  No floor is 0.
OpenStream(c, floor) ==
  LET known  == streams[c].open
      s      == [streams[c] EXCEPT !.open = TRUE, !.last = IF floor > 0 THEN floor ELSE @]
      missed == known /\ s.last > 0 /\ s.last < s.evicted
      hits   == SelectSeq(s.ring, LAMBDA e : e.seq > s.last)
      again  == [i \in 1..Len(hits) |-> Envelope(c, "again", hits[i].n)]
  IN \/ /\ missed
        /\ Emit([streams EXCEPT ![c] = [s EXCEPT !.ring = <<>>, !.evicted = 0]],
                <<Envelope(c, "stream_resync", 0), Prime(c)>>, link)
     \/ /\ ~missed
        /\ Emit([streams EXCEPT ![c] = [s EXCEPT !.last = IF hits = <<>> THEN @ ELSE Last(hits).seq]],
                again \o (IF known THEN <<>> ELSE <<Prime(c)>>), link)

\* The streams, in the order of the Map.
Known == SetToSortSeq({c \in Conns : streams[c].open}, <)

\* onPairChange: start() resolves once in the life of the process.
PrimeAll(ln) ==
  Emit([c \in Conns |-> IF streams[c].open THEN Fresh ELSE Unknown],
       [i \in 1..Len(Known) |-> Prime(Known[i])], ln)

\* #markReady and #supervise, and the wiring of index.ts.
PairReady ==
  LET ln == [link EXCEPT !.ready = TRUE, !.before = TRUE]
  IN IF link.before THEN link' = ln /\ UNCHANGED <<pending, upq, streams>> ELSE PrimeAll(ln)

\* A change of the session reaches mirror().
SessionActs ==
  /\ made < MaxDeltas
  /\ made' = made + 1
  /\ IF link.ready
       THEN Emit(streams, [i \in 1..Len(Known) |-> Envelope(Known[i], "delta", made')], link)
       ELSE UNCHANGED <<link, pending, upq, streams>>
  /\ UNCHANGED <<fleetVars, downq, cut, faults, pipe, got>>

\* A read of the body pulls.
Pulls ==
  /\ Taken(pending, link) > 0
  /\ Emit(streams, <<>>, link)
  /\ UNCHANGED <<fleetVars, downq, cut, faults, made, pipe, got>>

\* #consumeDown, routeDown and the broker's handlers.
DaemonReads ==
  \E p \in Readable :
    /\ downq[p] # <<>>
    /\ downq' = [downq EXCEPT ![p] = Tail(@)]
    /\ LET msg == Head(downq[p])
       IN \/ /\ msg.type = "pair_ready"
             /\ PairReady
          \/ /\ msg.type = "stream_open"
             /\ OpenStream(msg.conn, msg.n)
          \/ /\ msg.type = "stream_close"
             /\ streams' = [streams EXCEPT ![msg.conn] = Unknown]
             /\ UNCHANGED <<link, pending, upq>>
    /\ UNCHANGED <<fleetVars, cut, faults, made, pipe, got>>

\* #establishPair after the backoff; the body's start pumps.
Dials ==
  /\ ~link.open
  /\ Posts(link.pair + 1)
  /\ Emit(streams, <<>>, NextPair)
  /\ UNCHANGED <<ups, downs, downq, cut, faults, made, pipe, got>>

Fails == PairFails /\ UNCHANGED <<made, streams, pipe, got>>

-----------------------------------------------------------------------------
(* The edge's callback pipe.                                               *)

Message(type, n) == [type |-> type, conn |-> pipe.conn, n |-> n]

\* A stream that was opened on a pair is not opened on the next.
OpensOnce(dns, dq, pp) ==
  IF ~pp.open \/ dns = <<>> \/ pp.pair # 0
    THEN pipe' = pp /\ downq' = dq
    ELSE /\ pipe' = [pp EXCEPT !.pair = Last(dns)]
         /\ downq' = Sends(dq, Last(dns), [type |-> "stream_open", conn |-> pp.conn, n |-> 0])

\* #sendStreamOpen, on the pairs that the action has come to.
SendStreamOpen(dns, dq, pp) ==
  IF ~pp.open \/ ~Paired(dns)
    THEN pipe' = pp /\ downq' = dq
    ELSE LET floor == IF pp.pair = Last(dns) THEN pp.last ELSE 0
         IN /\ pipe' = [pp EXCEPT !.pair = Last(dns), !.last = floor]
            /\ downq' = Sends(dq, Last(dns), [type |-> "stream_open", conn |-> pp.conn, n |-> floor])

UpHalfArrives ==
  \E p \in Pairs :
    /\ UpArrives(p)
    /\ IF p \in ToSet(downs)
         THEN SendStreamOpen(downs, Announced(p), pipe)
         ELSE UNCHANGED <<downq, pipe>>
    /\ UNCHANGED <<made, streams, got>>

DownHalfArrives ==
  \E p \in Pairs :
    /\ DownArrives(p)
    /\ IF p \in ups
         THEN SendStreamOpen(downs', Announced(p), pipe)
         ELSE UNCHANGED <<downq, pipe>>
    /\ UNCHANGED <<made, streams, got>>

UpHalfEnds ==
  \E p \in Pairs :
    /\ UpEnds(p)
    /\ SendStreamOpen(downs, downq, pipe)
    /\ UNCHANGED <<made, streams, got>>

DownHalfEnds ==
  \E p \in Pairs :
    /\ DownEnds(p)
    /\ SendStreamOpen(downs', downq, pipe)
    /\ UNCHANGED <<made, streams, got>>

\* #onCallbackEnvelope, as far as the browser sees it.
Given(env) ==
  LET told == IF env.n > got.told THEN env.n ELSE got.told
  IN IF env.type = "stream_resync" THEN got
     ELSE IF env.type = "again" THEN [got EXCEPT !.told = told]
     ELSE [pair |-> env.pair, era |-> env.era, n |-> env.n, told |-> told]

\* #acceptUpRecord, #dispatchUpEnvelope, the drain and #onCallbackEnvelope.
FleetReads ==
  \E p \in ups :
    /\ <<p, "up">> \notin cut /\ upq[p] # <<>>
    /\ upq' = [upq EXCEPT ![p] = Tail(@)]
    /\ LET env == Head(upq[p])
           own == pipe.open /\ env.conn = pipe.conn
       IN /\ pipe' = IF own /\ env.seq > pipe.last THEN [pipe EXCEPT !.last = env.seq] ELSE pipe
          /\ got' = IF own THEN Given(env) ELSE got
    /\ UNCHANGED <<link, pending, fleetVars, downq, cut, faults, made, streams>>

\* #openCallbackPipe.
Attaches ==
  /\ ~pipe.open /\ pipe.conn < MaxAttaches
  /\ SendStreamOpen(downs, downq, [NoPipe EXCEPT !.conn = pipe.conn + 1, !.open = TRUE])
  /\ UNCHANGED <<link, pending, fleetVars, upq, cut, faults, made, streams, got>>

\* #closePipe: the browser leaves, attaches elsewhere or is dropped.
Detaches ==
  /\ pipe.open
  /\ pipe' = ClosedPipe /\ got' = NoFrame
  /\ downq' = IF Paired(downs) THEN Sends(downq, Last(downs), Message("stream_close", 0)) ELSE downq
  /\ UNCHANGED <<link, pending, fleetVars, upq, cut, faults, made, streams>>

-----------------------------------------------------------------------------
(* Faults.                                                                 *)

Breaks ==
  /\ \E half \in {"up", "down"} : Break(link.pair, half)
  /\ UNCHANGED <<made, streams, pipe, got>>

\* The renewal timer: a fresh pair at once.
Renews ==
  /\ Fault /\ link.ready
  /\ cut' = {} /\ Posts(link.pair + 1)
  /\ Emit(streams, <<>>, NextPair)
  /\ downq' = [downq EXCEPT ![link.pair] = <<>>]
  /\ UNCHANGED <<ups, downs, made, pipe, got>>

\* The process is replaced.
DaemonRestarts ==
  /\ Fault /\ link.pair > 0
  /\ link' = [NoLink EXCEPT !.pair = link.pair]
  /\ cut' = {} /\ posted' = {}
  /\ pending' = <<>> /\ streams' = [c \in Conns |-> Unknown]
  /\ downq' = [downq EXCEPT ![link.pair] = <<>>]
  /\ UNCHANGED <<ups, downs, upq, made, pipe, got>>

\* The fleet is replaced, and the browser will attach anew.
FleetRestarts ==
  /\ Fault
  /\ posted' = {} /\ ups' = {} /\ downs' = <<>>
  /\ cut' = IF link.open THEN Halves(link.pair) ELSE {}
  /\ upq' = [p \in Pairs |-> <<>>] /\ downq' = [p \in Pairs |-> <<>>]
  /\ pipe' = ClosedPipe /\ got' = NoFrame
  /\ UNCHANGED <<link, pending, made, streams>>

Next ==
  \/ SessionActs \/ Pulls \/ DaemonReads \/ Dials \/ Fails
  \/ UpHalfArrives \/ DownHalfArrives \/ UpHalfEnds \/ DownHalfEnds \/ FleetReads
  \/ Attaches \/ Detaches
  \/ Breaks \/ Renews \/ DaemonRestarts \/ FleetRestarts

Spec == Init /\ [][Next]_vars

(* The backoff ends, requests arrive, what is sent is read, and the daemon  *)
(* notices by its timers that a half is gone.  The fleet need not.          *)
Fairness ==
  /\ WF_vars(Dials) /\ WF_vars(Fails) /\ WF_vars(Pulls) /\ WF_vars(DaemonReads)
  /\ WF_vars(UpHalfArrives) /\ WF_vars(DownHalfArrives) /\ WF_vars(FleetReads)

FairSpec == Spec /\ Fairness

-----------------------------------------------------------------------------
(* Properties.                                                             *)

(* Everything has its type and the bounds of the buffers hold, those of     *)
(* the broker's rings among them.                                           *)
TypeOK ==
  /\ PairTypeOK
  /\ made \in 0..MaxDeltas
  /\ \A c \in Conns : Len(streams[c].ring) <= RingCap /\ (streams[c] = Unknown \/ streams[c].open)
  /\ pipe.conn \in 0..MaxAttaches /\ pipe.pair \in 0..link.pair

\* A step in which the pipe is given the next frame of pair p.
Gives(p) ==
  /\ upq[p] # <<>> /\ upq'[p] = Tail(upq[p])
  /\ p \in ups' /\ faults' = faults
  /\ pipe.open /\ Head(upq[p]).conn = pipe.conn

(* A gap or a repeat is confined to a change of pairs: a delta that was     *)
(* queued while the same pair was ready as the frame given before it, and   *)
(* sent over the same pair, follows that frame, whatever happens to the     *)
(* halves; nor does a prime go back.  (What the ring replays is no frame    *)
(* here.)                                                                   *)
WholeRuns ==
  [][\A p \in ups :
       LET env == Head(upq[p])
       IN Gives(p) /\ env.type \in {"prime", "delta"} /\ env.pair = got.pair /\ env.era = got.era
            => IF env.type = "delta" THEN env.n = got.n + 1 ELSE env.n >= got.n]_vars

Agreed == link.ready /\ Paired(downs) /\ Last(downs) = link.pair /\ link.pair \in ups

(* Once faults cease, the daemon and the fleet come to agree on one pair,   *)
(* and the broker knows the stream of an attached browser, whichever        *)
(* message about it was lost.                                               *)
StreamFound ==
  <>[](Agreed /\ (pipe.open => streams[pipe.conn].open /\ pipe.pair = link.pair))

(* Once faults cease, an attached browser is told of all the session has    *)
(* come to, by a delta or by a prime: the broker's comment and its test say *)
(* that a change of pairs primes every stream anew.  Refuted: what happens  *)
(* while no pair is ready is told to nobody, and index.ts lets the broker   *)
(* know of the first pair only.                                             *)
ToldInTheEnd == <>[](pipe.open => got.told = made)

(* The broker does not come to keep a stream whose browser has left, as the *)
(* comment of #closePipe says; refuted, for there is no other way to close  *)
(* a stream than the message.                                               *)
OrphansCollected ==
  <>[](\A c \in Conns : streams[c].open => pipe.open /\ pipe.conn = c)

(* What the ring replays is what the browser lacks; refuted, as the ring    *)
(* outlives the pair whose numbers it is kept under.                        *)
ReplaysWhatIsMissing ==
  [][\A p \in ups :
       LET env == Head(upq[p])
       IN Gives(p) /\ env.type = "again" => env.n > got.told]_vars
=============================================================================
