----------------------------- MODULE LogMirror -----------------------------
(***************************************************************************)
(* How a session log reaches the fleet: the file its writers append to,    *)
(* the daemon's tailer (LogTailer), the callback pair, the fleet's store   *)
(* (LogStore) and the acknowledgements back, server.ts.                    *)
(*                                                                         *)
(* One file and one stream.  up holds the chunks between the tailer and    *)
(* the store: the callback queue, which outlives a pair, and what of it is *)
(* on the wire, a prefix that is lost when the pair breaks.  down holds    *)
(* the controls on their way to the tailer, which belong to one pair.  The *)
(* fleet's crash and its load() are one step, for the store is seen by     *)
(* nobody in between.  A Faults bound limits how often a pair breaks and   *)
(* a program ends.                                                         *)
(*                                                                         *)
(* flaws is a history of what happened that the protocol has no answer to, *)
(* named of the files each generation has been given to.                   *)
(***************************************************************************)
EXTENDS LogTailer

CONSTANTS
  MaxLen,    \* bound on the length of a file
  MaxFiles,  \* bound on the identities the path has in turn
  MaxFaults  \* bound on broken pairs, and on ends of the daemon and of the fleet

ASSUME MirrorBounds == MaxLen \in Nat /\ MaxFiles \in Nat /\ MaxFaults \in Nat

VARIABLES
  file,     \* the session log on the workspace's disk
  files,    \* identities given out so far
  stream,   \* the tailer's TrackedStream
  tailer,   \* the rest of the tailer: its life, generations, sidecar timer, flush boundary
  sidecar,  \* the acked watermark on the workspace's disk
  paired,   \* a callback pair is live
  up,       \* chunks on their way to the fleet
  store,    \* the fleet's store
  pending,  \* the batch of acks waiting for its flush
  down,     \* log_ack and log_gap on their way to the daemon
  faults,   \* broken pairs and ended programs so far
  flaws,    \* history
  named     \* history: which generation was given to which file

vars == <<file, files, stream, tailer, sidecar, paired, up, store, pending, down, faults, flaws, named>>

Lives == {"starting", "running", "quiesced"}

(* boundary: the offset quiesce must see acked, NoBoundary if there is     *)
(* none.                                                                   *)
NoBoundary == -1

NewTailer(mark) ==
  [life |-> "starting", assigned |-> 0, mark |-> mark, timer |-> FALSE, boundary |-> NoBoundary]

(* generation is that of the chunk acked; the message carries no such      *)
(* field, it is there to tell a misread ack.                               *)
NoAck == [offset |-> 0, generation |-> 0]

Controls == [type: {"log_ack", "log_gap"}, offset: 0..MaxLen, generation: Nat]

Flaws == {"lost",    \* a chunk or a control was lost, or the daemon ended
          "reused",  \* a generation was given to two files, by the tailer or by load()
          "misread", \* an ack of one generation was taken for another
          "cut",     \* recovery cut bytes the index had as acked
          "rewound", \* the ring overflowed and was rewound
          "retried"} \* quiesce was asked for again while a log_gap had sent rewound

Init ==
  /\ file = NoFile
  /\ files = 0
  /\ stream = Untracked
  /\ tailer = NewTailer(NoMark)
  /\ sidecar = NoMark
  /\ paired = FALSE
  /\ up = <<>>
  /\ store = EmptyStore
  /\ pending = NoAck
  /\ down = <<>>
  /\ faults = 0
  /\ flaws = {}
  /\ named = {}

(***************************************************************************)
(* The writers of the session log                                          *)
(***************************************************************************)
WriterUnchanged ==
  UNCHANGED <<stream, tailer, sidecar, paired, up, store, pending, down, faults, flaws, named>>

(* Quiesce has closed the session and flushed its writers.                 *)
Writable == tailer.life # "quiesced"

AppendToFile ==
  /\ Writable
  /\ file # NoFile
  /\ file.len < MaxLen
  /\ file' = [file EXCEPT !.len = @ + 1]
  /\ UNCHANGED files
  /\ WriterUnchanged

(* A new session file, or another renamed over it.                         *)
Replace ==
  /\ Writable
  /\ files < MaxFiles
  /\ files' = files + 1
  /\ \E n \in 0..MaxLen : file' = [ino |-> files + 1, len |-> n]
  /\ WriterUnchanged

DeleteFile ==
  /\ Writable
  /\ file # NoFile
  /\ file' = NoFile
  /\ UNCHANGED files
  /\ WriterUnchanged

(***************************************************************************)
(* The daemon                                                              *)
(***************************************************************************)
NamedIn(queue) ==
  {<<queue[i].generation, queue[i].data[1]>> : i \in {j \in DOMAIN queue : queue[j].data # <<>>}}

Reuse(names) == IF \E p, q \in names : p[1] = q[1] /\ p[2] # q[2] THEN {"reused"} ELSE {}

(* The tailer goes on with this tail; more is what went wrong on the way.  *)
Sends(tail, more) ==
  /\ stream' = tail.stream
  /\ up' = tail.queue
  /\ named' = named \cup NamedIn(tail.queue)
  /\ flaws' = flaws \cup more \cup Reuse(named')

(* #scan finds a file it does not track.                                   *)
Found == ~Tracks(stream) /\ file # NoFile

Discovered == IF Found THEN Track(tailer.assigned, tailer.mark) ELSE stream

(* #scan and #drainAll: on every tick, on a watch event, and by start().   *)
Scan ==
  /\ \E s \in {Discovered} :
     \E tail \in (IF Tracks(s) THEN Drain(s, file, up) ELSE {Tails(s, up)}) :
     \E next \in CheckRing(tail, file) :
        Sends(next, IF Overflows(tail.stream) THEN {"rewound"} ELSE {})
  /\ tailer' = [tailer EXCEPT !.life = "running",
                              !.assigned = IF Found THEN Discovered.generation ELSE @]

Tick ==
  /\ tailer.life = "running"
  /\ Scan
  /\ UNCHANGED <<file, files, sidecar, paired, store, pending, down, faults>>

(* handleControl                                                           *)
TakeAck ==
  /\ down # <<>> /\ Head(down).type = "log_ack"
  /\ down' = Tail(down)
  /\ LET m == Head(down)
         running == tailer.life = "running"
         s == IF Heeds(stream, m.offset) THEN Acknowledged(stream, m.offset) ELSE stream
         advanced == s.acked > stream.acked
     IN  /\ \E tail \in (IF running /\ Heeds(stream, m.offset) THEN Drain(s, file, up)
                          ELSE {Tails(s, up)}) :
              Sends(tail, IF advanced /\ m.generation # stream.generation THEN {"misread"} ELSE {})
         /\ tailer' = [tailer EXCEPT !.timer = @ \/ (running /\ advanced)]
  /\ UNCHANGED <<file, files, sidecar, paired, store, pending, faults>>

TakeGap ==
  /\ down # <<>> /\ Head(down).type = "log_gap"
  /\ down' = Tail(down)
  /\ \E tail \in RepairRange(stream, Head(down).offset, file, up) : Sends(tail, {})
  /\ UNCHANGED <<file, files, tailer, sidecar, paired, store, pending, faults>>

WriteSidecar ==
  /\ tailer.timer
  /\ tailer' = [tailer EXCEPT !.timer = FALSE]
  /\ sidecar' = MarkOf(stream)
  /\ UNCHANGED <<file, files, stream, paired, up, store, pending, down, faults, flaws, named>>

(* The boundary a finalized stream has: where its end was sent.  A stream  *)
(* dropped because its file is gone still has one.                         *)
Boundary(tail) ==
  CASE tail.stream.eofSent -> tail.stream.sent
    [] ~Tracks(tail.stream) /\ tail.queue # up -> stream.sent
    [] OTHER -> NoBoundary

(* finalizeForQuiesce.  A quiesce that failed, or that waited in vain for  *)
(* the acks, may be asked for again.                                       *)
Quiesce ==
  /\ tailer.life \in {"running", "quiesced"}
  /\ \E tail \in Finalize(stream, file, up) :
         /\ Sends(tail, IF Finished(stream) /\ stream.sent < stream.size THEN {"retried"} ELSE {})
         /\ sidecar' = MarkOf(tail.stream)
         /\ tailer' = [tailer EXCEPT !.life = "quiesced", !.timer = FALSE, !.boundary = Boundary(tail)]
  /\ UNCHANGED <<file, files, paired, store, pending, down, faults>>

(* The daemon ends, by a crash or after stop(), and is started again.  The *)
(* tailer starts with the first pair.                                      *)
DaemonEnds(mark) ==
  /\ faults < MaxFaults
  /\ faults' = faults + 1
  /\ flaws' = flaws \cup {"lost"}
  /\ sidecar' = mark
  /\ tailer' = NewTailer(mark)
  /\ stream' = Untracked
  /\ up' = <<>> /\ down' = <<>>
  /\ paired' = FALSE
  /\ UNCHANGED <<file, files, store, pending, named>>

DaemonCrashes == DaemonEnds(sidecar)

DaemonStops == DaemonEnds(MarkOf(stream))

(***************************************************************************)
(* The callback pair                                                       *)
(***************************************************************************)
PairUp ==
  /\ ~paired
  /\ paired' = TRUE
  /\ IF tailer.life = "starting" THEN Scan ELSE UNCHANGED <<stream, up, tailer, flaws, named>>
  /\ UNCHANGED <<file, files, sidecar, store, pending, down, faults>>

(* The first n chunks of up were on the wire.                              *)
Breaks(n, more) ==
  /\ faults < MaxFaults
  /\ faults' = faults + 1
  /\ paired' = FALSE
  /\ up' = SubSeq(up, n + 1, Len(up))
  /\ down' = <<>>
  /\ flaws' = flaws \cup more \cup (IF n > 0 \/ down # <<>> THEN {"lost"} ELSE {})

PairBreaks ==
  /\ paired
  /\ \E n \in 0..Len(up) : Breaks(n, {})
  /\ UNCHANGED <<file, files, stream, tailer, sidecar, store, pending, named>>

(***************************************************************************)
(* The fleet                                                               *)
(***************************************************************************)
(* #onLogEnvelope                                                          *)
Deliver ==
  /\ paired /\ up # <<>>
  /\ up' = Tail(up)
  /\ LET c == Head(up)
         verdict == Verdict(store, c)
     IN  /\ store' = Ingest(store, c)
         /\ pending' = IF verdict = "acked"
                       THEN [offset |-> End(c), generation |-> c.generation] ELSE pending
         /\ down' = IF verdict = "gap"
                    THEN Append(down, [type |-> "log_gap", offset |-> Len(store'.data),
                                       generation |-> c.generation])
                    ELSE down
  /\ UNCHANGED <<file, files, stream, tailer, sidecar, paired, faults, flaws, named>>

(* #flushLogAcks: without a pair the batch is dropped.                     *)
FlushAcks ==
  /\ pending # NoAck
  /\ pending' = NoAck
  /\ IF paired
     THEN /\ down' = Append(down, [type |-> "log_ack", offset |-> pending.offset,
                                   generation |-> pending.generation])
          /\ UNCHANGED flaws
     ELSE /\ flaws' = flaws \cup {"lost"}
          /\ UNCHANGED down
  /\ UNCHANGED <<file, files, stream, tailer, sidecar, paired, up, store, faults, named>>

(* load() gives generation 1 to bytes the index does not know.             *)
NamedByLoad(disk, loaded) ==
  IF disk.index = NoEntry /\ loaded.data # <<>> THEN {<<1, loaded.data[1]>>} ELSE {}

(* The fleet ends between two chunks or while it ingests one.              *)
FleetCrashes ==
  /\ \E n \in 0..Len(up) :
     \E disk \in {store} \cup (IF paired /\ n > 0 THEN Interrupted(store, Head(up)) ELSE {}) :
       /\ store' = Loaded(disk)
       /\ named' = named \cup NamedByLoad(disk, store')
       /\ Breaks(n, Reuse(named') \cup (IF pending # NoAck THEN {"lost"} ELSE {})
                    \cup (IF Len(store'.data) < disk.index.acked /\ disk.index.acked <= Len(disk.data)
                          THEN {"cut"} ELSE {}))
       /\ (paired \/ n = 0)
  /\ pending' = NoAck
  /\ UNCHANGED <<file, files, stream, tailer, sidecar>>

Next ==
  \/ AppendToFile \/ Replace \/ DeleteFile
  \/ Tick \/ TakeAck \/ TakeGap \/ WriteSidecar \/ Quiesce \/ DaemonCrashes \/ DaemonStops
  \/ PairUp \/ PairBreaks
  \/ Deliver \/ FlushAcks \/ FleetCrashes

Spec == Init /\ [][Next]_vars

(* The tick's interval, the ack flush's timer, the dial of a new pair and  *)
(* its two readers.                                                        *)
FairSpec ==
  /\ Spec
  /\ WF_vars(Tick) /\ WF_vars(TakeAck) /\ WF_vars(TakeGap)
  /\ WF_vars(PairUp) /\ WF_vars(Deliver) /\ WF_vars(FlushAcks)
-----------------------------------------------------------------------------
Generations == 0..(2 * MaxFiles + MaxFaults + 1)

EntryOK(e) == e.generation \in Generations /\ e.acked \in 0..MaxLen /\ e.eof \in BOOLEAN

(* Types and bounds: no offset passes the longest file and the tailer has  *)
(* sent nothing the file does not have.                                    *)
TypeOK ==
  /\ file \in [ino: 0..files, len: 0..MaxLen] /\ files \in 0..MaxFiles
  /\ stream \in [generation: Generations, acked: 0..MaxLen, sent: 0..MaxLen, ino: 0..files,
                 size: 0..MaxLen, watermark: 0..files, closed: BOOLEAN, eofSent: BOOLEAN,
                 gap: {NoGap} \cup 0..MaxLen]
  /\ tailer.life \in Lives /\ tailer.assigned \in Generations /\ tailer.timer \in BOOLEAN
  /\ tailer.boundary \in {NoBoundary} \cup 0..MaxLen
  /\ sidecar \in [offset: 0..MaxLen, generation: Generations, ino: 0..files]
  /\ paired \in BOOLEAN
  /\ Len(up) <= QueueMax
  /\ store.data \in Seq(1..MaxFiles) /\ EntryOK(store.entry) /\ EntryOK(store.index)
  /\ \A i \in DOMAIN down : down[i] \in Controls
  /\ faults \in 0..MaxFaults /\ flaws \subseteq Flaws
  /\ stream.sent <= stream.size

(* The store is byte-identical to one file whatever generations its chunks *)
(* had (log-store.ts:6), which the code does not keep.                     *)
ByteIdentical == \A i, j \in DOMAIN store.data : store.data[i] = store.data[j]

(* The mirror is byte-identical to one file, never one file's head with    *)
(* another's tail, through resends, repairs, lost chunks, and crashes of   *)
(* either side, unless one generation was given to two files.              *)
StoresOneFile == "reused" \notin flaws => ByteIdentical

(* What the tailer counts as acked is on the fleet's disk: the resume      *)
(* point after a restart never skips a byte the fleet lacks.               *)
AckedIsStored ==
  flaws \cap {"reused", "misread", "cut"} = {} /\ Tracks(stream) /\ stream.acked > 0 =>
    /\ store.entry.generation = stream.generation
    /\ Len(store.data) >= stream.acked
    /\ \A i \in 1..stream.acked : store.data[i] = stream.watermark

BoundaryAcked ==
  /\ tailer.life = "quiesced" /\ tailer.boundary # NoBoundary
  /\ Tracks(stream) /\ stream.acked >= tailer.boundary

(* Deletion of the workspace is allowed once the acks cover the flush      *)
(* boundary; by then the fleet has the whole file.  An empty file's        *)
(* boundary is covered at once, so it says nothing of that one.            *)
GateMeansStored ==
  flaws \cap {"reused", "misread", "cut", "retried"} = {} /\ BoundaryAcked /\ tailer.boundary > 0 =>
    store.data = Bytes(file.ino, file.len)

(* The file up to its last complete line, or all of it when it is not      *)
(* line-oriented or was closed.                                            *)
Due ==
  IF ~Jsonl \/ stream.closed THEN file.len ELSE LastLineEnd(file.len)

Mirrored ==
  \/ file = NoFile
  \/ Len(store.data) >= Due /\ \A i \in 1..Due : store.data[i] = file.ino
  \/ tailer.life = "quiesced" /\ tailer.boundary = NoBoundary

(* Once the writers pause the fleet has all they wrote, if nothing was     *)
(* lost on the way and the ring was not rewound.                           *)
CatchesUp == [](flaws \subseteq {"misread", "retried"}) => <>[]Mirrored

(* The flush boundary of a log that exists is acked in the end, and the    *)
(* workspace may be deleted, if nothing was lost on the way and the ring   *)
(* was not rewound.                                                        *)
GateOpens ==
  [](flaws \subseteq {"misread"}) =>
    <>[](tailer.life = "quiesced" /\ tailer.boundary # NoBoundary /\ file # NoFile => BoundaryAcked)

(* After the ring overflows and is rewound the stream goes on to its end   *)
(* (log-tailer.ts:55), which the code does not keep.                       *)
RewindRecovers ==
  [](tailer.life # "quiesced" /\ flaws \subseteq {"rewound"}) => <>[]Mirrored
=============================================================================
