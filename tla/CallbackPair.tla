---------------------------- MODULE CallbackPair ----------------------------
(***************************************************************************)
(* The callback transport of one clone workspace: FleetCallback of         *)
(* session/fleet-callback.ts, which dials, and the pairs kept by           *)
(* DaemonTransportRegistry of fleet/daemon-transport.ts.                   *)
(*                                                                         *)
(* A pair is two requests of the daemon under one connection id: the body  *)
(* of the first carries envelopes up, the answer to the second carries     *)
(* them down.  Pairs are numbered as they are dialed.  The daemon replaces *)
(* both halves when either fails.  The fleet learns of the end of each     *)
(* half by itself and late, so halves of several pairs can be live there.  *)
(*                                                                         *)
(* What is on its way in a half that the network cuts is lost.  When the   *)
(* daemon aborts a pair, the fleet can still read what was sent before,    *)
(* but no request that had not arrived.                                    *)
(*                                                                         *)
(* Left out: heartbeats, as the silence they prevent is a fault here; the  *)
(* byte caps; refused credentials, which WorkspaceLifecycle has; the       *)
(* replay by Last-Event-ID, as no connection id is dialed twice.           *)
(*                                                                         *)
(* Doubled is a slip of the operator it stands before, for a mutant.       *)
(***************************************************************************)
EXTENDS Naturals, SequencesExt, FiniteSets

CONSTANTS
  UpRoom,    \* how many envelopes a half takes before the other end reads
  MaxFaults  \* bound on cut halves, renewals and restarts

ASSUME UpRoomIsPositive == UpRoom \in Nat \ {0}
ASSUME FaultsAreNatural == MaxFaults \in Nat

VARIABLES
  link,     \* the daemon's pair
  pending,  \* its outbound queue
  posted,   \* the requests on their way
  ups,      \* #upConnections
  downs,    \* #downConnections, a Map in the order of insertion
  upq,      \* what each up half carries
  downq,    \* what each down half carries
  cut,      \* the halves of the daemon's pair that carry nothing more
  faults    \* what MaxFaults bounds

fleetVars == <<posted, ups, downs>>
pairVars == <<link, pending, fleetVars, upq, downq, cut, faults>>

(* Every pair but the first follows a fault.                               *)
Pairs == 1..(MaxFaults + 1)
Halves(p) == {<<p, "up">>, <<p, "down">>}

(* pair: the newest.  open: it is not torn down.  ready: #state is "ready". *)
(* seq: the last one stamped.  before: #everReady.                          *)
NoLink == [pair |-> 0, open |-> FALSE, ready |-> FALSE, seq |-> 0, before |-> FALSE]
Links == [pair: Nat, open: BOOLEAN, ready: BOOLEAN, seq: Nat, before: BOOLEAN]

PairInit ==
  /\ link = NoLink /\ pending = <<>>
  /\ posted = {} /\ ups = {} /\ downs = <<>>
  /\ upq = [p \in Pairs |-> <<>>] /\ downq = [p \in Pairs |-> <<>>]
  /\ cut = {} /\ faults = 0

Fault == faults < MaxFaults /\ faults' = faults + 1

-----------------------------------------------------------------------------
(* The daemon's half.                                                      *)

\* How much of a queue the pair ln takes now.
Taken(queue, ln) ==
  IF ln.open /\ <<ln.pair, "up">> \notin cut
    THEN LET room == UpRoom - Len(upq[ln.pair]) IN IF room < Len(queue) THEN room ELSE Len(queue)
    ELSE 0

\* A read of the body pumps again while the head is still in the queue.
Doubled(queue, ln) ==
  [i \in 1..Taken(queue, ln) |->
     [queue[IF i = 2 THEN 1 ELSE i] EXCEPT !.pair = ln.pair, !.seq = ln.seq + i]]

\* What #pump puts on the body of the pair ln, stamped.
Emitted(queue, ln) ==
  [i \in 1..Taken(queue, ln) |-> [queue[i] EXCEPT !.pair = ln.pair, !.seq = ln.seq + i]]

\* #pump, on the queue and the pair that an action has come to.
Pump(queue, ln) ==
  LET sent == Emitted(queue, ln)
  IN /\ pending' = SubSeq(queue, Len(sent) + 1, Len(queue))
     /\ upq' = IF sent = <<>> THEN upq ELSE [upq EXCEPT ![ln.pair] = @ \o sent]
     /\ link' = [ln EXCEPT !.seq = @ + Len(sent)]

\* #newPair, and the requests that #launchUp and #dialDown send.
NextPair == [link EXCEPT !.pair = @ + 1, !.open = TRUE, !.ready = FALSE, !.seq = 0]
Posts(p) == posted' = Halves(p)

\* #teardownPair.
Closed == [link EXCEPT !.open = FALSE, !.ready = FALSE, !.seq = 0]

\* The pairs whose down half #consumeDown reads: isCurrent.
Readable == IF link.open THEN {link.pair} ELSE {}

\* Any settle of a half, the silence, stall and ready timers: #finishPair and #livePair.
PairFails ==
  /\ link.open /\ Halves(link.pair) \cap cut # {}
  /\ link' = Closed /\ cut' = {} /\ posted' = {}
  /\ downq' = [downq EXCEPT ![link.pair] = <<>>]
  /\ UNCHANGED <<pending, ups, downs, upq, faults>>

-----------------------------------------------------------------------------
(* The fleet's half.                                                       *)

\* pairStatus(): paired, and the connection id, by the newest entry of the Map.
Paired(dns) == dns # <<>>

\* The half of p that the daemon gave up, or the network.
Gone(p, half) == <<p, half>> \in cut \/ p # link.pair \/ ~link.open

\* #sendDownEnvelope to pair p.
Sends(dq, p, msg) == IF Gone(p, "down") THEN dq ELSE [dq EXCEPT ![p] = Append(@, msg)]

Ready == [type |-> "pair_ready", conn |-> 0, n |-> 0]

\* #maybeAnnouncePairReady, when one half of p joins the other.
Announced(p) == Sends(downq, p, Ready)

UpArrives(p) ==
  /\ <<p, "up">> \in posted
  /\ posted' = posted \ {<<p, "up">>}
  /\ ups' = ups \cup {p}
  /\ UNCHANGED <<link, pending, downs, upq, cut, faults>>

DownArrives(p) ==
  /\ <<p, "down">> \in posted
  /\ posted' = posted \ {<<p, "down">>}
  /\ downs' = Append(downs, p)
  /\ UNCHANGED <<link, pending, ups, upq, cut, faults>>

\* The end of #handleUp.
UpEnds(p) ==
  /\ p \in ups /\ Gone(p, "up")
  /\ ups' = ups \ {p}
  /\ upq' = IF p = link.pair /\ link.open THEN upq ELSE [upq EXCEPT ![p] = <<>>]
  /\ UNCHANGED <<link, pending, posted, downs, cut, faults>>

\* #teardownDown, by the cancel of the stream.
DownEnds(p) ==
  /\ p \in ToSet(downs) /\ Gone(p, "down")
  /\ downs' = SelectSeq(downs, LAMBDA d : d # p)
  /\ UNCHANGED <<link, pending, posted, ups, upq, cut, faults>>

-----------------------------------------------------------------------------
(* Faults.                                                                 *)

\* A request fails or a connection breaks.
Break(p, half) ==
  /\ Fault
  /\ link.open /\ p = link.pair /\ <<p, half>> \notin cut
  /\ cut' = cut \cup {<<p, half>>}
  /\ posted' = posted \ {<<p, half>>}
  /\ upq' = IF half = "up" THEN [upq EXCEPT ![p] = <<>>] ELSE upq
  /\ downq' = IF half = "down" THEN [downq EXCEPT ![p] = <<>>] ELSE downq
  /\ UNCHANGED <<link, pending, ups, downs>>

PairTypeOK ==
  /\ link \in Links /\ link.pair \in 0..(MaxFaults + 1)
  /\ posted \subseteq Pairs \X {"up", "down"} /\ cut \subseteq Pairs \X {"up", "down"}
  /\ ups \subseteq Pairs
  /\ ToSet(downs) \subseteq Pairs /\ IsInjective(downs)
  /\ \A p \in Pairs : Len(upq[p]) <= UpRoom
  /\ faults \in 0..MaxFaults
=============================================================================
