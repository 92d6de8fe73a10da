------------------------------ MODULE LogStore ------------------------------
(***************************************************************************)
(* The fleet's durable copy of one session log, apps/fleet/log-store.ts,   *)
(* as operators from one store record to the next.  ingest() is            *)
(* synchronous, so nothing but a crash of the fleet comes between its      *)
(* steps.                                                                  *)
(*                                                                         *)
(* A store has the bytes on disk (data), the stream's entry of index.json  *)
(* (index) and its entry in memory (entry).  A byte is represented by the  *)
(* number of the file it was read from; which positions end a line is the  *)
(* same for every file (LineEnds).  An entry of generation 0 is none.  A   *)
(* file that is empty is not told from one that does not exist.  Paths,    *)
(* other streams of the session, the read-only mark and purges are left    *)
(* out.                                                                    *)
(*                                                                         *)
(* AdmittedKeeping is a slip of the operator it stands before, for a       *)
(* mutant.                                                                 *)
(***************************************************************************)
EXTENDS Naturals, Sequences, FiniteSetsExt

CONSTANT LineEnds  \* the positions of line ends in every file

ASSUME LineEndsArePositions == LineEnds \subseteq Nat \ {0}

NoEntry == [generation |-> 0, acked |-> 0, eof |-> FALSE]

EmptyStore == [data |-> <<>>, entry |-> NoEntry, index |-> NoEntry]

(* The end of the last line that ends at or before n.                      *)
LastLineEnd(n) == Max({0} \cup (LineEnds \cap 1..n))

(***************************************************************************)
(* ingest()                                                                *)
(***************************************************************************)
Obsolete(st, c) == c.generation < st.entry.generation

Fresh(c) == [generation |-> c.generation, acked |-> 0, eof |-> FALSE]

Renews(st, c) == st.entry # NoEntry /\ c.generation > st.entry.generation

AdmittedKeeping(st, c) ==
  CASE Renews(st, c) -> [st EXCEPT !.entry = Fresh(c), !.index = Fresh(c)]
    [] st.entry = NoEntry -> [st EXCEPT !.entry = Fresh(c)]
    [] OTHER -> st

(* A newer generation truncates the file and records that in the index; a  *)
(* stream never seen before gets an entry in memory only.                  *)
Admitted(st, c) ==
  CASE Renews(st, c) -> [data |-> <<>>, entry |-> Fresh(c), index |-> Fresh(c)]
    [] st.entry = NoEntry -> [st EXCEPT !.entry = Fresh(c)]
    [] OTHER -> st

End(c) == c.offset + Len(c.data)

(* How a chunk meets the bytes on disk, whose length is authoritative.     *)
Gap(st, c) == c.offset > Len(st.data)
Duplicate(st, c) == c.offset < Len(st.data) /\ End(c) <= Len(st.data)

(* What of the chunk is not stored yet.                                    *)
Suffix(st, c) == SubSeq(c.data, Len(st.data) - c.offset + 1, Len(c.data))

Appended(st, c) ==
  LET e == [generation |-> st.entry.generation, acked |-> End(c), eof |-> c.eof]
  IN  [data |-> st.data \o Suffix(st, c), entry |-> e, index |-> e]

(* The entry in memory follows the length on disk whatever the verdict.    *)
Healed(st) == [st EXCEPT !.entry.acked = Len(st.data)]

Verdict(st, c) ==
  IF Obsolete(st, c) THEN "obsolete"
  ELSE LET a == Admitted(st, c)
       IN  CASE Gap(a, c) -> "gap"
             [] Duplicate(a, c) -> "duplicate"
             [] OTHER -> "acked"

Ingest(st, c) ==
  CASE Verdict(st, c) = "obsolete" -> st
    [] Verdict(st, c) = "acked" -> Appended(Admitted(st, c), c)
    [] OTHER -> Healed(Admitted(st, c))

(***************************************************************************)
(* Crash and load().  What is on disk when the fleet dies while it ingests *)
(* c: before the truncation, after it, after the index was written, with   *)
(* any part of the suffix appended, or all done but the answer.            *)
(***************************************************************************)
Interrupted(st, c) ==
  LET a == Admitted(st, c)
  IN  {st}
      \cup (IF Renews(st, c) THEN {[st EXCEPT !.data = <<>>], a} ELSE {})
      \cup (IF Verdict(st, c) = "acked"
            THEN {[a EXCEPT !.data = @ \o SubSeq(Suffix(a, c), 1, k)] : k \in 0..Len(Suffix(a, c))}
                 \cup {Ingest(st, c)}
            ELSE {})

(* reconcileTail: a file longer than the index says is cut to its last     *)
(* line end unless it ends in one.                                         *)
Trusted(n, acked) ==
  IF n <= acked \/ n \in LineEnds THEN n ELSE LastLineEnd(n)

(* What load() makes of the disk: the index follows the trusted length,    *)
(* and a file without an entry is adopted at generation 1.                 *)
Loaded(st) ==
  LET n == Trusted(Len(st.data), st.index.acked)
      e == CASE st.index # NoEntry -> [st.index EXCEPT !.acked = n]
             [] st.index = NoEntry /\ st.data = <<>> -> NoEntry
             [] OTHER -> [generation |-> 1, acked |-> n, eof |-> FALSE]
  IN  [data |-> SubSeq(st.data, 1, n), entry |-> e, index |-> e]
=============================================================================
