----------------------------- MODULE SegmentStream -----------------------------
(***************************************************************************)
(* What a shred reassembler promises (spec.md sections 4.6-4.7), stated    *)
(* without bitsets or segment lists.  A slot's data shreds are cut into    *)
(* segments by the data-complete markers at the indices in Ends: segment k *)
(* is EndOf(k-1)+1 .. EndOf(k).  The reassembler keeps a window of W slot  *)
(* states, slot s at position s % W; delivering a shred of another slot    *)
(* to an occupied position replaces its state.  Each state emits the       *)
(* segments of its slot in order, each once, and only a segment all of    *)
(* whose data shreds were delivered to it.                                 *)
(***************************************************************************)
EXTENDS ShredSegments

CONSTANTS
  Slots,      \* slot numbers
  W,          \* SLOT_WINDOW_SIZE
  Shreds      \* every shred that may be delivered: [slot, type, index]

VARIABLE win  \* position -> [slot, got, done] or NoState

NoState == [slot |-> -1, got |-> {}, done |-> 0]
Pos == 0..W-1

Init == win = [p \in Pos |-> NoState]

\* Deliver shred sh; the state at its position may emit its next segment.
Deliver(sh) ==
  LET p == sh.slot % W
      cur == IF win[p].slot = sh.slot THEN win[p]
             ELSE [slot |-> sh.slot, got |-> {}, done |-> 0]
      got == IF sh.type = "data" THEN cur.got \cup {sh.index} ELSE cur.got
      ready == cur.done < SegmentCount /\ Segment(cur.done + 1) \subseteq got
  IN \E emit \in IF ready THEN {0, 1} ELSE {0} :
       win' = [win EXCEPT ![p] = [slot |-> sh.slot, got |-> got,
                                  done |-> cur.done + emit]]

\* Any set of slot states may be dropped at once.
Drop(P) == win' = [p \in Pos |-> IF p \in P THEN NoState ELSE win[p]]

Next == (\E sh \in Shreds : Deliver(sh)) \/ (\E P \in SUBSET Pos : Drop(P))

Spec == Init /\ [][Next]_win

=============================================================================
