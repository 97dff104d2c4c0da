------------------------------ MODULE DeshredLocal ------------------------------
(***************************************************************************)
(* The per-thread reassembler of src/examples/deshred_sharded.rs:          *)
(* DeshredManagerLocal, a window of SLOT_WINDOW_SIZE optional              *)
(* SlotShrdsCompact states addressed by slot % W, each with a bitset of    *)
(* received indices, the stored shreds, the list of data-complete indices  *)
(* in arrival order and last_processed.                                    *)
(*                                                                         *)
(* A shred is a record [slot, type, index]; a data shred carries           *)
(* data_complete (or last_in_slot) exactly when its index is in Ends.      *)
(* Shredder::deshred and bincode::deserialize come from an external        *)
(* library and are modelled by what they accept: deshred takes the stored  *)
(* shreds of the range in index order and needs data shreds at consecutive *)
(* indices, the last one data_complete and no earlier one; deserializing   *)
(* succeeds when the bytes are one whole segment.                          *)
(***************************************************************************)
EXTENDS Integers, Sequences, FiniteSets, SequencesExt

CONSTANTS
  Slots,          \* slot numbers delivered
  W,              \* SLOT_WINDOW_SIZE
  MaxShreds,      \* MAX_SHREDS_PER_SLOT
  Ends,           \* data shred indices with data_complete or last_in_slot
  DataIdx,        \* indices of the data shreds of a slot
  CodeIdx,        \* indices of the code shreds of a slot
  OrderedEnds     \* environment: markers of a slot arrive in index order

ASSUME /\ W \in Nat \ {0} /\ MaxShreds \in Nat \ {0}
       /\ Ends \subseteq DataIdx /\ Ends # {}
       /\ OrderedEnds \in BOOLEAN

Shreds ==
  [slot : Slots, type : {"data"}, index : DataIdx]
    \cup [slot : Slots, type : {"code"}, index : CodeIdx]

Idx == 0..MaxShreds - 1
Pos == 0..W-1

VARIABLES
  slots,        \* slots[p]: a SlotShrdsCompact, or NoState for None
  currentSlot,  \* current_slot (written, never read by the code)
  got,          \* history: data indices delivered to the state at p
  out           \* history: the segment the last step emitted, or NoOut

vars == <<slots, currentSlot, got, out>>

NoState == [slot |-> -1, mask |-> {}, shreds |-> [i \in Idx |-> "none"],
            segEnds |-> <<>>, lastProcessed |-> 0]
NoOut == [slot |-> -1, start |-> 0, end |-> -1]

\* SlotShrdsCompact::new(slot)
NewSlot(s) == [NoState EXCEPT !.slot = s]

IsComplete(sh) == sh.type = "data" /\ sh.index \in Ends

Init ==
  /\ slots = [p \in Pos |-> NoState]
  /\ currentSlot = 0
  /\ got = [p \in Pos |-> {}]
  /\ out = NoOut

-----------------------------------------------------------------------------
(* The external library, by what it accepts.                               *)

\* Indices start..end whose shred is stored: the payloads filter_map keeps.
Stored(st, start, end) == {i \in start..end : st.shreds[i] # "none"}

\* Shredder::deshred: data shreds at consecutive indices, data_complete on
\* the last one only.
DeshredOk(st, start, end) ==
  LET S == Stored(st, start, end)
  IN /\ S # {}
     /\ \A i \in S : st.shreds[i] = "data"
     /\ S = Min(S)..Max(S)
     /\ Max(S) \in Ends
     /\ \A i \in S \ {Max(S)} : i \notin Ends

\* bincode::deserialize: the bytes must start at a segment boundary.
DeserializeOk(st, start, end) ==
  LET first == Min(Stored(st, start, end))
  IN first = 0 \/ first - 1 \in Ends

-----------------------------------------------------------------------------
(* SlotShrdsCompact.                                                       *)

\* Mutant: the MAX_SHREDS_PER_SLOT bound is not checked.
AddShredNoBound(st, sh) ==
  IF sh.index \in st.mask THEN [ok |-> FALSE, st |-> st]
  ELSE [ok |-> TRUE,
        st |-> [st EXCEPT !.mask = @ \cup {sh.index},
                          !.segEnds = IF IsComplete(sh) THEN Append(@, sh.index) ELSE @,
                          !.shreds[sh.index] = sh.type]]

\* add_shred: false for an index beyond the bitset or already marked; else
\* mark it, record a data-complete index, store the shred.
AddShred(st, sh) ==
  IF sh.index >= MaxShreds \/ sh.index \in st.mask THEN [ok |-> FALSE, st |-> st]
  ELSE [ok |-> TRUE,
        st |-> [st EXCEPT !.mask = @ \cup {sh.index},
                          !.segEnds = IF IsComplete(sh) THEN Append(@, sh.index) ELSE @,
                          !.shreds[sh.index] = sh.type]]

\* Mutants of try_deshred_fast: the end is not popped; the range's bits
\* are cleared with its shreds; a failed deshred is not noticed.
TryDeshredFastNoPop(st) ==
  IF st.segEnds = <<>> THEN [ok |-> FALSE, st |-> st]
  ELSE LET end == Head(st.segEnds)
           start == st.lastProcessed
       IN IF start..end \subseteq st.mask /\ DeshredOk(st, start, end)
          THEN [ok |-> TRUE, start |-> start, end |-> end,
                st |-> [st EXCEPT !.lastProcessed = end + 1,
                                  !.shreds = [i \in Idx |->
                                     IF i \in start..end THEN "none" ELSE @[i]]]]
          ELSE [ok |-> FALSE, st |-> st]
TryDeshredFastClearMask(st) ==
  IF st.segEnds = <<>> THEN [ok |-> FALSE, st |-> st]
  ELSE LET end == Head(st.segEnds)
           start == st.lastProcessed
       IN IF start..end \subseteq st.mask /\ DeshredOk(st, start, end)
          THEN [ok |-> TRUE, start |-> start, end |-> end,
                st |-> [st EXCEPT !.segEnds = Tail(@),
                                  !.lastProcessed = end + 1,
                                  !.mask = @ \ (start..end),
                                  !.shreds = [i \in Idx |->
                                     IF i \in start..end THEN "none" ELSE @[i]]]]
          ELSE [ok |-> FALSE, st |-> st]
TryDeshredFastNoDeshredCheck(st) ==
  IF st.segEnds = <<>> THEN [ok |-> FALSE, st |-> st]
  ELSE LET end == Head(st.segEnds)
           start == st.lastProcessed
       IN IF start..end \subseteq st.mask
          THEN [ok |-> TRUE, start |-> start, end |-> end,
                st |-> [st EXCEPT !.segEnds = Tail(@),
                                  !.lastProcessed = end + 1,
                                  !.shreds = [i \in Idx |->
                                     IF i \in start..end THEN "none" ELSE @[i]]]]
          ELSE [ok |-> FALSE, st |-> st]

\* try_deshred_fast: the range from last_processed to the first recorded
\* end must be fully marked, deshred and deserialize; then the end is
\* popped, last_processed moves past it and the range's shreds are dropped.
TryDeshredFast(st) ==
  IF st.segEnds = <<>> THEN [ok |-> FALSE, st |-> st]
  ELSE LET end == Head(st.segEnds)
           start == st.lastProcessed
       IN IF /\ start..end \subseteq st.mask
             /\ DeshredOk(st, start, end)
             /\ DeserializeOk(st, start, end)
          THEN [ok |-> TRUE, start |-> start, end |-> end,
                st |-> [st EXCEPT !.segEnds = Tail(@),
                                  !.lastProcessed = end + 1,
                                  !.shreds = [i \in Idx |->
                                     IF i \in start..end THEN "none" ELSE @[i]]]]
          ELSE [ok |-> FALSE, st |-> st]

-----------------------------------------------------------------------------
(* DeshredManagerLocal.                                                    *)

\* Markers of a slot arrive in index order (an environment assumption).
InOrder(sh) ==
  OrderedEnds /\ IsComplete(sh) =>
    \A e \in Ends : e < sh.index => e \in got[sh.slot % W]
                                    /\ slots[sh.slot % W].slot = sh.slot

\* add_shred: take or replace the state at slot % W, add the shred, and
\* on a new shred try to deshred once.
AddShredLocal(sh) ==
  LET p == sh.slot % W
      cur == IF slots[p].slot = sh.slot THEN slots[p] ELSE NewSlot(sh.slot)
      curGot == IF slots[p].slot = sh.slot THEN got[p] ELSE {}
      added == AddShred(cur, sh)
      tried == TryDeshredFast(added.st)
  IN /\ InOrder(sh)
     /\ currentSlot' = sh.slot
     /\ got' = [got EXCEPT ![p] = IF sh.type = "data" THEN curGot \cup {sh.index}
                                                     ELSE curGot]
     /\ \/ /\ ~added.ok
           /\ slots' = [slots EXCEPT ![p] = added.st]
           /\ out' = NoOut
        \/ /\ added.ok /\ ~tried.ok
           /\ slots' = [slots EXCEPT ![p] = added.st]
           /\ out' = NoOut
        \/ /\ added.ok /\ tried.ok
           /\ slots' = [slots EXCEPT ![p] = tried.st]
           /\ out' = [slot |-> sh.slot, start |-> tried.start, end |-> tried.end]

\* cleanup_old_slots(current): drop states of slots below current - W.
CleanupOldSlots(current) ==
  LET threshold == IF current > W THEN current - W ELSE 0
  IN /\ slots' = [p \in Pos |-> IF slots[p] # NoState /\ slots[p].slot < threshold
                                THEN NoState ELSE slots[p]]
     /\ got' = [p \in Pos |-> IF slots[p] # NoState /\ slots[p].slot < threshold
                              THEN {} ELSE got[p]]
     /\ out' = NoOut
     /\ UNCHANGED currentSlot

Next ==
  \/ \E sh \in Shreds : AddShredLocal(sh)
  \/ \E c \in Slots : CleanupOldSlots(c)

Spec == Init /\ [][Next]_vars

-----------------------------------------------------------------------------
(* Properties.                                                             *)

States == [slot : Slots \cup {-1}, mask : SUBSET Idx,
           shreds : [Idx -> {"none", "data", "code"}],
           segEnds : Seq(Idx), lastProcessed : 0..MaxShreds]

TypeOK ==
  /\ slots \in [Pos -> States]
  /\ currentSlot \in Slots \cup {0}
  /\ got \in [Pos -> SUBSET (DataIdx)]

\* try_deshred_fast leaves the bits of an emitted range set and drops its
\* shreds, so a duplicate of an emitted shred is refused by add_shred and
\* can never be stored, recorded as an end, or emitted again.
NoReprocessing ==
  \A p \in Pos : \A i \in 0..slots[p].lastProcessed - 1 :
    slots[p].shreds[i] = "none"

\* Every recorded segment end lies at or after last_processed, so the
\* slice shreds[start..=end] of try_deshred_fast never has start > end+1
\* (which would panic).
SegmentEndsAhead ==
  \A p \in Pos : \A k \in 1..Len(slots[p].segEnds) :
    slots[p].segEnds[k] >= slots[p].lastProcessed

\* The reassembler implements SegmentStream: each slot state emits whole
\* segments of its slot, in index order, each once, and only segments all
\* of whose data shreds were delivered to that state.
Done(st) == Cardinality({e \in Ends : e < st.lastProcessed})
Abs == INSTANCE SegmentStream
         WITH win <- [p \in Pos |->
                       IF slots[p] = NoState
                       THEN [slot |-> -1, got |-> {}, done |-> 0]
                       ELSE [slot |-> slots[p].slot, got |-> got[p],
                             done |-> Done(slots[p])]]
ImplementsSegmentStream == Abs!Spec

\* spec.md 4.6: a segment is emitted as soon as all of its data shreds are
\* present.  No slot state holds every data shred of its next segment
\* without having emitted it.
NoStrandedSegment ==
  \A p \in Pos :
    slots[p] # NoState /\ Done(slots[p]) < Cardinality(Ends)
      => ~(Abs!Segment(Done(slots[p]) + 1) \subseteq got[p])

=============================================================================
