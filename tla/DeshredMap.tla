------------------------------ MODULE DeshredMap ------------------------------
(***************************************************************************)
(* The unbounded reassembler of src/examples/deshred.rs (DeshredManager,   *)
(* a HashMap from slot to SlotShreds) driven by the two fronts of         *)
(* src/examples/shred_processor.rs: process_shred, which counts decoded    *)
(* shreds and calls cleanup_old_slots(slot, 50) whenever the count is a    *)
(* multiple of 1000, and process_shred_ref, which skips payloads the       *)
(* prescan rejects and never cleans up.  Either may be called at each step *)
(* (both take the same Mutex<DeshredManager>), so every behaviour of a     *)
(* program using only one of them is a behaviour of this module.          *)
(*                                                                         *)
(* A SlotShreds keeps a status per data index (Unknown, NotDataComplete,   *)
(* DataComplete), the set of indices whose data shred is stored, and the   *)
(* code shred indices.  Shredder::deshred and bincode::deserialize are     *)
(* modelled as in DeshredLocal: consecutive data shreds, data-complete on  *)
(* the last only, starting at a segment boundary.                          *)
(***************************************************************************)
EXTENDS ShredSegments, FiniteSetsExt, ShredPrescan

CONSTANTS
  Slots,          \* slot numbers delivered
  MaxData,        \* MAX_DATA_SHREDS_PER_SLOT
  DataIdx,        \* indices of the data shreds of a slot
  CodeIdx,        \* indices of the code shreds of a slot
  Lookback,       \* the lookback process_shred passes to cleanup_old_slots
  CleanupEvery,   \* process_shred cleans up when decoded % CleanupEvery = 0
  Variants        \* variant bytes the payloads carry

ASSUME /\ MaxData \in Nat \ {0} /\ Ends \subseteq DataIdx /\ Ends # {}
       /\ Lookback \in Nat /\ CleanupEvery \in Nat \ {0} /\ Variants \subseteq Byte

Shreds ==
  [slot : Slots, type : {"data"}, index : DataIdx]
    \cup [slot : Slots, type : {"code"}, index : CodeIdx]

DIdx == 0..MaxData - 1

VARIABLES
  slots,     \* slots[s]: the SlotShreds of slot s, or Absent
  decoded,   \* stats.decoded, kept modulo CleanupEvery (only read that way)
  got,       \* history: data indices delivered to the state of each slot
  emitted,   \* history: numbers of the segments each state has emitted
  out,       \* history: the range the last step emitted, or NoOut
  lost       \* history: the prescan turned away a payload that decodes

vars == <<slots, decoded, got, emitted, out, lost>>

Absent == [status |-> [i \in DIdx |-> "unknown"], data |-> {}, code |-> {},
           present |-> FALSE]
NoOut == [slot |-> -1, start |-> 0, end |-> -1]

\* SlotShreds::new(slot)
NewSlotShreds == [Absent EXCEPT !.present = TRUE]

IsComplete(sh) == sh.index \in Ends

Init ==
  /\ slots = [s \in Slots |-> Absent]
  /\ decoded = 0
  /\ got = [s \in Slots |-> {}]
  /\ emitted = [s \in Slots |-> {}]
  /\ out = NoOut
  /\ lost = FALSE

-----------------------------------------------------------------------------
(* SlotShreds.                                                             *)

\* Mutant: the MAX_DATA_SHREDS_PER_SLOT bound is not checked.
AddShredNoBound(st, sh) ==
  CASE sh.type = "data" /\ sh.index \in st.data -> [ok |-> FALSE, st |-> st]
    [] sh.type = "data" ->
         [ok |-> TRUE,
          st |-> [st EXCEPT !.status[sh.index] =
                              IF IsComplete(sh) THEN "dc" ELSE "notdc",
                            !.data = @ \cup {sh.index}]]
    [] sh.type = "code" /\ sh.index \in st.code -> [ok |-> FALSE, st |-> st]
    [] OTHER -> [ok |-> TRUE, st |-> [st EXCEPT !.code = @ \cup {sh.index}]]

\* add_shred: a data shred is refused beyond MAX_DATA_SHREDS_PER_SLOT or
\* when one is stored at its index; else its status and shred are set.  A
\* code shred is refused when one with its index is kept; else appended.
AddShred(st, sh) ==
  CASE sh.type = "data" /\ (sh.index >= MaxData \/ sh.index \in st.data) ->
         [ok |-> FALSE, st |-> st]
    [] sh.type = "data" ->
         [ok |-> TRUE,
          st |-> [st EXCEPT !.status[sh.index] =
                              IF IsComplete(sh) THEN "dc" ELSE "notdc",
                            !.data = @ \cup {sh.index}]]
    [] sh.type = "code" /\ sh.index \in st.code -> [ok |-> FALSE, st |-> st]
    [] OTHER -> [ok |-> TRUE, st |-> [st EXCEPT !.code = @ \cup {sh.index}]]

\* Mutant: the segment end is the last DataComplete instead of the first.
FindCompleteSegmentLast(st) ==
  LET dcs == {i \in DIdx : st.status[i] = "dc"}
      end == Max(dcs)
      below == {i \in 0..end-1 : st.status[i] # "notdc"}
      s == Max(below)
  IN IF dcs = {} THEN [found |-> FALSE]
     ELSE IF below = {} THEN [found |-> TRUE, start |-> 0, end |-> end]
     ELSE IF st.status[s] = "dc" THEN [found |-> TRUE, start |-> s + 1, end |-> end]
     ELSE [found |-> FALSE]

\* find_complete_segment: end is the first DataComplete index; scanning
\* down from it, a DataComplete ends the scan (start after it), an Unknown
\* is a gap (None), and reaching 0 gives start 0.
FindCompleteSegment(st) ==
  LET dcs == {i \in DIdx : st.status[i] = "dc"}
      end == Min(dcs)
      below == {i \in 0..end-1 : st.status[i] # "notdc"}
      s == Max(below)
  IN IF dcs = {} THEN [found |-> FALSE]
     ELSE IF below = {} THEN [found |-> TRUE, start |-> 0, end |-> end]
     ELSE IF st.status[s] = "dc" THEN [found |-> TRUE, start |-> s + 1, end |-> end]
     ELSE [found |-> FALSE]

\* Shredder::deshred and bincode::deserialize on the stored range.
DeshredOk(start, end) ==
  /\ \A i \in start..end-1 : i \notin Ends
  /\ end \in Ends
  /\ start = 0 \/ start - 1 \in Ends

\* Mutant: the statuses of the emitted range are not reset.
TryDeshredKeepStatus(st) ==
  LET seg == FindCompleteSegment(st)
  IN IF seg.found /\ seg.start..seg.end \subseteq st.data
        /\ DeshredOk(seg.start, seg.end)
     THEN [ok |-> TRUE, start |-> seg.start, end |-> seg.end,
           st |-> [st EXCEPT !.data = @ \ (seg.start..seg.end)]]
     ELSE [ok |-> FALSE, st |-> st]

\* try_deshred: the found range must have every data shred stored, deshred
\* and deserialize; then its shreds and statuses are cleared.
TryDeshred(st) ==
  LET seg == FindCompleteSegment(st)
  IN IF seg.found /\ seg.start..seg.end \subseteq st.data
        /\ DeshredOk(seg.start, seg.end)
     THEN [ok |-> TRUE, start |-> seg.start, end |-> seg.end,
           st |-> [st EXCEPT !.data = @ \ (seg.start..seg.end),
                             !.status = [i \in DIdx |->
                                IF i \in seg.start..seg.end THEN "unknown" ELSE @[i]]]]
     ELSE [ok |-> FALSE, st |-> st]

-----------------------------------------------------------------------------
(* DeshredManager and process_shred.                                       *)

\* cleanup_old_slots(current, lookback): the slots of the map below
\* current - lookback (saturating), which retain drops.
Gone(current, sl) ==
  LET threshold == IF current > Lookback THEN current - Lookback ELSE 0
  IN {s \in Slots : sl[s].present /\ s < threshold}

\* DeshredManager::add_shred: the slot's entry, inserted when absent; its
\* add_shred, and try_deshred when the shred is new.  Gives the map, the
\* histories after the call and what it emitted.
ManagerAddShred(sh) ==
  LET fresh == ~slots[sh.slot].present
      cur == IF fresh THEN NewSlotShreds ELSE slots[sh.slot]
      added == AddShred(cur, sh)
      tried == TryDeshred(added.st)
      emits == added.ok /\ tried.ok
  IN [slots |-> [slots EXCEPT ![sh.slot] = IF emits THEN tried.st ELSE added.st],
      got |-> [got EXCEPT ![sh.slot] =
                 (IF fresh THEN {} ELSE @) \cup
                 (IF sh.type = "data" THEN {sh.index} ELSE {})],
      emitted |-> [emitted EXCEPT ![sh.slot] =
                     (IF fresh THEN {} ELSE @) \cup
                     (IF emits THEN {SegmentNumber(tried.start, tried.end)} ELSE {})],
      out |-> IF emits THEN [slot |-> sh.slot, start |-> tried.start, end |-> tried.end]
              ELSE NoOut]

\* process_shred with a shred that parses: count it as decoded, take the
\* manager's lock and add_shred, then clean up when the decoded count is a
\* multiple of CleanupEvery.  The lock is held for the whole call and
\* decoder_worker is one thread.
ProcessShred(sh) ==
  LET r == ManagerAddShred(sh)
      dec == (decoded + 1) % CleanupEvery
      gone == IF dec = 0 THEN Gone(sh.slot, r.slots) ELSE {}
  IN /\ decoded' = dec
     /\ slots' = [s \in Slots |-> IF s \in gone THEN Absent ELSE r.slots[s]]
     /\ got' = [s \in Slots |-> IF s \in gone THEN {} ELSE r.got[s]]
     /\ emitted' = [s \in Slots |-> IF s \in gone THEN {} ELSE r.emitted[s]]
     /\ out' = r.out
     /\ UNCHANGED lost

\* The payload sizes of a data and a code shred (SIZE_OF_PAYLOAD).
PayloadLen(sh) == IF sh.type = "data" THEN 1203 ELSE 1228

\* process_shred_ref with a payload of variant byte v that decodes to sh: a
\* prescan of None returns early; otherwise the shred is counted as decoded
\* and handed to add_shred, and there is no cleanup.  A payload the decoder
\* rejects changes only the statistics.
ProcessShredRef(sh, v) ==
  LET r == ManagerAddShred(sh)
  IN /\ sh.type \in DecoderTypes(PayloadLen(sh), v)
     /\ ParseShredType(PayloadLen(sh), v) # "none"
     /\ decoded' = (decoded + 1) % CleanupEvery
     /\ slots' = r.slots /\ got' = r.got /\ emitted' = r.emitted /\ out' = r.out
     /\ UNCHANGED lost

\* process_shred_ref with a payload of length len and variant byte v whose
\* prescan is None: only stats.errors changes, and the payload is gone.
SkipPayload(len, v) ==
  /\ ParseShredType(len, v) = "none"
  /\ lost' = (lost \/ DecoderTypes(len, v) # {})
  /\ out' = NoOut
  /\ UNCHANGED <<slots, decoded, got, emitted>>

\* The payloads that decode: a shred and the variant byte it was sent with.
RefPayloads ==
  {p \in Shreds \X Variants : p[1].type \in DecoderTypes(PayloadLen(p[1]), p[2])}

Next ==
  \/ \E sh \in Shreds : ProcessShred(sh)
  \/ \E p \in RefPayloads : ProcessShredRef(p[1], p[2])
  \/ \E len \in Lens, v \in Variants : SkipPayload(len, v)

Spec == Init /\ [][Next]_vars

-----------------------------------------------------------------------------
(* Properties.                                                             *)

SlotStates == [status : [DIdx -> {"unknown", "notdc", "dc"}],
               data : SUBSET DIdx, code : SUBSET CodeIdx, present : BOOLEAN]

TypeOK ==
  /\ slots \in [Slots -> SlotStates]
  /\ decoded \in 0..CleanupEvery - 1
  /\ emitted \in [Slots -> SUBSET (1..SegmentCount)]
  /\ lost \in BOOLEAN

\* try_deshred clears a consumed range's shreds and statuses together, so a
\* status other than Unknown is always backed by a stored data shred, and
\* find_complete_segment never proposes a range whose shreds are gone.
StatusMatchesStored ==
  \A s \in Slots : \A i \in DIdx :
    (slots[s].status[i] # "unknown") <=> i \in slots[s].data

\* What the manager hands to process_shred is a whole segment of the slot,
\* every data shred of which was delivered, and every earlier segment of the
\* slot was handed out before it.
EmitsWholeSegmentsInOrder ==
  out # NoOut =>
    LET k == SegmentNumber(out.start, out.end)
    IN /\ k > 0
       /\ Segment(k) \subseteq got[out.slot]
       /\ 1..k \subseteq emitted[out.slot]

\* The comment on try_deshred: it "consumes the segment to prevent
\* re-processing".  No step emits a segment this slot state already emitted.
EmitsEachSegmentOnce ==
  [][out' # NoOut =>
       SegmentNumber(out'.start, out'.end) \notin emitted[out'.slot]]_vars

\* spec.md 4.6-4.7 (the reference semantics): a segment is emitted once all
\* its data shreds are present.  No slot state holds every data shred of
\* the first segment it has not emitted.
NoStrandedSegment ==
  \A s \in Slots :
    LET pending == (1..SegmentCount) \ emitted[s]
    IN slots[s].present /\ pending # {} => ~(Segment(Min(pending)) \subseteq got[s])

\* spec.md 4.5 and the comment on parse_shred_type: the prescan rejects
\* only what the full decoder also rejects ("legacy or invalid"), so
\* process_shred_ref never turns away a payload that would decode into a
\* shred, whatever its variant and whatever its length.
PrescanDropsOnlyUndecodable == ~lost

=============================================================================
