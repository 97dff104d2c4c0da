---------------------------- MODULE ShredSegments ----------------------------
(***************************************************************************)
(* The segments of a slot (spec.md 4.6, segment definition): the data      *)
(* shreds of a slot are cut by the data-complete markers at the indices in *)
(* Ends, and segment k (k >= 1) is EndOf(k-1)+1 .. EndOf(k).               *)
(***************************************************************************)
EXTENDS Integers, FiniteSets

CONSTANT Ends     \* indices of the data shreds carrying data_complete

SegmentCount == Cardinality(Ends)

\* The k-th smallest marker, with EndOf(0) = -1.
RECURSIVE EndOf(_)
EndOf(k) == IF k = 0 THEN -1
            ELSE CHOOSE e \in Ends :
                   /\ e > EndOf(k - 1)
                   /\ \A x \in Ends : x > EndOf(k - 1) => e <= x

Segment(k) == (EndOf(k - 1) + 1)..EndOf(k)

\* The number of the segment that is exactly start..end, or 0 if none is.
SegmentNumber(start, end) ==
  IF \E k \in 1..SegmentCount : Segment(k) = start..end
  THEN CHOOSE k \in 1..SegmentCount : Segment(k) = start..end
  ELSE 0

==============================================================================
