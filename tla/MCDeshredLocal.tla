--------------------------- MODULE MCDeshredLocal ---------------------------
(* Instances of DeshredLocal for TLC: three slots in a window of two, so    *)
(* slots 1 and 3 share a position and cleanup(3) drops slot 0.             *)
EXTENDS DeshredLocal

\* Two segments 0..1 and 2..3, a data shred 4 past the last marker and past
\* MAX_SHREDS_PER_SLOT = 4, and a code shred at index 0.
IdxTo4 == 0..4
IdxTo3 == 0..3
IdxTo2 == 0..2
IdxTo1 == 0..1
NoIdx == {}
====
