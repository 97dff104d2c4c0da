---------------------------- MODULE MCDeshredMap ----------------------------
(* Instances of DeshredMap for TLC.                                        *)
EXTENDS DeshredMap

\* Data indices 0..4: two segments 0..1 and 2..3 when Ends = {1, 3}, and
\* index 4 at MAX_DATA_SHREDS_PER_SLOT = 4.
MapIdx4 == 0..4
MapIdx3 == 0..3

\* Variant bytes of payloads: one for each upper nibble, and the two legacy
\* variants 0x5A and 0xA5.  Both the prescan and the decoder read only the
\* upper nibble or the whole legacy byte.
MapVariants == {16 * n + 5 : n \in 0..15} \cup {\h5A}
====
