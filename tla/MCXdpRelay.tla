------------------------------ MODULE MCXdpRelay ------------------------------
(* Model-checking instance of XdpRelay.  The frame count is fixed by the   *)
(* ring sizes, (rx_size + tx_size) * 2, so the frames are listed here and  *)
(* each cfg picks the set matching its sizes.                              *)
EXTENDS XdpRelay

CONSTANTS f1, f2, f3, f4, f5, f6, f7, f8

SixFrames == {f1, f2, f3, f4, f5, f6}
EightFrames == {f1, f2, f3, f4, f5, f6, f7, f8}

=============================================================================
