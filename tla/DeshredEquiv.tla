---------------------------- MODULE DeshredEquiv ----------------------------
(***************************************************************************)
(* The two reassemblers of the repository fed the same shreds: the compact *)
(* DeshredManagerLocal (deshred_sharded.rs) and the unbounded              *)
(* DeshredManager behind process_shred (deshred.rs, shred_processor.rs).   *)
(* The window is wide enough and the cleanup rare enough that neither      *)
(* evicts anything.                                                        *)
(***************************************************************************)
EXTENDS Integers

CONSTANTS Slots, W, MaxShreds, Ends, DataIdx, CodeIdx

VARIABLES lslots, lcur, lgot, lout, mslots, mdec, mgot, memitted, mout, mlost

Local == INSTANCE DeshredLocal
           WITH slots <- lslots, currentSlot <- lcur, got <- lgot, out <- lout,
                OrderedEnds <- FALSE
Map == INSTANCE DeshredMap
         WITH slots <- mslots, decoded <- mdec, got <- mgot, emitted <- memitted,
              out <- mout, lost <- mlost, MaxData <- MaxShreds, Lookback <- 0,
              CleanupEvery <- 1,
              Variants <- {}

vars == <<lslots, lcur, lgot, lout, mslots, mdec, mgot, memitted, mout, mlost>>

Init == Local!Init /\ Map!Init

\* One shred reaches both managers.
Deliver(sh) == Local!AddShredLocal(sh) /\ Map!ProcessShred(sh)

Next == \E sh \in Local!Shreds : Deliver(sh)

Spec == Init /\ [][Next]_vars

\* spec.md 4.7: "Both MUST produce identical outputs on identical inputs
\* when no eviction occurs."  After every shred, both emitted the same
\* segment of the same slot, or both nothing.
SameOutput == lout = mout

=============================================================================
