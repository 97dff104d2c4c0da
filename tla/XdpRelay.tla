------------------------------- MODULE XdpRelay -------------------------------
(***************************************************************************)
(* The zero-copy relay datapath of src/src/relay_loop.rs together with the *)
(* kernel side it drives: the UMEM free-frame stack, the four AF_XDP rings *)
(* (Fill, RX, TX, Completion) and the XDP classifier that redirects each   *)
(* ingress packet into the socket (src/xdp-ebpf/src/main.rs).              *)
(*                                                                         *)
(* A ring is kept as the sequence of descriptors between its consumer and  *)
(* producer index.  The side owned by the relay thread works on cached     *)
(* indices, so each ring also records how far the two views differ:        *)
(*   - fill, tx (user produces): the last fillUnpub / txUnpub entries are  *)
(*     written but not yet published; fillLag / txLag entries were taken   *)
(*     by the kernel since the user last synced its cached consumer.       *)
(*   - rx, comp (kernel produces): only the first rxSeen / compSeen        *)
(*     entries are visible to the user (cached producer); rxHeld /         *)
(*     compHeld entries were read but the consumer index is unpublished,   *)
(*     so the kernel still counts their slots as occupied.                 *)
(* The ring code itself (agave_xdp socket/umem) is not among the sources;  *)
(* its semantics follow spec.md section 4.2.                               *)
(***************************************************************************)
EXTENDS Naturals, Sequences, FiniteSets, SequencesExt

CONSTANTS
  Frames,         \* UMEM frames (model values); (rx_size + tx_size) * 2 of them
  RxSize,         \* rx_size: capacity of the Fill and RX rings
  TxSize,         \* tx_size: capacity of the TX ring
  BatchSize,      \* BATCH_SIZE: RX items between two in-loop commits
  Kinds,          \* packet classes the relay tells apart
  Forward,        \* dest ip, port and mac all resolved: forwarding enabled
  NeedWakeup,     \* socket bound with need_wakeup: TX starts only on wake()
  SyncPublishes   \* ring sync(false) also publishes the cached own index

CompSize == 2 * TxSize          \* completion ring: tx_size * 2 (line 110)

ASSUME /\ RxSize \in Nat \ {0} /\ TxSize \in Nat \ {0} /\ BatchSize \in Nat \ {0}
       /\ Cardinality(Frames) = (RxSize + TxSize) * 2
       /\ Kinds \subseteq {"short", "nonudp", "udp"} /\ "udp" \in Kinds
       /\ Forward \in BOOLEAN /\ NeedWakeup \in BOOLEAN /\ SyncPublishes \in BOOLEAN

VARIABLES
  phase,                 \* startup: "loaded" -> "bound" -> "running"
  pc,                    \* position of the relay thread in its main loop
  free,                  \* UMEM free stack; reserve pops, release pushes the end
  fill, rx, tx, comp,    \* ring contents; rx holds <<frame, kind>> descriptors
  fillUnpub, txUnpub,    \* written by the user, producer index not published
  fillLag, txLag,        \* consumed by the kernel since the user's last sync
  rxSeen, compSeen,      \* entries below the user's cached producer index
  rxHeld, compHeld,      \* read by the user, consumer index not published
  batch,                 \* batch_count
  needWakeup             \* TX ring need_wakeup flag set by the kernel

userRings == <<fill, rx, tx, comp, fillUnpub, txUnpub, fillLag, txLag,
               rxSeen, compSeen, rxHeld, compHeld>>
vars == <<phase, pc, free, userRings, batch, needWakeup>>

Frame(d) == d[1]
KindOf(d) == d[2]

\* Room the user believes a producer ring has, from its cached consumer.
FillSpace == RxSize - Len(fill) - fillLag
TxSpace == TxSize - Len(tx) - txLag
\* What the kernel sees: published entries, and free slots of its rings.
FillPublished == Len(fill) - fillUnpub
TxPublished == Len(tx) - txUnpub
RxRoom == RxSize - Len(rx) - rxHeld
CompRoom == CompSize - Len(comp) - compHeld

\* umem.reserve() k times, each frame written to fill: the top k of the stack.
TakeFree(k) == Reverse(SubSeq(free, Len(free) - k + 1, Len(free)))
KeepFree(k) == SubSeq(free, 1, Len(free) - k)

\* The free stack after SliceUmem::new: every frame, in some fixed order.
RECURSIVE StackOf(_)
StackOf(S) ==
  IF S = {} THEN <<>>
  ELSE LET f == CHOOSE x \in S : TRUE IN <<f>> \o StackOf(S \ {f})

Init ==
  /\ phase = "loaded"
  /\ pc = "sync"
  /\ free = StackOf(Frames)
  /\ fill = <<>> /\ rx = <<>> /\ tx = <<>> /\ comp = <<>>
  /\ fillUnpub = 0 /\ txUnpub = 0 /\ fillLag = 0 /\ txLag = 0
  /\ rxSeen = 0 /\ compSeen = 0 /\ rxHeld = 0 /\ compHeld = 0
  /\ batch = 0
  /\ needWakeup = NeedWakeup

-----------------------------------------------------------------------------
(* Kernel side.                                                            *)

\* A packet of class k reaches the bound queue.  Before the socket is in
\* XSKS_MAP the classifier's redirect fails and it returns XDP_PASS; after,
\* the kernel needs a published Fill frame and a free RX slot, and drops the
\* packet otherwise.  Both drops leave the socket state unchanged.
Arrive(k) ==
  /\ phase # "loaded"
  /\ FillPublished > 0
  /\ RxRoom > 0
  /\ rx' = Append(rx, <<Head(fill), k>>)
  /\ fill' = Tail(fill)
  /\ fillLag' = fillLag + 1
  /\ UNCHANGED <<phase, pc, free, tx, comp, fillUnpub, txUnpub, txLag,
                 rxSeen, compSeen, rxHeld, compHeld, batch, needWakeup>>

\* The NIC sends the oldest published TX descriptor and posts its frame to
\* the completion ring, which must have a free slot.
KernelTx ==
  /\ ~needWakeup
  /\ TxPublished > 0
  /\ CompRoom > 0
  /\ comp' = Append(comp, Head(tx))
  /\ tx' = Tail(tx)
  /\ txLag' = txLag + 1
  /\ UNCHANGED <<phase, pc, free, fill, rx, fillUnpub, txUnpub, fillLag,
                 rxSeen, compSeen, rxHeld, compHeld, batch, needWakeup>>

\* With need_wakeup, a driver with no TX work left stops and asks for a wake.
KernelIdle ==
  /\ NeedWakeup
  /\ ~needWakeup
  /\ TxPublished = 0
  /\ needWakeup' = TRUE
  /\ UNCHANGED <<phase, pc, free, userRings, batch>>

-----------------------------------------------------------------------------
(* Startup of relay_loop.                                                  *)

\* insert_socket_into_xskmap: the classifier now redirects to the socket.
BindSocket ==
  /\ phase = "loaded"
  /\ phase' = "bound"
  /\ UNCHANGED <<pc, free, userRings, batch, needWakeup>>

\* Pre-fill: fill.sync, reserve min(rx_size, available) frames into the
\* empty Fill ring, commit.
Prefill ==
  LET k == IF RxSize < Len(free) THEN RxSize ELSE Len(free)
  IN /\ phase = "bound"
     /\ phase' = "running"
     /\ fill' = fill \o TakeFree(k)
     /\ free' = KeepFree(k)
     /\ fillLag' = 0
     /\ fillUnpub' = 0
     /\ UNCHANGED <<pc, rx, tx, comp, txUnpub, txLag, rxSeen, compSeen,
                    rxHeld, compHeld, batch, needWakeup>>

-----------------------------------------------------------------------------
(* The main loop of relay_loop, one action per step of an iteration.      *)

\* Publishing the user's own index of a ring: commit().
CommitRx == rxHeld' = 0
CommitTx == txUnpub' = 0
CommitFill == fillUnpub' = 0

\* Mutant: sync(false) only refreshes the cached indices, publishing nothing.
SyncRingsNoPublish ==
  /\ phase = "running" /\ pc = "sync"
  /\ pc' = "completion"
  /\ rxSeen' = Len(rx) /\ compSeen' = Len(comp)
  /\ fillLag' = 0 /\ txLag' = 0
  /\ UNCHANGED <<rxHeld, txUnpub, fillUnpub, compHeld>>
  /\ UNCHANGED <<phase, free, fill, rx, tx, comp, batch, needWakeup>>

\* Mutant: the fill ring's cached consumer is not refreshed by sync.
SyncRingsStaleFill ==
  /\ phase = "running" /\ pc = "sync"
  /\ pc' = "completion"
  /\ rxSeen' = Len(rx) /\ compSeen' = Len(comp)
  /\ txLag' = 0
  /\ CommitRx /\ CommitTx /\ CommitFill /\ compHeld' = 0
  /\ UNCHANGED <<phase, free, fill, rx, tx, comp, batch, needWakeup, fillLag>>

\* Mutant: the completion consumer index is never published.
SyncRingsKeepCompletion ==
  /\ phase = "running" /\ pc = "sync"
  /\ pc' = "completion"
  /\ rxSeen' = Len(rx) /\ compSeen' = Len(comp)
  /\ fillLag' = 0 /\ txLag' = 0
  /\ CommitRx /\ CommitTx /\ CommitFill
  /\ UNCHANGED <<phase, free, fill, rx, tx, comp, batch, needWakeup, compHeld>>

\* Top of the loop: sync(false) on rx, tx, completion and fill refreshes the
\* cached index of the other side; with SyncPublishes it also publishes the
\* user's own index.
SyncRings ==
  /\ phase = "running" /\ pc = "sync"
  /\ pc' = "completion"
  /\ rxSeen' = Len(rx) /\ compSeen' = Len(comp)
  /\ fillLag' = 0 /\ txLag' = 0
  /\ IF SyncPublishes
       THEN CommitRx /\ CommitTx /\ CommitFill /\ compHeld' = 0
       ELSE UNCHANGED <<rxHeld, txUnpub, fillUnpub, compHeld>>
  /\ UNCHANGED <<phase, free, fill, rx, tx, comp, batch, needWakeup>>

\* Mutant: completion entries are read but their frames are not released.
DrainCompletionNoRelease ==
  /\ phase = "running" /\ pc = "completion"
  /\ pc' = "rx"
  /\ comp' = SubSeq(comp, compSeen + 1, Len(comp))
  /\ compHeld' = compHeld + compSeen
  /\ compSeen' = 0
  /\ UNCHANGED <<phase, free, fill, rx, tx, fillUnpub, txUnpub, fillLag, txLag,
                 rxSeen, rxHeld, batch, needWakeup>>

\* while let Some(offset) = completion.read() { umem.release(offset) }
DrainCompletion ==
  /\ phase = "running" /\ pc = "completion"
  /\ pc' = "rx"
  /\ free' = free \o SubSeq(comp, 1, compSeen)
  /\ comp' = SubSeq(comp, compSeen + 1, Len(comp))
  /\ compHeld' = compHeld + compSeen
  /\ compSeen' = 0
  /\ UNCHANGED <<phase, fill, rx, tx, fillUnpub, txUnpub, fillLag, txLag,
                 rxSeen, rxHeld, batch, needWakeup>>

\* Mutant: reads past the cached producer index, up to what the kernel wrote.
ReadRxUnsynced ==
  /\ Len(rx) > 0
  /\ rx' = Tail(rx)
  /\ rxSeen' = rxSeen - 1
  /\ rxHeld' = rxHeld + 1

\* rx_ring.read(): take the next visible RX descriptor.
ReadRx ==
  /\ rxSeen > 0
  /\ rx' = Tail(rx)
  /\ rxSeen' = rxSeen - 1
  /\ rxHeld' = rxHeld + 1

\* fill.write(frame), or umem.release(frame) when the Fill ring is full.
\* (FillFallbackUnused below shows the release branch is never taken.)
ReturnToFill(f) ==
  IF FillSpace > 0
    THEN fill' = Append(fill, f) /\ fillUnpub' = fillUnpub + 1 /\ UNCHANGED free
    ELSE free' = Append(free, f) /\ UNCHANGED <<fill, fillUnpub>>

\* A packet shorter than headers + VOTE_SIZE_THRESHOLD, or not UDP, goes
\* straight back; `continue` skips the batch count.
RxDrop ==
  /\ phase = "running" /\ pc = "rx" /\ batch < BatchSize
  /\ ReadRx
  /\ KindOf(Head(rx)) \in {"short", "nonudp"}
  /\ ReturnToFill(Frame(Head(rx)))
  /\ UNCHANGED <<phase, pc, tx, comp, txUnpub, fillLag, txLag, compSeen,
                 compHeld, batch, needWakeup>>

\* A UDP packet with forwarding configured: headers rewritten in place and
\* the same frame written to the TX ring.
RxForward ==
  /\ phase = "running" /\ pc = "rx" /\ batch < BatchSize
  /\ ReadRx
  /\ KindOf(Head(rx)) = "udp"
  /\ Forward /\ TxSpace > 0
  /\ tx' = Append(tx, Frame(Head(rx))) /\ txUnpub' = txUnpub + 1
  /\ batch' = batch + 1
  /\ UNCHANGED <<phase, pc, free, fill, comp, fillUnpub, fillLag, txLag,
                 compSeen, compHeld, needWakeup>>

\* A UDP packet that is not sent: forwarding off, or the TX ring is full.
RxReturn ==
  /\ phase = "running" /\ pc = "rx" /\ batch < BatchSize
  /\ ReadRx
  /\ KindOf(Head(rx)) = "udp"
  /\ ~(Forward /\ TxSpace > 0)
  /\ ReturnToFill(Frame(Head(rx)))
  /\ batch' = batch + 1
  /\ UNCHANGED <<phase, pc, tx, comp, txUnpub, fillLag, txLag, compSeen,
                 compHeld, needWakeup>>

\* batch_count reached BATCH_SIZE: commit rx, tx and fill, wake TX if asked.
BatchCommit ==
  /\ phase = "running" /\ pc = "rx" /\ batch = BatchSize
  /\ CommitRx /\ CommitTx /\ CommitFill
  /\ needWakeup' = FALSE
  /\ batch' = 0
  /\ UNCHANGED <<phase, pc, free, fill, rx, tx, comp, fillLag, txLag,
                 rxSeen, compSeen, compHeld>>

\* rx_ring.read() returned None.
RxDone ==
  /\ phase = "running" /\ pc = "rx" /\ batch < BatchSize
  /\ rxSeen = 0
  /\ pc' = "refill"
  /\ UNCHANGED <<phase, free, userRings, batch, needWakeup>>

\* Mutant: the refill loop writes one frame more than Fill has room for.
RefillOffByOne ==
  LET k == IF FillSpace + 1 < Len(free) THEN FillSpace + 1 ELSE Len(free)
  IN /\ phase = "running" /\ pc = "refill"
     /\ pc' = "commit"
     /\ fill' = fill \o TakeFree(k)
     /\ free' = KeepFree(k)
     /\ fillUnpub' = fillUnpub + k
     /\ UNCHANGED <<phase, rx, tx, comp, txUnpub, fillLag, txLag, rxSeen,
                    compSeen, rxHeld, compHeld, batch, needWakeup>>

\* while fill.available() > 0 { reserve a frame or break; write it }
Refill ==
  LET k == IF FillSpace < Len(free) THEN FillSpace ELSE Len(free)
  IN /\ phase = "running" /\ pc = "refill"
     /\ pc' = "commit"
     /\ fill' = fill \o TakeFree(k)
     /\ free' = KeepFree(k)
     /\ fillUnpub' = fillUnpub + k
     /\ UNCHANGED <<phase, rx, tx, comp, txUnpub, fillLag, txLag, rxSeen,
                    compSeen, rxHeld, compHeld, batch, needWakeup>>

\* if batch_count > 0 { commit rx, tx, fill }: no wake on this path.
FinalCommit ==
  /\ phase = "running" /\ pc = "commit"
  /\ batch > 0
  /\ CommitRx /\ CommitTx /\ CommitFill
  /\ batch' = 0
  /\ pc' = "sync"
  /\ UNCHANGED <<phase, free, fill, rx, tx, comp, fillLag, txLag, rxSeen,
                 compSeen, compHeld, needWakeup>>

SkipCommit ==
  /\ phase = "running" /\ pc = "commit"
  /\ batch = 0
  /\ pc' = "sync"
  /\ UNCHANGED <<phase, free, userRings, batch, needWakeup>>

-----------------------------------------------------------------------------

Kernel == (\E k \in Kinds : Arrive(k)) \/ KernelTx \/ KernelIdle

Relay ==
  \/ BindSocket \/ Prefill
  \/ SyncRings \/ DrainCompletion
  \/ RxDrop \/ RxForward \/ RxReturn \/ BatchCommit \/ RxDone
  \/ Refill \/ FinalCommit \/ SkipCommit

Next == Kernel \/ Relay

\* The relay thread busy-polls on a pinned CPU at SCHED_FIFO priority, so
\* each of its steps is taken while enabled; the NIC transmits what it may.
\* Packet arrivals carry no fairness: traffic may stop at any time.
Fairness == WF_vars(Relay) /\ WF_vars(KernelTx)

Spec == Init /\ [][Next]_vars /\ Fairness

-----------------------------------------------------------------------------
(* Properties.                                                             *)

TypeOK ==
  /\ phase \in {"loaded", "bound", "running"}
  /\ pc \in {"sync", "completion", "rx", "refill", "commit"}
  /\ free \in Seq(Frames) /\ fill \in Seq(Frames) /\ tx \in Seq(Frames)
  /\ comp \in Seq(Frames) /\ rx \in Seq(Frames \X Kinds)
  /\ {fillUnpub, txUnpub, fillLag, txLag, rxSeen, compSeen, rxHeld, compHeld}
       \subseteq Nat
  /\ batch \in 0..BatchSize
  /\ needWakeup \in BOOLEAN

\* Every place a frame can be, as one sequence.
Placement ==
  free \o fill \o [i \in 1..Len(rx) |-> Frame(rx[i])] \o tx \o comp

\* Frame lifecycle (spec section 8, invariant 1): every UMEM frame is owned
\* by exactly one of the free stack, Fill, RX, TX and Completion.  The RX
\* drop paths, the TX-full fallback, the Fill-full release, the completion
\* drain and the refill all move frames; a lost or doubled frame shows here.
FrameConservation ==
  /\ Len(Placement) = Cardinality(Frames)
  /\ ToSet(Placement) = Frames

\* Ring indices (spec section 8, invariant 5): on every ring the producer is
\* ahead of the consumer by at most the capacity, so no descriptor the other
\* side has not consumed is overwritten.  The relay checks room against a
\* consumer index cached at its last sync while the kernel keeps consuming,
\* and RX/Completion slots it has read stay occupied until it commits.
RingBounds ==
  /\ Len(fill) <= RxSize
  /\ Len(tx) <= TxSize
  /\ Len(rx) + rxHeld <= RxSize
  /\ Len(comp) + compHeld <= CompSize
  /\ rxSeen <= Len(rx) /\ compSeen <= Len(comp)
  /\ fillUnpub <= Len(fill) /\ txUnpub <= Len(tx)

\* The fallback of every RX path, umem.release when fill.write fails, is
\* never needed: whenever the relay holds an RX descriptor, the Fill ring
\* (as large as RX, lines 108-109) has room by its cached consumer, since
\* every RX frame came out of Fill.  Spec section 4.4's "Fill ring full"
\* case cannot arise while the rings keep these sizes.
FillFallbackUnused == (pc = "rx" /\ rxSeen > 0) => FillSpace > 0

\* The datapath never stalls for good: infinitely often the kernel has a
\* published Fill frame and a free RX slot, so it can deliver the next
\* packet.  Needs every frame the relay returns to be published again.
ReceiveReady == []<>(FillPublished > 0 /\ RxRoom > 0)

\* Every frame the relay queues for transmission eventually leaves the TX
\* ring (sent and posted to Completion).
InTx(f) == \E i \in 1..Len(tx) : tx[i] = f
TxEventuallySent == \A f \in Frames : InTx(f) ~> ~InTx(f)

=============================================================================
