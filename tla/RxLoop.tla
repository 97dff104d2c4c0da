-------------------------------- MODULE RxLoop --------------------------------
(***************************************************************************)
(* The receive-only AF_XDP loop of src/src/rx_loop.rs with the kernel side *)
(* it drives.  Frames flow free stack -> Fill -> RX -> free stack: every   *)
(* received descriptor is released to the UMEM at once, and the Fill ring  *)
(* is topped up from the UMEM at the end of each iteration.  The loop      *)
(* polls an exit flag set by another thread at the top of each iteration.  *)
(*                                                                         *)
(* Rings follow spec.md 4.2 as in XdpRelay: rx is the sequence of          *)
(* descriptors the kernel has produced, rxSeen of them are below the       *)
(* user's cached producer index, rxHeld were read but the consumer index   *)
(* is unpublished; fillUnpub Fill entries are written but not committed.   *)
(* Whether sync(false) also publishes does not matter here: rx_loop        *)
(* commits RX and Fill in every iteration, before the next sync.           *)
(***************************************************************************)
EXTENDS Naturals, Sequences, FiniteSets, SequencesExt

CONSTANTS
  Frames,    \* UMEM frames (model values): frame_count = rx_size * 2
  RxSize     \* rx_size: capacity of the Fill ring and of the RX ring

ASSUME RxSize \in Nat \ {0} /\ Cardinality(Frames) = 2 * RxSize

VARIABLES
  pc,          \* "prefill", "top", "drain", "refill", "done"
  exit,        \* the shared AtomicBool exit
  free,        \* UMEM free stack: reserve pops the end, release pushes it
  fill, rx,    \* ring contents
  fillUnpub,   \* Fill entries written, producer index not committed
  rxSeen,      \* RX entries below the cached producer index
  rxHeld       \* RX entries read, consumer index not committed

vars == <<pc, exit, free, fill, rx, fillUnpub, rxSeen, rxHeld>>

FillPublished == Len(fill) - fillUnpub
RxRoom == RxSize - Len(rx) - rxHeld

\* umem.reserve() k times, each frame written to Fill: the top k of the stack.
TakeFree(k) == Reverse(SubSeq(free, Len(free) - k + 1, Len(free)))
KeepFree(k) == SubSeq(free, 1, Len(free) - k)

\* The free stack after SliceUmem::new: every frame, in some fixed order.
RECURSIVE StackOf(_)
StackOf(S) ==
  IF S = {} THEN <<>>
  ELSE LET f == CHOOSE x \in S : TRUE IN <<f>> \o StackOf(S \ {f})

Init ==
  /\ pc = "prefill"
  /\ exit = FALSE
  /\ free = StackOf(Frames)
  /\ fill = <<>> /\ rx = <<>>
  /\ fillUnpub = 0 /\ rxSeen = 0 /\ rxHeld = 0

-----------------------------------------------------------------------------
(* Environment: the kernel and the thread that owns exit.                  *)

\* A packet arrives: the kernel takes the oldest published Fill frame and
\* posts it to RX, which needs a slot the user has released.
Arrive ==
  /\ FillPublished > 0
  /\ RxRoom > 0
  /\ rx' = Append(rx, Head(fill))
  /\ fill' = Tail(fill)
  /\ UNCHANGED <<pc, exit, free, fillUnpub, rxSeen, rxHeld>>

\* exit.store(true) by the owner of the Arc<AtomicBool>.
RequestExit ==
  /\ ~exit
  /\ exit' = TRUE
  /\ UNCHANGED <<pc, free, fill, rx, fillUnpub, rxSeen, rxHeld>>

-----------------------------------------------------------------------------
(* rx_loop.                                                                *)

\* Pre-fill: while fill.available() > 0, reserve a frame and write it, or
\* stop when the UMEM is empty; then fill.commit().
Prefill ==
  LET k == IF RxSize < Len(free) THEN RxSize ELSE Len(free)
  IN /\ pc = "prefill"
     /\ pc' = "top"
     /\ fill' = fill \o TakeFree(k)
     /\ free' = KeepFree(k)
     /\ UNCHANGED <<exit, rx, fillUnpub, rxSeen, rxHeld>>

\* Mutant: exit is only honoured once a sync finds the RX ring empty.
StopWhenIdle ==
  /\ pc = "top" /\ exit /\ Len(rx) = 0
  /\ pc' = "done"
  /\ UNCHANGED <<exit, free, fill, rx, fillUnpub, rxSeen, rxHeld>>

\* if exit.load() { break }: rx_loop returns.
Stop ==
  /\ pc = "top" /\ exit
  /\ pc' = "done"
  /\ UNCHANGED <<exit, free, fill, rx, fillUnpub, rxSeen, rxHeld>>

\* rx_ring.sync(false): the cached producer index catches up.
SyncRx ==
  /\ pc = "top" /\ ~exit
  /\ pc' = "drain"
  /\ rxSeen' = Len(rx)
  /\ UNCHANGED <<exit, free, fill, rx, fillUnpub, rxHeld>>

\* Mutant: reads whatever the kernel has written, past the cached index.
ReadRxUnsynced ==
  /\ pc = "drain" /\ Len(rx) > 0
  /\ rx' = Tail(rx)
  /\ rxSeen' = rxSeen - 1 /\ rxHeld' = rxHeld + 1
  /\ free' = Append(free, Head(rx))
  /\ UNCHANGED <<pc, exit, fill, fillUnpub>>

\* Mutant: the read releases nothing; the frame is dropped on the floor.
ReadRxLeak ==
  /\ pc = "drain" /\ rxSeen > 0
  /\ rx' = Tail(rx)
  /\ rxSeen' = rxSeen - 1 /\ rxHeld' = rxHeld + 1
  /\ UNCHANGED <<pc, exit, free, fill, fillUnpub>>

\* rx_ring.read() returned a descriptor: count it and
\* umem.release(desc.addr).
ReadRx ==
  /\ pc = "drain" /\ rxSeen > 0
  /\ rx' = Tail(rx)
  /\ rxSeen' = rxSeen - 1 /\ rxHeld' = rxHeld + 1
  /\ free' = Append(free, Head(rx))
  /\ UNCHANGED <<pc, exit, fill, fillUnpub>>

\* rx_ring.read() returned None: rx_ring.commit().
CommitRx ==
  /\ pc = "drain" /\ rxSeen = 0
  /\ pc' = "refill"
  /\ rxHeld' = 0
  /\ UNCHANGED <<exit, free, fill, rx, fillUnpub, rxSeen>>

\* Mutant: the refill loop writes one frame more than the ring has room for.
RefillOffByOne ==
  LET room == RxSize - Len(fill) + 1
      k == IF room < Len(free) THEN room ELSE Len(free)
  IN /\ pc = "refill"
     /\ pc' = "top"
     /\ fill' = fill \o TakeFree(k)
     /\ free' = KeepFree(k)
     /\ UNCHANGED <<exit, rx, fillUnpub, rxSeen, rxHeld>>

\* Mutant: the refilled frames are never committed.
RefillNoCommit ==
  LET room == RxSize - Len(fill)
      k == IF room < Len(free) THEN room ELSE Len(free)
  IN /\ pc = "refill"
     /\ pc' = "top"
     /\ fill' = fill \o TakeFree(k)
     /\ free' = KeepFree(k)
     /\ fillUnpub' = fillUnpub + k
     /\ UNCHANGED <<exit, rx, rxSeen, rxHeld>>

\* Mutant: the refill loop stops while one Fill slot is still available.
RefillShort ==
  LET room == IF Len(fill) < RxSize THEN RxSize - Len(fill) - 1 ELSE 0
      k == IF room < Len(free) THEN room ELSE Len(free)
  IN /\ pc = "refill"
     /\ pc' = "top"
     /\ fill' = fill \o TakeFree(k)
     /\ free' = KeepFree(k)
     /\ fillUnpub' = 0
     /\ UNCHANGED <<exit, rx, rxSeen, rxHeld>>

\* fill.sync(false), which makes available() exact; while available() > 0
\* reserve and write a frame, stopping when the UMEM is empty; fill.commit().
\* The kernel only consumes published entries, so its steps between these
\* calls commute with them and the three are one step.
Refill ==
  LET room == RxSize - Len(fill)
      k == IF room < Len(free) THEN room ELSE Len(free)
  IN /\ pc = "refill"
     /\ pc' = "top"
     /\ fill' = fill \o TakeFree(k)
     /\ free' = KeepFree(k)
     /\ fillUnpub' = 0
     /\ UNCHANGED <<exit, rx, rxSeen, rxHeld>>

Loop == Prefill \/ Stop \/ SyncRx \/ ReadRx \/ CommitRx \/ Refill

Next == Arrive \/ RequestExit \/ Loop

\* The loop busy-polls on a pinned CPU at SCHED_FIFO, so each of its steps
\* is taken while enabled.  Arrivals and the exit request carry none.
Spec == Init /\ [][Next]_vars /\ WF_vars(Loop)

-----------------------------------------------------------------------------
(* Properties.                                                             *)

TypeOK ==
  /\ pc \in {"prefill", "top", "drain", "refill", "done"}
  /\ exit \in BOOLEAN
  /\ free \in Seq(Frames) /\ fill \in Seq(Frames) /\ rx \in Seq(Frames)
  /\ {fillUnpub, rxSeen, rxHeld} \subseteq Nat

\* The UMEM holds frame_count = rx_size * 2 frames so that the refill at
\* the end of every iteration tops Fill up to capacity: at the top of the
\* loop, the frames in Fill and those the kernel has since moved from Fill
\* to RX make up a whole ring.  This needs the frames read in the drain to
\* be back in the UMEM before the refill reserves, and the refill to write
\* until fill.available() is 0, whatever the kernel delivered meanwhile.
FillToppedUp ==
  pc = "top" => Len(fill) + Len(rx) >= RxSize

\* Ring indices (spec.md 8, invariant 5): Fill never holds more than its
\* capacity, and the RX slots the kernel may write plus those the loop has
\* read but not committed never exceed the RX capacity.
RingBounds ==
  /\ Len(fill) <= RxSize
  /\ Len(rx) + rxHeld <= RxSize
  /\ rxSeen <= Len(rx) /\ fillUnpub <= Len(fill)

\* Until the loop stops, the kernel is infinitely often able to deliver the
\* next packet: a published Fill frame and a free RX slot.
ReceiveReady == []<>(pc = "done" \/ (FillPublished > 0 /\ RxRoom > 0))

\* The exit flag is polled only at the top of the loop; the drain and the
\* refill must be finite whatever the traffic, so a set flag is honoured.
ExitHonoured == exit ~> pc = "done"

=============================================================================
