# TLA+ models of axdp

axdp is an AF_XDP packet relay for Solana shred traffic. It has two halves:

- **The datapath.** `src/src/relay_loop.rs`, the XDP classifier in
  `src/xdp-ebpf/src/main.rs` and `src/src/program.rs`, and the receive-only
  `src/src/rx_loop.rs`. One pinned thread moves UMEM frames between four rings
  it shares with the kernel:
  - **Fill**: user to kernel, empty frames for receiving;
  - **RX**: kernel to user, received packets;
  - **TX**: user to kernel, packets to send;
  - **Completion**: kernel to user, sent frames.
- **The shred reassembler.** The examples `deshred_sharded.rs`, `deshred.rs`
  and `shred_processor.rs` turn Solana data shreds into entry segments.

The modules here model both halves. They check what is hard to test:

- the interleaving of the relay thread with the kernel;
- ring and pool limits;
- shreds arriving in any order, duplicated, or colliding in the slot window.

## Inventory

| Part | Source | State | Operations | Module |
|---|---|---|---|---|
| UMEM and rings | crate `umem`/`socket` (not in `src/`), spec.md 4.1-4.2 | free stack; each ring's entries, cached peer index, unpublished own index | reserve, release, read, write, sync, commit, needs_wakeup/wake | `XdpRelay` helpers (spec-modelled) |
| XDP classifier | `xdp-ebpf/src/main.rs`, `program.rs` | XSKS_MAP entry | redirect or PASS; insert socket | `XdpRelay`: `Arrive`, `BindSocket` |
| Relay datapath | `relay_loop.rs` | loop position, batch_count | pre-fill, sync, completion drain, RX filter/forward/return, batch commit and wake, refill, final commit | `XdpRelay` |
| Receive-only loop | `rx_loop.rs` | like the relay, no TX | sync, read, release, commit, refill, exit | `RxLoop` |
| Compact reassembler | `deshred_sharded.rs` | per window position: slot, received mask, stored shreds, segment_ends, last_processed | add_shred, try_deshred_fast, cleanup_old_slots | `DeshredLocal` |
| Abstract reassembler | spec.md 4.6-4.7 | per position: slot, delivered data indices, segments emitted | deliver, drop | `SegmentStream` |
| Unbounded reassembler | `deshred.rs` | per slot: status and shred vectors | add_shred, try_deshred, find_complete_segment, cleanup | `DeshredMap` |
| Shred processor | `shred_processor.rs` | stats, one manager | parse_shred_type, process_shred (periodic cleanup), process_shred_ref (prescan, no cleanup) | `ShredPrescan`; `DeshredMap`: `ProcessShred`, `ProcessShredRef`, `SkipPayload` |
| Both reassemblers | spec.md 4.7 | both of the above | one shred to both | `DeshredEquiv` |
| Packet pool | `packet_pool.rs` | free_mask words, next_search | acquire (CAS loop), release | `PacketPool` |
| Abstract pool | `packet_pool.rs` doc comments | free set, owned packets per thread | acquire, release (atomic) | `PacketPoolSpec` |
| Disruptor events, raw socket, CLI | `disruptor_event.rs`, `raw_socket.rs`, `relay.rs` | none of interest | copies, syscalls, argument parsing | not modelled |

How the parts interact:

- The kernel takes frames from Fill, writes packets to RX, sends from TX and
  returns sent frames on Completion.
- The relay thread owns the user side of all four rings and the UMEM free stack.
- A shred consumer hands each parsed shred to one reassembler.
- A sharded front gives every thread its own `DeshredManagerLocal`, with no
  sharing between them.
- The packet pool is shared by any threads that call `acquire_ref`. It is a
  bitset of free packets, and the threads race on its words with atomics only.
  Nothing in the repository calls it yet (spec.md 1 puts it out of scope).

## Modules

### XdpRelay: relay_loop and the kernel side of the rings

**State**

- `free`: the UMEM free stack. It is LIFO, like `SliceUmem`.
- `fill`, `rx`, `tx`, `comp`: the ring contents. An RX entry is a pair of a
  frame and a packet class: `short`, `nonudp` or `udp`.
- Per ring, what the two sides have not yet seen of each other:
  - `fillUnpub` and `txUnpub`: entries the relay wrote but has not committed;
  - `rxHeld` and `compHeld`: entries the relay consumed but has not released;
  - `fillLag` and `txLag`: entries the kernel consumed since the relay's last
    sync;
  - `rxSeen` and `compSeen`: the entries the relay saw at its last sync.
- `batch`: `batch_count`.
- `pc`: the step of the loop iteration.
- `phase`: loaded, bound, running.
- `needWakeup`: the driver's TX need_wakeup flag.

**Actions**

There is one action per step of `relay_loop`:

| Action | Code |
|---|---|
| `BindSocket` | XSKMAP insert, lines 117-127 |
| `Prefill` | lines 156-173 |
| `SyncRings` | lines 206-211 |
| `DrainCompletion` | lines 220-223 |
| `RxDrop` | the short and non-UDP filters, lines 237-267 |
| `RxForward` / `RxReturn` | the forward branch and its TX-full fallback, 326-369 |
| `BatchCommit` | lines 371-381 |
| `RxDone` | the read returns None |
| `Refill` | lines 384-395 |
| `FinalCommit` / `SkipCommit` | lines 397-403 |

Each RX action includes its `fill.write`-or-`release` fallback (`ReturnToFill`)
and the batch count.

The kernel has three actions:

- `Arrive(k)`: the classifier redirects a packet into RX, using a published
  Fill frame;
- `KernelTx`: the NIC sends a published TX entry into Completion;
- `KernelIdle`: a need_wakeup driver goes idle.

**Constants**

- `Forward`: whether a destination is configured.
- `NeedWakeup`: whether the driver uses need_wakeup (copy mode, or a
  need_wakeup zero-copy driver).
- `SyncPublishes`: whether `sync(false)` publishes the user's indices. The
  crate is not in the repository, and the source and spec.md disagree on this.
  spec.md 4.2 reads `sync` as publishing, while `rx_loop.rs` pairs every
  `sync(false)` with a `commit()`. The checked runs assume it publishes. The
  `SyncRingsNoPublish` mutant of `ReceiveReady` shows the other reading: the
  relay publishes RX and Fill only through `commit()`, only when
  `batch_count > 0`, and filtered packets do not count. A run of short or
  non-UDP packets then empties Fill for good.

### RxLoop: the receive-only loop of rx_loop.rs

**State**

- The free stack, Fill and RX, as in `XdpRelay`: `fillUnpub` Fill entries not
  committed, `rxSeen` RX entries below the cached producer, `rxHeld` read but
  not committed. The UMEM has `2 * rx_size` frames.
- `pc`: the position in the loop; `exit`: the shared flag.

**Actions**

- `Prefill`: reserve and write until Fill is full or the UMEM is empty, then
  commit.
- `Stop`: the flag is set at the top of the loop; `rx_loop` returns.
- `SyncRx`: `rx_ring.sync(false)`.
- `ReadRx`: one descriptor read and its frame released to the UMEM at once.
- `CommitRx`: `read()` found nothing; `rx_ring.commit()`.
- `Refill`: `fill.sync(false)`, the refill loop and `fill.commit()` as one
  step. The kernel consumes only published Fill entries, so its steps commute
  with these three calls.
- Environment: `Arrive` (kernel receive) and `RequestExit` (another thread
  stores the flag).

Because RX and Fill are committed on every pass, it does not matter here
whether `sync` publishes.

### ShredSegments: the segments of a slot

`ShredSegments` is shared by the reassembler modules. It defines the k-th
segment between consecutive data-complete markers, `Segment(k)`, via the
recursive `EndOf`, and `SegmentNumber`, the number of the segment a range is
exactly.

### SegmentStream: what a reassembler promises

Each window position holds a slot, the data indices delivered to it, and how
many segments it has emitted. `Deliver(sh)` replaces the state of another
slot. It may emit the next segment once all of that segment's data indices
were delivered. `Drop(P)` discards states. A segment is the range between
consecutive data-complete markers (`Segment(k)` from `ShredSegments`).

### DeshredLocal: SlotShrdsCompact and DeshredManagerLocal

`slots[p]` is the window entry, a record with these fields:

- `slot`;
- `mask`, for `received_mask`;
- `shreds`: none, data or code at each index;
- `segEnds`, for `segment_ends`;
- `lastProcessed`.

The other variables:

- `currentSlot`;
- `got` and `out`: history variables holding the data indices delivered to
  each state and the last emission. They exist only for the properties.

The operators are:

| Operator | Models |
|---|---|
| `AddShred` | `SlotShrdsCompact::add_shred` |
| `TryDeshredFast` | `try_deshred_fast` |
| `AddShredLocal(sh)` | `DeshredManagerLocal::add_shred` |
| `CleanupOldSlots(c)` | `cleanup_old_slots` |

`AddShredLocal` has three disjuncts: refused, added, and added and emitted.

`Shredder::deshred` and `bincode::deserialize` are external. They are modelled
by what they accept (`DeshredOk`, `DeserializeOk`): consecutive data shreds,
with a data-complete marker on the last one only, starting at a segment
boundary.

The constant `OrderedEnds` restricts the environment to delivering a slot's
markers in index order. It is used to separate the findings.

`DeshredManagerSharded` is a vector of independent local managers with nothing
shared, so one instance covers it.

### DeshredMap: DeshredManager of deshred.rs driven by both shred fronts

`slots[s]` is the SlotShreds of slot `s`, or `Absent` when the HashMap has no
entry. It has a status per data index, the set of stored data indices and the
code shred indices.

`decoded` is the decoded counter. It is kept modulo `CleanupEvery`, because
process_shred reads it only as `decoded % 1000`.

`got`, `emitted` and `out` are history variables. `lost` is also a history
variable: it records that the prescan turned away a payload that the
decoder would have accepted.

`ManagerAddShred(sh)` is `DeshredManager::add_shred`: entry-or-insert,
`add_shred`, and `try_deshred` with `find_complete_segment`. Both fronts
call it:

- `ProcessShred(sh)` is the whole of `process_shred` for a shred that
  parses. It counts the shred as decoded, calls the manager, and runs
  `cleanup_old_slots(slot, Lookback)` when the counter wraps.
- `ProcessShredRef(sh, v)` is `process_shred_ref` for a payload with variant
  byte `v` that decodes to `sh`. It passes the prescan, counts the shred,
  and calls the manager. It never cleans up.
- `SkipPayload(len, v)` is the early return of `process_shred_ref` when
  `parse_shred_type` gives `None`.

Either front may run at each step. Both use the same
`Mutex<DeshredManager>`, so a program that calls only one of them has a
subset of these behaviours, and the safety properties hold for it as well.
Payloads that pass the prescan and then fail to decode, like those
`process_shred` cannot parse, change only the counters, so they are left
out.

### ShredPrescan: the shred-type prescan

`ParseShredType(len, variant)` translates `parse_shred_type`. A payload
shorter than the 83-byte common header gives `None`. Otherwise
`variant & 0xF0` (from `Bitwise`) selects Data for 0x80, 0x90 and 0xB0, Code
for 0x40, 0x60 and 0x70, and `None` for every other value.

The reference is the solana-ledger decoder, which is not in the repository.
It is written from the library's variant encoding rather than as a second
nibble table:

- a Merkle variant has a kind and a chained and a resigned flag, and a
  resigned variant is always chained;
- a code variant's upper nibble is `0b01CR` and a data variant's is `0b10RC`,
  where C is the chained flag and R the resigned flag;
- the legacy bytes 0x5A and 0xA5, and every other byte, are rejected.

`DecoderTypes(len, v)` is the set of types the decoder can return. A valid
variant can still fail on its size or its proof.

The comment on the data branch (`shred_processor.rs:69`) lists 0xA0 as a
MerkleData nibble, but the code tests only 0x80, 0x90 and 0xB0. Under the
encoding above, 0xA0 would be a resigned data shred that is not chained, and
the decoder rejects it. `map_window` checks every upper nibble, 0xA5
included, and finds that the code's list loses no decodable payload. So the
comment is wrong and the code is right; `PROJECT.json` records this as a
finding.

### DeshredEquiv: both reassemblers on one input

This module instantiates `DeshredLocal` and `DeshredMap` with renamed
variables. Each step delivers one shred to both. There is no eviction: one
slot, and a lookback of 0.

### PacketPool: the lock-free packet pool

**State**

- `free_mask`: one set of free bits per word; `next_search`: the start word.
- Per thread: `pc` (idle, at the top of the word loop, or about to exchange)
  and the locals of `acquire`: `start_idx`, `offset`, and `current`, the value
  of the last load.
- `held`: the packets whose `PacketRef` each thread owns.
- `steady` (history): per thread in `acquire`, the packets that were free
  when its scan began and that no thread has claimed since.

**Actions**

Each atomic operation of `acquire` is its own step, so other threads can
interleave between any two:

- `Begin`: the relaxed load of `next_search`;
- `LoadWord`: the load of a word; an empty word moves to the next offset;
- `CasSucceed`: the exchange finds the loaded value and clears its lowest set
  bit; `next_search` moves on;
- `CasFail`: the exchange fails and the same word is loaded again. It has
  two cases. In `CasFailStale`, another thread changed the word since the load.
  In `CasFailSpurious`, the word still equals `current` (the weak form);
- `Exhausted`: every word was empty at its load; `acquire` returns `None`;
- `Release`: `PacketRef::drop`, the `fetch_or` of the packet's bit.

`FairSpec` adds the fairness described under Fairness. `Abs` is the
refinement mapping to `PacketPoolSpec`. The abstract free set is the set of
bits in `free_mask`, and the abstract owners are `held`. A successful
exchange maps to `Acquire`, and `Release` maps to `Release`. Every other
step is a stuttering step of the contract.

### PacketPoolSpec: what the pool promises

This module states the contract of the pool as a set of free packets. In
one atomic step, `Acquire(t, p)` gives a free packet to thread `t`. In one
atomic step, `Release(t, p)` gives it back. A `None` result changes nothing.
The module has no words, bits, scan or retry. `ImplementsPacketPoolSpec`
checks that each packet claimed by the lock-free pool was free at the
moment of its exchange. It also checks that a `fetch_or` racing with an
exchange on the same word loses no bit and invents none.

## Runs

| Run | Expect | Checks | Shows |
|---|---|---|---|
| `xdp_forward` | pass | TypeOK, FrameConservation, RingBounds, FillFallbackUnused, ReceiveReady, TxEventuallySent | The core guarantees of the datapath, below. |
| `xdp_wakeup` | pass | FrameConservation, RingBounds, FillFallbackUnused, ReceiveReady | The safety guarantees and receive progress hold with a need_wakeup driver. Such a driver idles, so TX fills up, and a full TX ring sends frames down the Fill fallback path. |
| `xdp_txstall` | violation | TxEventuallySent | With need_wakeup, forwarded frames can stay in TX for ever. |
| `rx_loop` | pass | TypeOK, FillToppedUp, RingBounds, ReceiveReady, ExitHonoured | The receive-only loop tops Fill up to capacity in every iteration from its UMEM of `2 * rx_size` frames, stays within both rings, keeps the kernel able to deliver until it stops, and always honours exit. |
| `deshred_window` | pass | TypeOK, NoReprocessing, SegmentEndsAhead, ImplementsSegmentStream | The core guarantees of the reassembler, below. |
| `deshred_onepersend` | violation | NoStrandedSegment | A complete segment is not emitted when an earlier segment completes after it. |
| `deshred_codecollide` | violation | NoStrandedSegment | A code shred hides the data shred with the same index. |
| `map_window` | pass | TypeOK, StatusMatchesStored, EmitsWholeSegmentsInOrder, PrescanDropsOnlyUndecodable | With both fronts, statuses and stored shreds stay in step, and only whole, delivered segments are handed out, in order. The prescan never turns away a payload that the decoder accepts. |
| `map_reemit` | violation | EmitsEachSegmentOnce | A retransmitted segment is emitted again. |
| `map_stranded` | violation | NoStrandedSegment | The second segment of a slot is never emitted. |
| `pool` | pass | ExclusiveOwnership, PacketConservation, NoneOnlyUnderChurn, LockFree, ImplementsPacketPoolSpec | No packet has two owners or is owned while free; no packet is lost or duplicated. `acquire` returns `None` only when no packet stayed free for its whole scan. Unless the weak exchange fails spuriously forever, the running acquires keep returning. The pool refines `PacketPoolSpec`. |
| `equiv` | violation | SameOutput | The two reassemblers disagree on the same input, against spec.md 4.7. Markers out of index order block the compact one for good. |

What `xdp_forward` shows:

- every UMEM frame has exactly one owner, whatever the interleaving with the
  kernel;
- the cached ring indices never overrun a ring;
- the release-to-UMEM branch for a full Fill ring is never taken;
- the datapath is ready to receive again infinitely often;
- every frame put on TX leaves it.

What `deshred_window` shows:

- an emitted shred is never stored again;
- every recorded end stays at or after `last_processed`, so the slice in
  `try_deshred_fast` cannot panic;
- the reassembler refines `SegmentStream`: only whole segments, in order, each
  once, from shreds delivered to that state.

Every property of a passing run has a mutant in `PROJECT.json`. The mutant is
a plausible bug in the mapped code, and it makes TLC report the property
violated:

- a read past the synced index;
- a completion drain that does not release;
- an off-by-one in Fill space;
- a sync that forgets to refresh Fill, or to publish, or to publish Completion;
- a missing index bound;
- clearing the mask on emission;
- not popping `segment_ends`;
- ignoring a deshred error;
- a search for the last marker instead of the first, and statuses not reset;
- a prescan that misses the chained resigned data nibble 0xB0;
- in `rx_loop`: a read past the synced index, a refill that stops one frame
  short, a refill one frame too many, a refill without commit, and an exit honoured
  only when RX is empty;
- a packet claim by load and store instead of compare-exchange, a release
  that stores instead of OR-ing, and a failed
  exchange that skips the word instead of reloading it, and an exhausted
  scan that starts over instead of returning `None` (this stalls the pool
  while every packet is held), and a release that swaps the word index with
  the bit index.

Some properties are not checked in some runs, because no plausible bug
reaches them:

- `xdp_wakeup` does not repeat `TypeOK`; `xdp_forward` checks it.
- `PacketPool` has no type invariant. Its one free-standing conjunct,
  `next_search` within the word range, is kept twice by the code: by the
  modulo in the store (line 139) and by the one in the load (line 111).
  Dropping either is harmless.
- `rx_loop` does not check frame conservation. Its read releases each frame
  in the same step, so only deleting the release could break it.
  `xdp_forward` checks conservation where the fallbacks make it hard.
  Instead, `FillToppedUp` checks the sizing the loop depends on: the frames
  read in the drain are back in the UMEM before the refill, and the refill
  writes until `fill.available()` is 0. Together these fill Fill to capacity
  from `2 * rx_size` frames in every iteration.

spec.md 8 invariant 2 (set bits equal stored shreds) contradicts spec.md 4.6
step 6, which both keeps the bits of an emitted range and drops its shreds.
The code follows 4.6. `DeshredLocal` therefore checks the property the bits
are kept for, `NoReprocessing`, instead of invariant 2.

## Bounds

**XdpRelay**

- `forward` run: ring sizes 2, 2, completion 4, and 8 frames, matching the
  code's `(rx + tx) * 2`. `BATCH_SIZE` is 2, so both a full batch and a partial
  batch happen. All three packet classes occur.
- `wakeup` run: the same sizes and packet classes as `forward`, with
  75,602 states. With TX size 2, both a wake after a full batch and a TX ring
  left full while the driver waits occur.
- `txstall` run: TX size 1 and 6 frames. This is the smallest instance that
  shows the stall.
- Arrivals are unbounded in number, but each needs a free RX slot and a
  published Fill frame, so the state space is finite.

**RxLoop**

`rx_size` is 3 with 6 frames, so the UMEM holds a second Fill's worth of
frames. This lets an off-by-one refill overrun the ring, while the drain
returns frames and the refill reuses them in the same pass. The run has
108,002 states. It uses no symmetry, because liveness is checked.

**DeshredLocal**

The window run uses slots {0, 1, 3} with W = 2. This makes:

- slots 1 and 3 collide at one position;
- `cleanup_old_slots(3)` drop slot 0.

Within a slot:

- data indices 0..4 with markers at 1 and 3, so there are two segments;
- index 4 is at `MAX_SHREDS_PER_SLOT` = 4 and is refused;
- a code shred at index 0.

The violation runs use one slot and the smallest shred sets that show each
problem.

**DeshredMap**

The window run uses slots {0, 2} with a lookback of 1 and a cleanup every 3
decoded shreds, so shreds of slot 2 drop slot 0. Within a slot it uses the
same shred indices as `DeshredLocal`.

The payloads carry one variant byte for each of the 16 upper nibbles, plus
both legacy bytes. Neither the prescan nor the decoder reads the lower
nibble, except in the two legacy bytes. The skipped payloads have lengths
82 and 83, either side of the header bound. The decodable pairs
(`RefPayloads`) are a constant, so TLC computes them once. The run has
36,862 states and takes about 75 seconds.

**PacketPool**

Two threads and two words of two bits, so four packets. The two threads can
contend for the same word, and one can release into a word the other has
loaded or already passed. A scan wraps around to the first word, and the
pool can be exhausted while one thread holds several packets. No symmetry
is used, because `LockFree` is a liveness property. Three threads under
symmetry took 1.7 million states for the invariants alone. Every mutant of
the four invariants is still caught with two threads. The run has 58,628
states and takes about 10 seconds.

## Fairness

`relay_loop` busy-polls on a pinned CPU at maximum SCHED_FIFO priority
(lines 53, 84-85). It takes each step while that step is enabled, so
`WF_vars(Relay)` holds. The NIC transmits what it may: `WF_vars(KernelTx)`.
`KernelTx` is only enabled while `needWakeup` is clear, so a driver waiting for
a wake does not transmit.

`RxLoop` has weak fairness on its loop, for the same reason. The exit
request and arrivals have none. Its run does not check deadlock: after
`rx_loop` returns, the kernel stops once Fill is empty, and the system comes
to rest.

Arrivals carry no fairness, because traffic may stop at any time. The
reassembler runs are safety-only.

The pool run uses `FairSpec`. This adds `WF_vars(Acquiring(t))` for each
thread: a thread inside `acquire` is not descheduled for ever. Calling
`acquire` and dropping a `PacketRef` carry no fairness, because the caller
decides when. Weak fairness does not stop `compare_exchange_weak` from
failing spuriously on every try. On LL/SC hardware, only interrupts and
cache traffic cause such failures, and they cannot recur for ever.
`LockFree` therefore states this assumption as its premise
(`<>[][~SpuriousFailure]_vars`) instead of as strong fairness on
`CasSucceed`. Strong fairness would also forbid another thread from changing
the word before every exchange, so it would assume away the starvation that
lock-freedom permits. Without the premise, or without the fairness, TLC
finds the property violated.

## Not modelled, and the plan

1. **rx_loop.rs setup.** `rx_loop` never loads the XDP program and never
   inserts its socket into `XSKS_MAP`. Whether packets reach it depends on
   the `Socket::rx` crate, which is not in the repository. `RxLoop` assumes
   they do. The statistics counters are left out.
2. **shred_processor.rs.**
   - `extract_slot_fast` is a little-endian `u64` read. The `u64` does not
     fit TLC's 32-bit integers, and nothing calls the function, so it is not
     modelled.
   - The statistics counters and the logging are left out.
   - `process_shred_ref` never calls `cleanup_old_slots`, so its map grows
     with every slot it sees. A finite instance cannot show growth without
     bound. This hazard is listed without a property.
   - Nothing in the repository calls `process_shred_ref` or the parsers:
     the call in `relay_loop` is commented out.
3. **Cleanup history.** A slot dropped by cleanup can be re-created by a late
   shred. A history kept across cleanup would check for re-emission after
   that.
4. **packet_pool.rs progress.** `acquire` can return `None` while a packet
   is free: another thread released it into a word the scan had already
   passed. A throwaway invariant reaches this in 17 steps. It is the expected
   outcome of one lock-free pass. `NoneOnlyUnderChurn` checks the guarantee
   that remains: some packet stayed free for the whole scan, so the scan
   cannot return `None`. A single `acquire` can also starve while another
   thread keeps changing its word, so that `acquire` is not wait-free.
   `LockFree` checks only that the pool as a whole makes progress.
5. **Left out for good:**
   - header rewriting and checksums: data, not control;
   - capability and priority setup, and XDP attach mode: startup I/O;
   - `raw_socket.rs`: system calls, and nothing in the repository calls them.
     `RawSocket::new` passes `PACKET_ADD_MEMBERSHIP` at level `SOL_SOCKET`
     (line 82) rather than `SOL_PACKET`. At that level, the option number is
     that of `SO_DEBUG`, so promiscuous mode is never turned on. This is a
     kernel-interface error that no state machine shows, so it is noted here
     rather than checked;
   - `disruptor_event.rs`: plain data;
   - the CLI.
