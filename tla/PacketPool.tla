------------------------------ MODULE PacketPool ------------------------------
(***************************************************************************)
(* The lock-free packet pool of src/examples/packet_pool.rs.  free_mask is *)
(* an array of words whose set bits are the free packets; acquire scans    *)
(* the words from next_search, loads a word, and claims its lowest set bit *)
(* with compare_exchange_weak, retrying the word when the exchange fails;  *)
(* release (called by PacketRef::drop) sets the bit again with fetch_or.   *)
(*                                                                         *)
(* Each thread runs acquire as separate atomic steps: the load of          *)
(* next_search, each load of a word, and each exchange.  A word of 64 bits *)
(* is a subset of Bits; its lowest set bit (trailing_zeros) is Min.        *)
(***************************************************************************)
EXTENDS Naturals, FiniteSetsExt

CONSTANTS
  Threads,   \* threads calling acquire_ref and dropping PacketRefs
  Words,     \* POOL_SIZE / 64
  Bits       \* bit positions of a word (64 in the code)

ASSUME Words \in Nat \ {0} /\ Bits # {} /\ Bits \subseteq Nat

WordIdx == 0..Words - 1
Packets == WordIdx \X Bits      \* packet_idx = idx * 64 + bit_pos

VARIABLES
  free_mask,     \* free_mask[w]: the set bits of word w
  next_search,   \* the word the next acquire starts from
  pc,            \* pc[t]: "idle", "load" (top of the word loop), "cas"
  start_idx,     \* start_idx[t] of the running acquire
  offset,        \* offset[t]: the words already given up on
  current,       \* current[t]: the value the last load of the word read
  held,          \* held[t]: the packets of the PacketRefs t owns
  steady         \* history: packets free since t's acquire began, unclaimed

vars == <<free_mask, next_search, pc, start_idx, offset, current, held, steady>>

\* PacketPool::new: every bit set, next_search 0.
Init ==
  /\ free_mask = [w \in WordIdx |-> Bits]
  /\ next_search = 0
  /\ pc = [t \in Threads |-> "idle"]
  /\ start_idx = [t \in Threads |-> 0]
  /\ offset = [t \in Threads |-> 0]
  /\ current = [t \in Threads |-> {}]
  /\ held = [t \in Threads |-> {}]
  /\ steady = [t \in Threads |-> {}]

\* The packets whose bit is set in free_mask.
FreeSet == {p \in Packets : p[2] \in free_mask[p[1]]}

\* The word the acquire of t is on.
Word(t) == (start_idx[t] + offset[t]) % Words

\* acquire returns: its locals start_idx, offset and current are dead.
Finish(t) ==
  /\ pc' = [pc EXCEPT ![t] = "idle"]
  /\ start_idx' = [start_idx EXCEPT ![t] = 0]
  /\ offset' = [offset EXCEPT ![t] = 0]
  /\ current' = [current EXCEPT ![t] = {}]

\* History: t's scan is over, and packet p, once claimed, is no longer
\* steadily free for any other scan.
Claimed(t, p) ==
  steady' = [x \in Threads |-> IF x = t THEN {} ELSE steady[x] \ {p}]

\* acquire begins: start_idx = next_search.load() % (POOL_SIZE / 64).
Begin(t) ==
  /\ pc[t] = "idle"
  /\ pc' = [pc EXCEPT ![t] = "load"]
  /\ start_idx' = [start_idx EXCEPT ![t] = next_search % Words]
  /\ offset' = [offset EXCEPT ![t] = 0]
  /\ steady' = [steady EXCEPT ![t] = FreeSet]
  /\ UNCHANGED <<free_mask, next_search, current, held>>

\* current = mask.load(); a zero word breaks to the next offset, any other
\* goes on to claim its lowest set bit.
LoadWord(t) ==
  /\ pc[t] = "load"
  /\ offset[t] < Words
  /\ IF free_mask[Word(t)] = {}
       THEN /\ offset' = [offset EXCEPT ![t] = @ + 1]
            /\ UNCHANGED <<pc, current>>
       ELSE /\ current' = [current EXCEPT ![t] = free_mask[Word(t)]]
            /\ pc' = [pc EXCEPT ![t] = "cas"]
            /\ UNCHANGED offset
  /\ UNCHANGED <<free_mask, next_search, start_idx, held, steady>>

\* Mutant: an empty pool makes acquire start the scan over instead of
\* returning None (a retry loop around the scan).
ExhaustedRetry(t) ==
  /\ pc[t] = "load"
  /\ offset[t] = Words
  /\ offset' = [offset EXCEPT ![t] = 0]
  /\ UNCHANGED <<free_mask, next_search, pc, start_idx, current, held, steady>>

\* Every word was found empty: acquire returns None (acquire_ref too).
Exhausted(t) ==
  /\ pc[t] = "load"
  /\ offset[t] = Words
  /\ Finish(t)
  /\ steady' = [steady EXCEPT ![t] = {}]
  /\ UNCHANGED <<free_mask, next_search, held>>

\* Mutant: the claim stores new_mask without comparing (load, then store).
CasSucceedUnchecked(t) ==
  LET w == Word(t)
      b == Min(current[t])
  IN /\ pc[t] = "cas"
     /\ free_mask' = [free_mask EXCEPT ![w] = current[t] \ {b}]
     /\ next_search' = (w + 1) % Words
     /\ held' = [held EXCEPT ![t] = @ \cup {<<w, b>>}]
     /\ Claimed(t, <<w, b>>)
     /\ Finish(t)

\* Mutant: release overwrites the word with the released bit alone.
ReleaseStore(t, p) ==
  /\ pc[t] = "idle"
  /\ p \in held[t]
  /\ free_mask' = [free_mask EXCEPT ![p[1]] = {p[2]}]
  /\ held' = [held EXCEPT ![t] = @ \ {p}]
  /\ UNCHANGED <<next_search, pc, start_idx, offset, current, steady>>

\* compare_exchange_weak(current, current & !(1 << bit_pos)) succeeds: the
\* bit is claimed, next_search moves past the word, and acquire_ref wraps
\* the packet in a PacketRef owned by t.
CasSucceed(t) ==
  LET w == Word(t)
      b == Min(current[t])
  IN /\ pc[t] = "cas"
     /\ free_mask[w] = current[t]
     /\ free_mask' = [free_mask EXCEPT ![w] = current[t] \ {b}]
     /\ next_search' = (w + 1) % Words
     /\ held' = [held EXCEPT ![t] = @ \cup {<<w, b>>}]
     /\ Claimed(t, <<w, b>>)
     /\ Finish(t)

\* Mutant: a failed exchange gives up on the word instead of reloading it.
CasFailSkipWord(t) ==
  /\ pc[t] = "cas"
  /\ pc' = [pc EXCEPT ![t] = "load"]
  /\ offset' = [offset EXCEPT ![t] = @ + 1]
  /\ UNCHANGED <<free_mask, next_search, start_idx, current, held, steady>>

\* The exchange fails because another thread changed the word since the
\* load: the loop loads the same word again.
CasFailStale(t) ==
  /\ pc[t] = "cas"
  /\ free_mask[Word(t)] # current[t]
  /\ pc' = [pc EXCEPT ![t] = "load"]
  /\ UNCHANGED <<free_mask, next_search, start_idx, offset, current, held, steady>>

\* compare_exchange_weak fails spuriously although the word still equals
\* current: the loop loads the same word again.
CasFailSpurious(t) ==
  /\ pc[t] = "cas"
  /\ free_mask[Word(t)] = current[t]
  /\ pc' = [pc EXCEPT ![t] = "load"]
  /\ UNCHANGED <<free_mask, next_search, start_idx, offset, current, held, steady>>

CasFail(t) == CasFailStale(t) \/ CasFailSpurious(t)

\* Mutant: release swaps word_idx and bit_idx (index % 64, index / 64).
ReleaseSwapped(t, p) ==
  /\ pc[t] = "idle"
  /\ p \in held[t]
  /\ free_mask' = [free_mask EXCEPT ![p[2]] = @ \cup {p[1]}]
  /\ held' = [held EXCEPT ![t] = @ \ {p}]
  /\ UNCHANGED <<next_search, pc, start_idx, offset, current, steady>>

\* PacketRef::drop -> release(index): fetch_or of the packet's bit.
Release(t, p) ==
  /\ pc[t] = "idle"
  /\ p \in held[t]
  /\ free_mask' = [free_mask EXCEPT ![p[1]] = @ \cup {p[2]}]
  /\ held' = [held EXCEPT ![t] = @ \ {p}]
  /\ UNCHANGED <<next_search, pc, start_idx, offset, current, steady>>

Next ==
  \E t \in Threads :
    \/ Begin(t) \/ LoadWord(t) \/ Exhausted(t) \/ CasSucceed(t) \/ CasFail(t)
    \/ \E p \in held[t] : Release(t, p)

Spec == Init /\ [][Next]_vars

\* A thread inside acquire runs: each of its steps is taken while enabled.
\* Nothing forces a thread to call acquire or to drop a PacketRef.
Acquiring(t) ==
  LoadWord(t) \/ Exhausted(t) \/ CasSucceed(t) \/ CasFail(t)

FairSpec == Spec /\ \A t \in Threads : WF_vars(Acquiring(t))

-----------------------------------------------------------------------------
(* Properties.                                                             *)

\* The comment on acquire, "exclusive access via atomic bit": no packet is
\* owned by two PacketRefs, and no owned packet's bit is set, whatever the
\* interleaving of loads, exchanges and fetch_ors of the threads.
ExclusiveOwnership ==
  /\ \A t, u \in Threads : t # u => held[t] \cap held[u] = {}
  /\ \A t \in Threads : \A p \in held[t] : p[2] \notin free_mask[p[1]]

\* No packet leaks or appears: each packet is free or owned by a thread,
\* so a fetch_or racing a claim in the same word loses no bit.
PacketConservation ==
  \A p \in Packets :
    (p[2] \in free_mask[p[1]]) \/ (\E t \in Threads : p \in held[t])

\* acquire may return None ("pool exhausted") while a packet is free, when
\* the packet was released into a word the scan had already passed.  What
\* the loop over the words and the retry of a failed exchange guarantee is
\* weaker: a None is returned only when no packet stayed free and unclaimed
\* for the whole scan, whatever the other threads did meanwhile.
NoneOnlyUnderChurn ==
  \A t \in Threads : pc[t] = "load" /\ offset[t] = Words => steady[t] = {}

\* The pool implements PacketPoolSpec: the free packets are the set bits,
\* and each successful compare_exchange_weak is the instant its packet is
\* handed over, atomically, whatever the other threads' exchanges and
\* fetch_ors in between.  Loads, failed exchanges and None change nothing.
Abs == INSTANCE PacketPoolSpec WITH free <- FreeSet, owned <- held
ImplementsPacketPoolSpec == Abs!Spec

\* An acquire returns, with a packet or None.
AcquireReturns == \E t \in Threads : pc[t] # "idle" /\ pc'[t] = "idle"

\* An exchange fails although the word still equals current.
SpuriousFailure ==
  \E t \in Threads : /\ pc[t] = "cas" /\ pc'[t] = "load"
                    /\ free_mask[Word(t)] = current[t]

\* acquire is lock-free (packet_pool.rs: "acquire a packet from the pool
\* (lock-free)"): a failed exchange means another thread changed the word,
\* so while acquires run, one of them returns, unless compare_exchange_weak
\* fails spuriously forever.  A thread can starve; the system cannot stall.
LockFree ==
  <>[][~SpuriousFailure]_vars
    => ([]<>(\A t \in Threads : pc[t] = "idle") \/ []<><<AcquireReturns>>_vars)

=============================================================================
