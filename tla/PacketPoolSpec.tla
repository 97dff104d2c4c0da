---------------------------- MODULE PacketPoolSpec ----------------------------
(***************************************************************************)
(* What the packet pool of src/examples/packet_pool.rs promises its users, *)
(* stated without bit masks, words or retries: the pool is a set of free   *)
(* packets.  acquire_ref atomically hands one free packet to the calling   *)
(* thread (or returns None, which changes nothing), and dropping the       *)
(* PacketRef atomically gives that packet back.                            *)
(***************************************************************************)
CONSTANTS
  Threads,   \* threads calling acquire_ref and dropping PacketRefs
  Packets    \* the POOL_SIZE packets

VARIABLES
  free,      \* the packets no PacketRef owns
  owned      \* owned[t]: the packets of the PacketRefs t owns

Init ==
  /\ free = Packets
  /\ owned = [t \in Threads |-> {}]

Acquire(t, p) ==
  /\ p \in free
  /\ free' = free \ {p}
  /\ owned' = [owned EXCEPT ![t] = @ \cup {p}]

Release(t, p) ==
  /\ p \in owned[t]
  /\ free' = free \cup {p}
  /\ owned' = [owned EXCEPT ![t] = @ \ {p}]

Next == \E t \in Threads, p \in Packets : Acquire(t, p) \/ Release(t, p)

Spec == Init /\ [][Next]_<<free, owned>>

=============================================================================
