----------------------------- MODULE ShredPrescan -----------------------------
(***************************************************************************)
(* The shred-type prescan of src/examples/shred_processor.rs               *)
(* (parse_shred_type, spec.md 4.5): it reads only the variant byte at      *)
(* offset 0x40 and classifies the payload as a data shred, a code shred or *)
(* no shred, so that process_shred_ref can skip the full decoder.          *)
(*                                                                         *)
(* The reference it must agree with is the decoder of solana-ledger,       *)
(* Shred::new_from_serialized_shred, outside the repository: the variant   *)
(* byte names a Merkle shred by its kind and its chained and resigned      *)
(* flags (upper nibble) and a proof size (lower nibble); the legacy        *)
(* variants 0x5A and 0xA5 are rejected, and so is every other byte.  A     *)
(* payload of a valid variant may still fail to decode (its size or proof  *)
(* do not fit), so the decoder's result is a set of possible types.        *)
(***************************************************************************)
EXTENDS Naturals, Bitwise

Byte == 0..255
SizeOfCommonHeader == 83   \* signature, variant, slot, index, version, fec_set

\* Mutant: the chained resigned data variant (0xB0) is not recognised.
ParseShredTypeNoResigned(len, variant) ==
  LET upper == variant & \hF0
  IN CASE len < SizeOfCommonHeader    -> "none"
       [] upper \in {\h80, \h90}       -> "data"
       [] upper \in {\h40, \h60, \h70} -> "code"
       [] OTHER                         -> "none"

\* parse_shred_type(data): None below the common header size, else the
\* upper nibble of the variant byte picks Data, Code or None.
ParseShredType(len, variant) ==
  LET upper == variant & \hF0
  IN CASE len < SizeOfCommonHeader    -> "none"
       [] upper \in {\h80, \h90, \hB0} -> "data"
       [] upper \in {\h40, \h60, \h70} -> "code"
       [] OTHER                         -> "none"

\* The Merkle variants of solana-ledger, by kind and flags; a resigned shred
\* is always chained.
MerkleVariants ==
  {m \in [kind : {"data", "code"}, chained : BOOLEAN, resigned : BOOLEAN] :
     m.resigned => m.chained}

\* The upper nibble solana-ledger writes for a Merkle variant:
\* code 0b01CR, data 0b10RC (C chained, R resigned).
B(flag) == IF flag THEN 1 ELSE 0
VariantNibble(m) ==
  IF m.kind = "code" THEN 4 + 2 * B(m.chained) + B(m.resigned)
  ELSE 8 + B(m.chained) + 2 * B(m.resigned)

\* The types the full decoder can return for a payload of length len with
\* this variant byte ({} when it always fails).
DecoderTypes(len, variant) ==
  IF len < SizeOfCommonHeader THEN {}
  ELSE {m.kind : m \in {m \in MerkleVariants : VariantNibble(m) = variant \div 16}}

\* Payload lengths on either side of the header bound.
Lens == {SizeOfCommonHeader - 1, SizeOfCommonHeader}

=============================================================================
