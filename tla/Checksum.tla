------------------------------- MODULE Checksum -------------------------------
(***************************************************************************)
(* The incremental checksum of a key-value map (kv/checksum.go).  It is    *)
(* the XOR of one hash per entry.  A 32-bit word is represented by the set *)
(* of its one bits, so that XOR is symmetric difference and 0 is {}.       *)
(***************************************************************************)
EXTENDS Naturals, FiniteSets

CONSTANT HashEntry(_, _)  \* hashEntry(key, value): CRC32 of the encoded entry

(* Checksum.Add, Remove and Replace all come down to one XOR.              *)
Xor(a, b) == (a \ b) \cup (b \ a)

(* The entries of view whose hash has bit b set.                           *)
Setters(view, b) == {k \in DOMAIN view : b \in HashEntry(k, view[k])}

(* ComputeChecksum: bit b of the XOR of all entries is set iff an odd      *)
(* number of entries set it.                                               *)
ChecksumOf(view) ==
    {b \in UNION {HashEntry(k, view[k]) : k \in DOMAIN view} :
        Cardinality(Setters(view, b)) % 2 = 1}
===============================================================================
