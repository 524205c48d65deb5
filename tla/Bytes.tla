------------------------------- MODULE Bytes -------------------------------
(***************************************************************************)
(* The four-byte little-endian fields of a PE image.                       *)
(*                                                                         *)
(* Radix is the number of values of a byte: 256 in the program.  The model *)
(* keeps the field four bytes wide and lets TLC shrink the byte, so that   *)
(* two fields overlap, and a subtraction wraps, exactly as they do in the  *)
(* code while a whole image stays a few dozen bytes long.                  *)
(***************************************************************************)
EXTENDS Naturals

CONSTANT Radix

ASSUME RadixAssumption == Radix \in Nat \ {0}

Byte == 0 .. Radix - 1

\* The values of a u32: 2^32 in the program.
AddressSpace == Radix * Radix * Radix * Radix

\* The RVAs of the four bytes of the field at an RVA.
FieldAt(site) == site .. site + 3

\* `&bytes[site..site + 4]`
Field(bytes, site) ==
  <<bytes[site], bytes[site + 1], bytes[site + 2], bytes[site + 3]>>

\* `u32::from_le_bytes`, `pod_read_unaligned::<u32>`
FromBytes(f) == f[1] + Radix * (f[2] + Radix * (f[3] + Radix * f[4]))

\* Mutant: the lowest byte is not cut to a byte.
ToBytesUncut(v) ==
  LET carry(n) == n \div Radix
  IN  <<v, carry(v) % Radix, carry(carry(v)) % Radix, carry(carry(carry(v))) % Radix>>

\* `u32::to_le_bytes`
ToBytes(v) ==
  LET carry(n) == n \div Radix
  IN  <<v % Radix,
        carry(v) % Radix,
        carry(carry(v)) % Radix,
        carry(carry(carry(v))) % Radix>>

\* `bytes[site..site + 4].copy_from_slice(&v.to_le_bytes())`
Patch(bytes, site, v) ==
  [rva \in DOMAIN bytes |->
     IF rva \in FieldAt(site) THEN ToBytes(v)[(rva - site) + 1] ELSE bytes[rva]]
=============================================================================
