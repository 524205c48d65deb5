---------------------------- MODULE RelocsProofs ----------------------------
(***************************************************************************)
(* What the relocation stage keeps true, for every image, PDB, manifest    *)
(* and option: every radix, base, size, section layout and set of inputs   *)
(* that ConstantsAssumption allows.                                        *)
(*                                                                         *)
(* The argument.  A step changes coff_data and relocs_rva in one way only: *)
(* it patches one readable site with the addend of a relocation that the   *)
(* site's *linked* bytes classify to, and records that relocation (lemma   *)
(* Effect).  A classification is a function of the input (lemma            *)
(* ClassifiedUnique), so recording twice changes nothing, and the patch of *)
(* one site cannot disturb the field of a site it does not overlap.        *)
(***************************************************************************)
EXTENDS Relocs, TLAPS
-----------------------------------------------------------------------------
(* Four-byte fields, for every radix: reading what was written gives it      *)
(* back, and a write disturbs no field it does not overlap.                  *)

\* There is at least one u32.
LEMMA AddressSpaceType == AddressSpace \in Nat \ {0}
BY RadixAssumption DEF AddressSpace

\* Division with remainder, for a divisor that is not a number written out.
LEMMA DivMod ==
  ASSUME NEW v \in Nat, NEW r \in Nat \ {0}
  PROVE  /\ v \div r \in Nat /\ v % r \in 0 .. r - 1
         /\ v = r * (v \div r) + (v % r)
OBVIOUS

\* A digit and a bounded rest make a bounded number.
LEMMA Bound ==
  ASSUME NEW r \in Nat \ {0}, NEW m \in Nat, NEW lo \in 0 .. r - 1, NEW hi \in Nat, hi < m
  PROVE  lo + r * hi \in Nat /\ lo + r * hi < r * m
OBVIOUS

\* Dropping a digit divides the bound.
LEMMA DivBound ==
  ASSUME NEW r \in Nat \ {0}, NEW m \in Nat, NEW v \in Nat, v < r * m
  PROVE  v \div r < m
OBVIOUS

\* A number below the radix is its own digit.
LEMMA ModSmall ==
  ASSUME NEW r \in Nat \ {0}, NEW v \in Nat, v < r
  PROVE  v % r = v
OBVIOUS

\* `from_le_bytes` of four bytes is a u32.
LEMMA FromBytesType ==
  ASSUME NEW b1 \in Byte, NEW b2 \in Byte, NEW b3 \in Byte, NEW b4 \in Byte
  PROVE  FromBytes(<<b1, b2, b3, b4>>) \in 0 .. AddressSpace - 1
<1> USE RadixAssumption DEF Byte
<1> DEFINE f4 == b4
           f3 == b3 + Radix * f4
           f2 == b2 + Radix * f3
           f1 == b1 + Radix * f2
<1>1. f3 \in Nat /\ f3 < Radix * Radix
  BY Bound
<1>2. f2 \in Nat /\ f2 < Radix * (Radix * Radix)
  <2> HIDE DEF f3
  <2> QED BY <1>1, Bound
<1>3. f1 \in Nat /\ f1 < Radix * (Radix * (Radix * Radix))
  <2> HIDE DEF f2
  <2> QED BY <1>2, Bound
<1>4. Radix * (Radix * (Radix * Radix)) = AddressSpace
  BY DEF AddressSpace
<1>5. FromBytes(<<b1, b2, b3, b4>>) = f1
  BY DEF FromBytes
<1> HIDE DEF f1
<1> QED BY <1>3, <1>4, <1>5

\* A number is its lowest digit and the rest.
LEMMA Digit ==
  ASSUME NEW r \in Nat \ {0}, NEW m \in Nat, NEW v \in Nat, v < r * m
  PROVE  /\ v \div r \in Nat /\ v \div r < m
         /\ v % r \in 0 .. r - 1
         /\ v = (v % r) + r * (v \div r)
<1>1. /\ v \div r \in Nat /\ v % r \in 0 .. r - 1
      /\ v = r * (v \div r) + (v % r)
  BY DivMod
<1>2. v \div r < m
  BY DivBound
<1> DEFINE d == v \div r
           e == v % r
           p == r * d
<1>3. p \in Nat /\ e \in Nat
  BY <1>1
<1> HIDE DEF d, e, p
<1>4. v = e + p
  BY <1>1, <1>3 DEF d, e, p
<1> QED BY <1>1, <1>2, <1>4 DEF d, e, p

\* `to_le_bytes` gives four bytes, and `from_le_bytes` undoes it.
LEMMA ToBytesInverse ==
  ASSUME NEW v \in 0 .. AddressSpace - 1
  PROVE  /\ \A n \in 1 .. 4 : ToBytes(v)[n] \in Byte
         /\ FromBytes(<<ToBytes(v)[1], ToBytes(v)[2], ToBytes(v)[3], ToBytes(v)[4]>>) = v
<1> DEFINE q1 == v \div Radix
           q2 == q1 \div Radix
           q3 == q2 \div Radix
           m2 == Radix * Radix
           m3 == Radix * m2
<1>0. /\ Radix \in Nat \ {0} /\ m2 \in Nat /\ m3 \in Nat
      /\ m2 = Radix * Radix /\ m3 = Radix * m2
  BY RadixAssumption
<1>1. v \in Nat /\ v < Radix * m3
  BY RadixAssumption DEF AddressSpace
<1>2. q1 \in Nat /\ q1 < m3 /\ v % Radix \in 0 .. Radix - 1
      /\ v = (v % Radix) + Radix * q1
  <2> HIDE DEF m2, m3
  <2> QED BY <1>0, <1>1, Digit
<1>3. q2 \in Nat /\ q2 < m2 /\ q1 % Radix \in 0 .. Radix - 1
      /\ q1 = (q1 % Radix) + Radix * q2
  <2> HIDE DEF q1, m2, m3
  <2> QED BY <1>0, <1>2, Digit
<1>4. q3 \in Nat /\ q3 < Radix /\ q2 % Radix \in 0 .. Radix - 1
      /\ q2 = (q2 % Radix) + Radix * q3
  <2> HIDE DEF q2, m2, m3
  <2> QED BY <1>0, <1>3, Digit
<1>5. q3 % Radix = q3
  <2> HIDE DEF q3, m2, m3
  <2> QED BY <1>0, <1>4, ModSmall
<1>6. /\ ToBytes(v)[1] = v % Radix /\ ToBytes(v)[2] = q1 % Radix
      /\ ToBytes(v)[3] = q2 % Radix /\ ToBytes(v)[4] = q3 % Radix
  BY DEF ToBytes
<1> HIDE DEF q1, q2, q3, m2, m3
<1>7. q3 \in 0 .. Radix - 1
  BY <1>0, <1>4
<1>8. \A n \in 1 .. 4 : ToBytes(v)[n] \in Byte
  BY <1>2, <1>3, <1>4, <1>5, <1>6, <1>7 DEF Byte
<1>9. FromBytes(<<ToBytes(v)[1], ToBytes(v)[2], ToBytes(v)[3], ToBytes(v)[4]>>)
        = (v % Radix) + Radix * ((q1 % Radix) + Radix * ((q2 % Radix) + Radix * q3))
  BY <1>5, <1>6 DEF FromBytes
<1> QED BY <1>2, <1>3, <1>4, <1>8, <1>9

\* Reading a field of an image gives a u32.
LEMMA FieldType ==
  ASSUME NEW size \in Nat, NEW bytes \in [0 .. size - 1 -> Byte],
         NEW site \in Nat, site + 4 <= size
  PROVE  FromBytes(Field(bytes, site)) \in 0 .. AddressSpace - 1
BY FromBytesType DEF Field

\* A write is read back, keeps the image an image, and leaves the other bytes.
LEMMA PatchEffect ==
  ASSUME NEW size \in Nat, NEW bytes \in [0 .. size - 1 -> Byte],
         NEW site \in Nat, site + 4 <= size,
         NEW v \in 0 .. AddressSpace - 1
  PROVE  /\ Patch(bytes, site, v) \in [0 .. size - 1 -> Byte]
         /\ FromBytes(Field(Patch(bytes, site, v), site)) = v
         /\ \A rva \in (0 .. size - 1) \ FieldAt(site) :
              Patch(bytes, site, v)[rva] = bytes[rva]
<1> DEFINE p == Patch(bytes, site, v)
<1>1. \A rva \in FieldAt(site) : rva \in 0 .. size - 1 /\ (rva - site) + 1 \in 1 .. 4
  BY DEF FieldAt
<1>2. \A n \in 1 .. 4 : ToBytes(v)[n] \in Byte
  BY ToBytesInverse
<1>3. p \in [0 .. size - 1 -> Byte]
  BY <1>1, <1>2 DEF Patch
<1>4. \A rva \in (0 .. size - 1) \ FieldAt(site) : p[rva] = bytes[rva]
  BY DEF Patch
<1>5. /\ p[site] = ToBytes(v)[1] /\ p[site + 1] = ToBytes(v)[2]
      /\ p[site + 2] = ToBytes(v)[3] /\ p[site + 3] = ToBytes(v)[4]
  BY <1>1 DEF Patch, FieldAt
<1>6. Field(p, site) = <<ToBytes(v)[1], ToBytes(v)[2], ToBytes(v)[3], ToBytes(v)[4]>>
  BY <1>5 DEF Field
<1>7. FromBytes(Field(p, site)) = v
  BY <1>6, ToBytesInverse
<1> QED BY <1>3, <1>4, <1>7

\* A field that overlaps no byte of a write reads as it did.
LEMMA PatchApart ==
  ASSUME NEW size \in Nat, NEW bytes \in [0 .. size - 1 -> Byte],
         NEW site \in Nat, site + 4 <= size,
         NEW v \in 0 .. AddressSpace - 1,
         NEW other \in Nat, other + 4 <= size,
         FieldAt(site) \cap FieldAt(other) = {}
  PROVE  Field(Patch(bytes, site, v), other) = Field(bytes, other)
<1>1. \A rva \in FieldAt(other) : rva \in (0 .. size - 1) \ FieldAt(site)
  BY DEF FieldAt
<1>2. \A rva \in FieldAt(other) : Patch(bytes, site, v)[rva] = bytes[rva]
  BY <1>1, PatchEffect
<1>3. other \in FieldAt(other) /\ other + 1 \in FieldAt(other)
      /\ other + 2 \in FieldAt(other) /\ other + 3 \in FieldAt(other)
  BY DEF FieldAt
<1> QED BY <1>2, <1>3 DEF Field
-----------------------------------------------------------------------------
(* The invariant.                                                          *)

\* A step that relocates a site.
Relocates(site) ==
  /\ site \in Nat /\ Readable(site)
  /\ input' = input
  /\ \E r \in Classified(TargetRva(site)) :
       /\ coff_data' = Patch(coff_data, site, r.target - r.base)
       /\ relocs_rva' = Insert(relocs_rva, site, r)

\* Every relocation is one its site's linked bytes classify to.
Recorded ==
  \A s \in DOMAIN relocs_rva : relocs_rva[s] \in Classified(TargetRva(s))

IInv == TypeOK /\ Recorded
-----------------------------------------------------------------------------
(* Lookups.                                                                *)

\* A predecessor is a key, at or below.
LEMMA PredecessorKey ==
  ASSUME NEW keys \in SUBSET Nat, NEW rva \in Nat, NEW k \in Predecessor(keys, rva)
  PROVE  k \in keys /\ k \in Nat /\ k <= rva
BY DEF Predecessor

\* There is at most one.
LEMMA PredecessorUnique ==
  ASSUME NEW keys \in SUBSET Nat, NEW rva \in Nat,
         NEW j \in Predecessor(keys, rva), NEW k \in Predecessor(keys, rva)
  PROVE  j = k
BY DEF Predecessor

\* The definitions of an input, as the lookup sees them.
LEMMA DefinitionsType ==
  ASSUME NEW i, IsInput(i)
  PROVE  /\ {d.rva : d \in i.definitions} \in SUBSET Nat
         /\ \A d \in i.definitions : d.rva \in Nat /\ d.size \in Nat /\ d.size > 0
BY DEF IsInput

\* The partition point finds a covering definition whenever there is one:
\* with extents that do not overlap, no later definition can start between
\* the one that covers an address and the address.
LEMMA OwnerCovers ==
  ASSUME NEW i, IsInput(i), NEW rva \in Nat
  PROVE  Owner(i.definitions, rva) = {d \in i.definitions : Covers(d, rva)}
<1> DEFINE D == i.definitions
           keys == {e.rva : e \in D}
<1>1. keys \in SUBSET Nat /\ \A d \in D : d.rva \in Nat /\ d.size \in Nat /\ d.size > 0
  BY DefinitionsType
<1>2. ASSUME NEW d \in Owner(D, rva) PROVE Covers(d, rva)
  <2>1. d \in D /\ d.rva \in Predecessor(keys, rva) /\ rva - d.rva < d.size
    BY DEF Owner
  <2>2. d.rva <= rva
    BY <1>1, <2>1, PredecessorKey
  <2> QED BY <1>1, <2>1, <2>2 DEF Covers
<1>3. ASSUME NEW d \in D, Covers(d, rva) PROVE d \in Owner(D, rva)
  <2>1. d.rva \in keys /\ d.rva <= rva /\ rva - d.rva < d.size
    BY <1>1, <1>3 DEF Covers
  <2>2. ASSUME NEW e \in D, e.rva <= rva PROVE e.rva <= d.rva
    <3>1. e = d \/ d.rva + d.size <= e.rva \/ e.rva + e.size <= d.rva
      BY DEF IsInput, NonOverlapping
    <3> QED BY <1>1, <1>3, <2>2, <3>1 DEF Covers
  <2>3. d.rva \in Predecessor(keys, rva)
    BY <2>1, <2>2 DEF Predecessor
  <2> QED BY <2>1, <2>3 DEF Owner
<1>4. Owner(D, rva) \subseteq D
  BY DEF Owner
<1> QED BY <1>2, <1>3, <1>4
-----------------------------------------------------------------------------
(* Classification.                                                         *)

\* A set of relocations of one target and one kind, its symbols drawn from a
\* single lookup.
OneLookup(relocs, kind, target) ==
  \E keys \in SUBSET Nat : \E bases \in SUBSET Predecessor(keys, target) :
    relocs = As(kind, bases, target)

\* Each branch of `resolve_absolute_site` consults a single lookup.
LEMMA ClassifiedShape ==
  ASSUME IsInput(input), NEW t \in Nat
  PROVE  \E kind \in Kinds :
           OneLookup(Classified(t), kind, t) /\ (kind = "Function" <=> In(Text, t))
<1>1. ASSUME NEW kind, NEW keys \in SUBSET Nat, NEW bases,
             bases \subseteq Predecessor(keys, t)
      PROVE  OneLookup(As(kind, bases, t), kind, t)
  BY <1>1 DEF OneLookup
<1>2. OneLookup({}, "ReviewedData", t)
  <2>1. As("ReviewedData", {}, t) = {}
    BY DEF As
  <2> QED BY <2>1, <1>1
<1>3. OneLookup(Reviewed(t), "ReviewedData", t)
  <2> DEFINE keys == {d.rva : d \in input.definitions}
             bases == {d.rva : d \in Owner(input.definitions, t)}
  <2>1. keys \in SUBSET Nat
    BY DefinitionsType
  <2>2. bases \subseteq Predecessor(keys, t)
    BY DEF Owner
  <2> QED BY <2>1, <2>2, <1>1 DEF Reviewed
<1>4. OneLookup(ConjuredRdata(t), "ConjuredString", t)
      \/ OneLookup(ConjuredRdata(t), "ConjuredConstant", t)
  <2> DEFINE strings == {s \in Predecessor(DOMAIN input.strings, t) :
                           t - s < input.strings[s]}
  <2>1. DOMAIN input.strings \in SUBSET Nat /\ input.constants \in SUBSET Nat
    BY DEF IsInput
  <2>2. strings \subseteq Predecessor(DOMAIN input.strings, t)
    OBVIOUS
  <2>3. OneLookup(As("ConjuredString", strings, t), "ConjuredString", t)
    BY <2>1, <2>2, <1>1
  <2>4. OneLookup(As("ConjuredConstant", Predecessor(input.constants, t), t),
                  "ConjuredConstant", t)
    BY <2>1, <1>1
  <2> QED BY <2>3, <2>4 DEF ConjuredRdata, OrElse
<1>5. OneLookup(ConjuredStatic(t), "ConjuredStatic", t)
  BY <1>1 DEF ConjuredStatic, IsInput
<1>6. In(Text, t) => OneLookup(Classified(t), "Function", t)
  BY <1>1 DEF Classified, IsInput
<1>7. ~In(Text, t) =>
        \E kind \in Kinds \ {"Function"} : OneLookup(Classified(t), kind, t)
  BY <1>2, <1>3, <1>4, <1>5 DEF Classified, OrConjured, OrElse, Kinds
<1> QED BY <1>6, <1>7 DEF Kinds

\* A relocation of a target stands for it, through a symbol at or below it.
LEMMA ClassifiedFacts ==
  ASSUME IsInput(input), NEW t \in Nat, NEW r \in Classified(t)
  PROVE  /\ r \in RelocType
         /\ r.target = t /\ r.base <= t
         /\ In(Text, t) <=> r.kind = "Function"
<1>1. PICK kind \in Kinds, keys \in SUBSET Nat, bases \in SUBSET Nat :
        /\ bases \subseteq Predecessor(keys, t)
        /\ Classified(t) = As(kind, bases, t)
        /\ kind = "Function" <=> In(Text, t)
  BY ClassifiedShape DEF OneLookup, Predecessor
<1>2. PICK b \in bases : r = [kind |-> kind, base |-> b, target |-> t]
  BY <1>1 DEF As
<1>3. b \in Nat /\ b <= t
  BY <1>1, <1>2, PredecessorKey
<1> QED BY <1>1, <1>2, <1>3 DEF RelocType

\* A target has at most one relocation.
LEMMA ClassifiedUnique ==
  ASSUME IsInput(input), NEW t \in Nat, NEW q \in Classified(t), NEW r \in Classified(t)
  PROVE  q = r
<1>1. PICK kind \in Kinds, keys \in SUBSET Nat, bases \in SUBSET Nat :
        /\ bases \subseteq Predecessor(keys, t)
        /\ Classified(t) = As(kind, bases, t)
  BY ClassifiedShape DEF OneLookup, Predecessor
<1>2. PICK b \in bases : q = [kind |-> kind, base |-> b, target |-> t]
  BY <1>1 DEF As
<1>3. PICK c \in bases : r = [kind |-> kind, base |-> c, target |-> t]
  BY <1>1 DEF As
<1>4. b = c
  BY <1>1, <1>2, <1>3, PredecessorUnique
<1> QED BY <1>2, <1>3, <1>4

\* A target has a relocation only in one of the three sections.
LEMMA ClassifiedWithin ==
  ASSUME NEW t, Classified(t) # {}
  PROVE  In(Text, t) \/ DataTarget(t)
BY DEF Classified, DataTarget

\* The address of a readable site, and its distance from the image base.
LEMMA TargetType ==
  ASSUME IsInput(input), NEW s \in Nat, Readable(s)
  PROVE  /\ Linked(s) \in 0 .. AddressSpace - 1
         /\ TargetRva(s) \in Nat
         /\ In(Text, TargetRva(s)) \/ DataTarget(TargetRva(s))
              => Linked(s) = ImageBase + TargetRva(s)
<1>1. ImageSize \in Nat /\ input.exe \in [0 .. ImageSize - 1 -> Byte]
  BY ConstantsAssumption DEF IsInput, Rva
<1>2. Linked(s) \in 0 .. AddressSpace - 1
  BY <1>1, FieldType DEF Linked, Readable
<1>3. TargetVa(s) = Linked(s)
  BY DEF TargetVa, Linked
<1>4. AddressSpace \in Nat \ {0} /\ ImageBase \in 0 .. AddressSpace
  BY AddressSpaceType, ConstantsAssumption
<1> DEFINE v == Linked(s) + (AddressSpace - ImageBase)
<1> HIDE DEF v
<1>5. v \in Nat /\ v = Linked(s) + (AddressSpace - ImageBase)
  BY <1>2, <1>4 DEF v
<1>6. TargetRva(s) = v % AddressSpace
  BY <1>3 DEF TargetRva, v
<1>7. TargetRva(s) \in 0 .. AddressSpace - 1
  BY <1>4, <1>5, <1>6, DivMod
<1>8. TargetRva(s) = v \/ TargetRva(s) = v - AddressSpace
  <2>1. CASE v < AddressSpace
    BY <2>1, <1>4, <1>5, <1>6, ModSmall
  <2>2. CASE v >= AddressSpace
    BY <2>2, <1>2, <1>4, <1>5, <1>6
  <2> QED BY <2>1, <2>2, <1>4, <1>5
<1>9. \A section \in {Text, Rdata, Data} :
        In(section, TargetRva(s)) => ImageBase + TargetRva(s) < AddressSpace
  <2> TAKE section \in {Text, Rdata, Data}
  <2>1. section \in SectionType
    BY ConstantsAssumption
  <2> QED BY <2>1, <1>4, <1>7 DEF In, SectionType
<1>10. In(Text, TargetRva(s)) \/ DataTarget(TargetRva(s))
         => ImageBase + TargetRva(s) < AddressSpace
  BY <1>9 DEF DataTarget
<1> QED BY <1>2, <1>4, <1>5, <1>7, <1>8, <1>10
-----------------------------------------------------------------------------
(* Type correctness, and the one effect a step can have.                   *)

\* `resolve_absolute_site` relocates its site or leaves both structures alone.
LEMMA ResolveEffect ==
  ASSUME NEW site \in Nat, ResolveAbsoluteSite(site), input' = input
  PROVE  /\ Relocates(site) \/ UNCHANGED <<input, coff_data, relocs_rva>>
         /\ phase' = phase \/ phase' \in Failures
<1>1. CASE Fail("panic") \/ Fail("uncovered data")
  BY <1>1 DEF Fail, Failures
<1>2. CASE ~Faults(site) /\ Relocate(site)
  BY <1>2 DEF Relocate, Relocates, Faults
<1>3. CASE LeaveAlone(site)
  BY <1>3 DEF LeaveAlone
<1> QED BY <1>1, <1>2, <1>3 DEF ResolveAbsoluteSite

\* The site of a directory entry is a natural number: the sum of its page and
\* offset, wrapped as a u32.
LEMMA EntrySiteType ==
  ASSUME NEW e \in EntryType, page \in Nat
  PROVE  EntrySite(e) \in Nat
<1>1. AddressSpace \in Nat \ {0}
  BY AddressSpaceType
<1>2. page + e.offset \in Nat
  BY DEF EntryType
<1> QED BY <1>1, <1>2, DivMod DEF EntrySite

\* A step of the stage relocates one site or leaves both structures alone.
LEMMA Effect ==
  ASSUME TypeOK, [Next]_vars
  PROVE  \/ UNCHANGED <<input, coff_data, relocs_rva>>
         \/ \E site \in Nat : Relocates(site)
<1>1. CASE ResolveEntry
  <2>1. Head(entries) \in EntryType /\ page \in Nat
    BY <1>1 DEF ResolveEntry, TypeOK
  <2>2. EntrySite(Head(entries)) \in Nat
    BY <2>1, EntrySiteType
  <2>3. CASE Fail("panic")
    BY <2>3, <1>1 DEF ResolveEntry, Fail
  <2>4. CASE ResolveAbsoluteSite(EntrySite(Head(entries)))
    BY <2>2, <2>4, <1>1, ResolveEffect DEF ResolveEntry
  <2> QED BY <1>1, <2>3, <2>4 DEF ResolveEntry
<1>2. CASE ResolveRow
  <2>1. Head(sites) \in Nat
    <3>1. sites \in Seq(Nat) /\ sites # <<>>
      BY <1>2 DEF ResolveRow, TypeOK
    <3> QED BY <3>1
  <2>2. CASE Fail(RowRefusal(Head(sites)))
    BY <2>2, <1>2 DEF ResolveRow, Fail
  <2>3. CASE ResolveAbsoluteSite(Head(sites))
    BY <2>1, <2>3, <1>2, ResolveEffect DEF ResolveRow
  <2> QED BY <1>2, <2>2, <2>3 DEF ResolveRow
<1>3. CASE Rediscover
  <2>1. scan.site \in Nat
    BY DEF TypeOK
  <2> QED BY <2>1, <1>3, ResolveEffect DEF Rediscover
<1>4. CASE \/ UseDirectory \/ UseManifest \/ UseScanOnly \/ RejectSources
           \/ OpenBlock \/ SkipEntry \/ FinishDirectory \/ FinishManifest
           \/ ScanPast \/ NextSection \/ FinishScan \/ Stop \/ UNCHANGED vars
  BY <1>4 DEF UseDirectory, UseManifest, UseScanOnly, RejectSources, OpenBlock,
    SkipEntry, FinishDirectory, FinishManifest, ScanPast, NextSection, FinishScan,
    Stop, vars
<1> QED BY <1>1, <1>2, <1>3, <1>4 DEF Next

\* What relocating a site does to the types.
LEMMA RelocatesType ==
  ASSUME TypeOK, NEW site \in Nat, Relocates(site)
  PROVE  /\ coff_data' \in [Rva -> Byte]
         /\ DOMAIN relocs_rva' = DOMAIN relocs_rva \cup {site}
         /\ relocs_rva' \in [DOMAIN relocs_rva' -> RelocType]
<1> DEFINE t == TargetRva(site)
<1>1. IsInput(input) /\ Readable(site)
  BY DEF TypeOK, Relocates
<1>2. PICK r \in Classified(t) :
        /\ coff_data' = Patch(coff_data, site, r.target - r.base)
        /\ relocs_rva' = Insert(relocs_rva, site, r)
  BY DEF Relocates
<1>3. t \in Nat /\ Linked(site) = ImageBase + t /\ Linked(site) \in 0 .. AddressSpace - 1
  BY <1>1, <1>2, TargetType, ClassifiedWithin
<1>4. r \in RelocType /\ r.target = t /\ r.base <= t
  BY <1>1, <1>2, <1>3, ClassifiedFacts
<1>5. r.target - r.base \in 0 .. AddressSpace - 1
  <2> HIDE DEF t
  <2> QED BY <1>3, <1>4, AddressSpaceType, ConstantsAssumption DEF RelocType
<1>6. coff_data' \in [Rva -> Byte]
  BY <1>1, <1>2, <1>5, PatchEffect, ConstantsAssumption DEF TypeOK, Rva, Readable
<1>7. DOMAIN relocs_rva' = DOMAIN relocs_rva \cup {site}
  BY <1>2 DEF Insert
<1>8. relocs_rva' \in [DOMAIN relocs_rva' -> RelocType]
  BY <1>2, <1>4, <1>7 DEF Insert, TypeOK
<1> QED BY <1>6, <1>7, <1>8

\* The scan's next position is a position.
LEMMA AdvanceType ==
  ASSUME scan \in [section : 1 .. 3, site : Nat], Advance
  PROVE  scan' \in [section : 1 .. 3, site : Nat]
BY DEF Advance

\* The sections the scan walks lie at natural addresses.
LEMMA ScannedType ==
  ASSUME NEW n \in 1 .. 3
  PROVE  Scanned[n].rva \in Nat
<1>1. Text.rva \in Nat /\ Rdata.rva \in Nat /\ Data.rva \in Nat
  BY ConstantsAssumption, AddressSpaceType DEF SectionType
<1>2. n = 1 \/ n = 2 \/ n = 3
  OBVIOUS
<1> QED BY <1>1, <1>2 DEF Scanned

\* The loops' own state keeps its type.
LEMMA LoopsType ==
  ASSUME TypeOK, Next
  PROVE  /\ input' = input
         /\ phase' \in Phases
         /\ blocks' \in Seq(BlockType) /\ page' \in Nat
         /\ entries' \in Seq(EntryType)
         /\ sites' \in Seq(Nat)
         /\ scan' \in [section : 1 .. 3, site : Nat]
<1> USE DEF TypeOK
<1>1. CASE UseDirectory
  BY <1>1 DEF UseDirectory, Phases, IsInput
<1>2. CASE UseManifest
  BY <1>2 DEF UseManifest, Phases, IsInput
<1>3. CASE UseScanOnly \/ RejectSources \/ FinishDirectory \/ FinishManifest
           \/ FinishScan \/ Stop
  BY <1>3 DEF UseScanOnly, RejectSources, FinishDirectory, FinishManifest,
    FinishScan, Stop, vars, Phases, Failures
<1>4. CASE OpenBlock
  <2>1. Head(blocks) \in BlockType /\ Tail(blocks) \in Seq(BlockType)
    <3>1. blocks \in Seq(BlockType) /\ blocks # <<>>
      BY <1>4 DEF OpenBlock
    <3> QED BY <3>1
  <2>2. Head(blocks).page \in Nat /\ Head(blocks).entries \in Seq(EntryType)
        /\ Head(blocks).shape \in {"whole", "stop", "torn"}
    BY <2>1 DEF BlockType
  <2>3. <<>> \in Seq(EntryType)
    OBVIOUS
  <2>4. phase' \in Phases
    BY <1>4, <2>2 DEF OpenBlock, Phases, Failures
  <2> QED BY <1>4, <2>1, <2>2, <2>3, <2>4 DEF OpenBlock
<1>5. CASE SkipEntry
  <2>1. Tail(entries) \in Seq(EntryType)
    BY <1>5 DEF SkipEntry
  <2> QED BY <1>5, <2>1 DEF SkipEntry
<1>6. CASE ResolveEntry
  <2>1. Tail(entries) \in Seq(EntryType)
    BY <1>6 DEF ResolveEntry
  <2>2. Head(entries) \in EntryType
    BY <1>6 DEF ResolveEntry
  <2>3. phase' \in Phases
    BY <1>6, <2>2, EntrySiteType, ResolveEffect DEF ResolveEntry, Fail, Phases, Failures
  <2> QED BY <1>6, <2>1, <2>3 DEF ResolveEntry
<1>7. CASE ResolveRow
  <2>1. sites \in Seq(Nat) /\ sites # <<>>
    BY <1>7 DEF ResolveRow
  <2>2. Head(sites) \in Nat /\ Tail(sites) \in Seq(Nat)
    BY <2>1
  <2>3. phase' \in Phases
    BY <1>7, <2>2, ResolveEffect DEF ResolveRow, RowRefusal, Fail, Phases, Failures
  <2> QED BY <1>7, <2>2, <2>3 DEF ResolveRow
<1>8. CASE ScanPast
  BY <1>8, AdvanceType DEF ScanPast
<1>9. CASE Rediscover
  <2>1. phase' \in Phases
    BY <1>9, ResolveEffect DEF Rediscover, Phases
  <2>2. scan' \in [section : 1 .. 3, site : Nat]
    BY <1>9, AdvanceType DEF Rediscover
  <2> QED BY <1>9, <2>1, <2>2 DEF Rediscover
<1>10. CASE NextSection
  <2>1. scan.section + 1 \in {2, 3}
    BY <1>10 DEF NextSection
  <2>2. Scanned[scan.section + 1].rva \in Nat
    BY <2>1, ScannedType
  <2> QED BY <1>10, <2>1, <2>2 DEF NextSection
<1> QED
  BY <1>1, <1>2, <1>3, <1>4, <1>5, <1>6, <1>7, <1>8, <1>9, <1>10 DEF Next

\* The stage starts with what it was given.
Begins ==
  /\ IsInput(input)
  /\ coff_data = input.exe /\ relocs_rva = EmptyMap
  /\ phase = "select"
  /\ blocks = <<>> /\ page = 0 /\ entries = <<>> /\ sites = <<>>
  /\ scan = [section |-> 1, site |-> Text.rva]

\* Every run starts so.
LEMMA InitBegins == Init => Begins
BY ConstantsAssumption DEF Init, Begins

\* The type invariant holds when the stage starts.
LEMMA InitType == Begins => TypeOK
<1> SUFFICES ASSUME Begins PROVE TypeOK
  OBVIOUS
<1>1. IsInput(input) /\ coff_data \in [Rva -> Byte]
  BY DEF Begins, IsInput
<1>2. DOMAIN relocs_rva = {} /\ relocs_rva \in [DOMAIN relocs_rva -> RelocType]
  BY DEF Begins, EmptyMap
<1>3. scan \in [section : 1 .. 3, site : Nat]
  BY ConstantsAssumption DEF Begins, SectionType
<1> QED BY <1>1, <1>2, <1>3 DEF Begins, TypeOK, Phases

\* Every step of the three loops keeps the type invariant.
LEMMA NextType ==
  ASSUME TypeOK, [Next]_vars
  PROVE  TypeOK'
<1>1. CASE UNCHANGED vars
  BY <1>1 DEF TypeOK, vars, IsInput
<1>2. CASE Next
  <2>1. /\ input' = input
        /\ phase' \in Phases
        /\ blocks' \in Seq(BlockType) /\ page' \in Nat
        /\ entries' \in Seq(EntryType)
        /\ sites' \in Seq(Nat)
        /\ scan' \in [section : 1 .. 3, site : Nat]
    BY <1>2, LoopsType
  <2>2. IsInput(input')
    BY <2>1 DEF TypeOK
  <2>3. /\ coff_data' \in [Rva -> Byte]
        /\ DOMAIN relocs_rva' \subseteq {s \in Nat : Readable(s)}
        /\ relocs_rva' \in [DOMAIN relocs_rva' -> RelocType]
    <3>1. CASE UNCHANGED <<input, coff_data, relocs_rva>>
      BY <3>1 DEF TypeOK
    <3>2. ASSUME NEW site \in Nat, Relocates(site) PROVE <2>3!:
      BY <3>2, RelocatesType DEF Relocates, TypeOK
    <3> QED BY <3>1, <3>2, <1>2, Effect
  <2> QED BY <2>1, <2>2, <2>3 DEF TypeOK
<1> QED BY <1>1, <1>2

\* The type invariant holds of every run of the stage.
THEOREM TypeCorrect == Spec => []TypeOK
<1>1. Init => TypeOK
  BY InitBegins, InitType
<1>2. TypeOK /\ [Next]_vars => TypeOK'
  BY NextType
<1> QED BY <1>1, <1>2, PTL DEF Spec
-----------------------------------------------------------------------------
(* What the recorded relocations say.                                      *)

\* No relocation is recorded when the stage starts.
LEMMA InitRecorded == Begins => Recorded
BY DEF Begins, Recorded, EmptyMap

\* A step records what it classifies, and the linked image it classifies from
\* never changes.
LEMMA NextRecorded ==
  ASSUME IInv, [Next]_vars
  PROVE  Recorded'
<1>1. CASE UNCHANGED <<input, coff_data, relocs_rva>>
  BY <1>1 DEF IInv, Recorded, Classified, TargetRva, TargetVa, OrConjured, Reviewed,
    ConjuredRdata, ConjuredStatic
<1>2. ASSUME NEW site \in Nat, Relocates(site) PROVE Recorded'
  <2>1. \A s : Classified(TargetRva(s))' = Classified(TargetRva(s))
    BY <1>2 DEF Relocates, Classified, TargetRva, TargetVa, OrConjured, Reviewed,
      ConjuredRdata, ConjuredStatic
  <2>2. \A s \in DOMAIN relocs_rva' : relocs_rva'[s] \in Classified(TargetRva(s))
    BY <1>2 DEF Relocates, Insert, IInv, Recorded
  <2> QED BY <2>1, <2>2 DEF Recorded
<1> QED BY <1>1, <1>2, Effect DEF IInv

\* The inductive invariant: types, and the provenance of every relocation.
THEOREM Inductive == Spec => []IInv
<1>1. Init => IInv
  BY InitBegins, InitType, InitRecorded DEF IInv
<1>2. IInv /\ [Next]_vars => IInv'
  BY NextType, NextRecorded DEF IInv
<1> QED BY <1>1, <1>2, PTL DEF Spec

\* What a recorded relocation is, in the terms of the linked image.
LEMMA RecordedFacts ==
  ASSUME IInv, NEW s \in DOMAIN relocs_rva
  PROVE  /\ s \in Nat /\ Readable(s)
         /\ TargetRva(s) \in Nat
         /\ relocs_rva[s] \in Classified(TargetRva(s))
         /\ relocs_rva[s] \in RelocType
         /\ relocs_rva[s].target = TargetRva(s)
         /\ relocs_rva[s].base <= relocs_rva[s].target
         /\ Linked(s) = ImageBase + relocs_rva[s].target
         /\ Linked(s) \in 0 .. AddressSpace - 1
         /\ In(Text, relocs_rva[s].target) <=> relocs_rva[s].kind = "Function"
<1>1. IsInput(input) /\ s \in Nat /\ Readable(s)
  BY DEF IInv, TypeOK
<1>2. relocs_rva[s] \in Classified(TargetRva(s))
  BY DEF IInv, Recorded
<1>3. TargetRva(s) \in Nat
  BY <1>1, TargetType
<1>4. Linked(s) = ImageBase + TargetRva(s) /\ Linked(s) \in 0 .. AddressSpace - 1
  BY <1>1, <1>2, TargetType, ClassifiedWithin
<1> QED BY <1>1, <1>2, <1>3, <1>4, ClassifiedFacts

\* Every relocation stands for the address the linker wrote at its site,
\* whatever has been written over it since.
THEOREM ClassifiedFromLinkedImageHolds == Spec => []ClassifiedFromLinkedImage
<1>1. IInv => ClassifiedFromLinkedImage
  BY RecordedFacts DEF ClassifiedFromLinkedImage
<1> QED BY <1>1, Inductive, PTL

\* What classification finds for data a definition covers is that definition.
LEMMA RecordedReviewed == IInv => ReviewedExactly
<1>1. ASSUME IInv, NEW s \in DOMAIN relocs_rva, DataTarget(relocs_rva[s].target)
      PROVE  LET r == relocs_rva[s]
             IN  /\ r.kind = "ReviewedData" <=>
                      \E d \in input.definitions : Covers(d, r.target)
                 /\ r.kind = "ReviewedData" =>
                      \E d \in input.definitions : d.rva = r.base /\ Covers(d, r.target)
  <2> DEFINE r == relocs_rva[s]
             t == r.target
             covering == {d \in input.definitions : Covers(d, t)}
  <2>1. t \in Nat /\ r \in Classified(t)
    BY <1>1, RecordedFacts
  <2>2. Owner(input.definitions, t) = covering
    BY <1>1, <2>1, OwnerCovers DEF IInv, TypeOK
  <2>3. ~In(Text, t)
    BY <1>1, <2>1, AddressSpaceType, ConstantsAssumption
      DEF DataTarget, In, Disjoint, SectionType
  <2>4. \E conjured \in {ConjuredRdata(t), ConjuredStatic(t)} :
          r \in OrConjured(Reviewed(t), conjured)
    BY <1>1, <2>1, <2>3 DEF Classified, DataTarget
  <2>5. CASE covering = {}
    <3>1. Reviewed(t) = {}
      BY <2>2, <2>5 DEF Reviewed, As
    <3>2. \E conjured \in {ConjuredRdata(t), ConjuredStatic(t)} : r \in conjured
      BY <2>4, <3>1 DEF OrConjured, OrElse
    <3>3. r.kind # "ReviewedData"
      BY <3>2 DEF ConjuredRdata, ConjuredStatic, OrElse, As
    <3> QED BY <2>5, <3>3
  <2>6. CASE covering # {}
    <3>1. Reviewed(t) = As("ReviewedData", {d.rva : d \in covering}, t)
      BY <2>2 DEF Reviewed
    <3>2. Reviewed(t) # {}
      BY <2>6, <3>1 DEF As
    <3>3. r \in As("ReviewedData", {d.rva : d \in covering}, t)
      BY <2>4, <3>1, <3>2 DEF OrConjured, OrElse
    <3>4. r.kind = "ReviewedData" /\ r.base \in {d.rva : d \in covering}
      BY <3>3 DEF As
    <3> QED BY <2>6, <3>4
  <2> QED BY <2>5, <2>6
<1> QED BY <1>1 DEF ReviewedExactly

\* The definition a data target is relocated against is the one that covers
\* it; without one it is relocated against no definition.
THEOREM ReviewedExactlyHolds == Spec => []ReviewedExactly
BY RecordedReviewed, Inductive, PTL

\* The symbol of a relocation is of the table its kind says, and --strict
\* leaves two kinds.
LEMMA RecordedBase ==
  ASSUME IInv, NEW s \in DOMAIN relocs_rva
  PROVE  LET r == relocs_rva[s]
         IN  /\ r.kind \in Kinds
             /\ r.kind = "Function" => r.base \in input.functions
             /\ r.kind = "ReviewedData" => \E d \in input.definitions : d.rva = r.base
             /\ r.kind = "ConjuredString" => r.base \in DOMAIN input.strings
             /\ r.kind = "ConjuredConstant" => r.base \in input.constants
             /\ r.kind = "ConjuredStatic" => r.base \in input.statics
             /\ input.strict => r.kind \in {"Function", "ReviewedData"}
<1> DEFINE t == relocs_rva[s].target
<1>1. PICK r : r = relocs_rva[s]
  OBVIOUS
<1>2. r \in Classified(t) /\ r.kind \in Kinds
  BY <1>1, RecordedFacts DEF RelocType
<1>3. \A keys : Predecessor(keys, t) \subseteq keys
  BY DEF Predecessor
<1>4. CASE r \in As("Function", Predecessor(input.functions, t), t)
  BY <1>1, <1>2, <1>3, <1>4 DEF As
<1>5. CASE r \in Reviewed(t)
  <2>1. r.kind = "ReviewedData" /\ r.base \in {d.rva : d \in Owner(input.definitions, t)}
    BY <1>5 DEF Reviewed, As
  <2> QED BY <1>1, <2>1 DEF Owner, Kinds
<1>6. CASE ~input.strict /\ r \in ConjuredRdata(t)
  <2>1. \/ r.kind = "ConjuredString" /\ r.base \in DOMAIN input.strings
        \/ r.kind = "ConjuredConstant" /\ r.base \in input.constants
    BY <1>3, <1>6 DEF ConjuredRdata, OrElse, As
  <2> QED BY <1>1, <1>2, <1>6, <2>1
<1>7. CASE ~input.strict /\ r \in ConjuredStatic(t)
  <2>1. r.kind = "ConjuredStatic" /\ r.base \in input.statics
    BY <1>3, <1>7 DEF ConjuredStatic, As
  <2> QED BY <1>1, <1>2, <1>7, <2>1
<1> QED BY <1>2, <1>4, <1>5, <1>6, <1>7 DEF Classified, OrConjured, OrElse

\* Recording a site again records the same relocation.
THEOREM RecordsStandHolds == Spec => RecordsStand
<1> DEFINE Stand == \A s \in DOMAIN relocs_rva :
                      s \in DOMAIN relocs_rva' /\ relocs_rva'[s] = relocs_rva[s]
<1>1. ASSUME IInv, [Next]_vars PROVE Stand
  <2>1. CASE UNCHANGED <<input, coff_data, relocs_rva>>
    BY <2>1
  <2>2. ASSUME NEW site \in Nat, Relocates(site) PROVE Stand
    <3>1. PICK r \in Classified(TargetRva(site)) :
            relocs_rva' = Insert(relocs_rva, site, r)
      BY <2>2 DEF Relocates
    <3>2. ASSUME NEW s \in DOMAIN relocs_rva, s = site PROVE relocs_rva[s] = r
      BY <1>1, <3>1, <3>2, RecordedFacts, ClassifiedUnique DEF IInv, TypeOK
    <3> QED BY <3>1, <3>2 DEF Insert
  <2> QED BY <1>1, <2>1, <2>2, Effect DEF IInv
<1>2. IInv /\ [Next]_vars => [Stand]_vars
  BY <1>1
<1> QED BY <1>2, Inductive, PTL DEF Spec, RecordsStand
-----------------------------------------------------------------------------
(* What the rewritten image says.                                          *)

\* Outside the fields of recorded sites the image is the linked one.
THEOREM OnlyFieldsRewrittenHolds == Spec => []OnlyFieldsRewritten
<1>1. Init => OnlyFieldsRewritten
  BY DEF Init, OnlyFieldsRewritten
<1>2. ASSUME IInv, OnlyFieldsRewritten, [Next]_vars PROVE OnlyFieldsRewritten'
  <2>1. CASE UNCHANGED <<input, coff_data, relocs_rva>>
    BY <1>2, <2>1 DEF OnlyFieldsRewritten
  <2>2. ASSUME NEW site \in Nat, Relocates(site) PROVE OnlyFieldsRewritten'
    <3>1. input' = input
      BY <2>2 DEF Relocates
    <3>2. DOMAIN relocs_rva' = DOMAIN relocs_rva \cup {site}
      BY <1>2, <2>2, RelocatesType DEF IInv
    <3>3. PICK v : coff_data' = Patch(coff_data, site, v)
      BY <2>2 DEF Relocates
    <3>4. \A rva \in Rva \ FieldAt(site) : coff_data'[rva] = coff_data[rva]
      BY <1>2, <3>3 DEF Patch, IInv, TypeOK
    <3> QED BY <1>2, <3>1, <3>2, <3>4 DEF OnlyFieldsRewritten
  <2> QED BY <1>2, <2>1, <2>2, Effect DEF IInv
<1>3. IInv /\ OnlyFieldsRewritten /\ [Next]_vars => OnlyFieldsRewritten'
  BY <1>2
<1> QED BY <1>1, <1>3, Inductive, PTL DEF Spec

\* Nothing is recorded at the start.
LEMMA BeginsRelinks == Begins => AddendsRelink
BY DEF Begins, AddendsRelink, EmptyMap

\* A write leaves its own field an addend that relinks, and no field it does
\* not overlap otherwise.
LEMMA NextRelinks == IInv /\ AddendsRelink /\ [Next]_vars => AddendsRelink'
<1>1. ASSUME IInv, AddendsRelink, [Next]_vars PROVE AddendsRelink'
  <2>1. CASE UNCHANGED <<input, coff_data, relocs_rva>>
    BY <1>1, <2>1 DEF AddendsRelink, Linked
  <2>2. ASSUME NEW site \in Nat, Relocates(site) PROVE AddendsRelink'
    <3>0. PICK r \in Classified(TargetRva(site)) :
            /\ coff_data' = Patch(coff_data, site, r.target - r.base)
            /\ relocs_rva' = Insert(relocs_rva, site, r)
      BY <2>2 DEF Relocates
    <3>1. IInv' /\ input' = input /\ Readable(site)
      BY <1>1, <2>2, NextType, NextRecorded DEF Relocates, IInv
    <3>2. DOMAIN relocs_rva' = DOMAIN relocs_rva \cup {site} /\ relocs_rva'[site] = r
          /\ \A s \in DOMAIN relocs_rva \ {site} : relocs_rva'[s] = relocs_rva[s]
      BY <3>0 DEF Insert
    <3>3. \A s : Linked(s)' = Linked(s)
      BY <3>1 DEF Linked
    <3>4. r \in RelocType /\ r.base <= r.target
          /\ Linked(site) = ImageBase + r.target /\ Linked(site) \in 0 .. AddressSpace - 1
      <4>1. IsInput(input) /\ TargetRva(site) \in Nat
        BY <1>1, <3>1, TargetType DEF IInv, TypeOK
      <4> QED BY <3>0, <3>1, <4>1, TargetType, ClassifiedFacts, ClassifiedWithin
    <3>5. r.target - r.base \in 0 .. AddressSpace - 1
      BY <3>4, AddressSpaceType, ConstantsAssumption DEF RelocType
    <3>6. ImageSize \in Nat /\ coff_data \in [0 .. ImageSize - 1 -> Byte]
      BY <1>1, ConstantsAssumption DEF IInv, TypeOK, Rva
    <3>7. SUFFICES ASSUME NEW s \in DOMAIN relocs_rva',
                          \A o \in DOMAIN relocs_rva' \ {s} : FieldAt(o) \cap FieldAt(s) = {}
                   PROVE  ImageBase + relocs_rva'[s].base + FromBytes(Field(coff_data', s))
                            = Linked(s)
      BY <3>3 DEF AddendsRelink
    <3>8. CASE s = site
      <4>1. FromBytes(Field(coff_data', s)) = r.target - r.base
        BY <3>0, <3>1, <3>5, <3>6, <3>8, PatchEffect DEF Readable
      <4> QED BY <3>2, <3>4, <3>8, <4>1, ConstantsAssumption DEF RelocType
    <3>9. CASE s # site
      <4>1. s \in DOMAIN relocs_rva /\ s \in Nat /\ Readable(s)
            /\ FieldAt(site) \cap FieldAt(s) = {}
        BY <1>1, <3>2, <3>7, <3>9 DEF IInv, TypeOK
      <4>2. Field(coff_data', s) = Field(coff_data, s)
        BY <3>0, <3>1, <3>5, <3>6, <4>1, PatchApart DEF Readable
      <4>3. ImageBase + relocs_rva[s].base + FromBytes(Field(coff_data, s)) = Linked(s)
        BY <1>1, <3>2, <3>7, <4>1 DEF AddendsRelink
      <4> QED BY <3>2, <3>9, <4>1, <4>2, <4>3
    <3> QED BY <3>8, <3>9
  <2> QED BY <1>1, <2>1, <2>2, Effect DEF IInv
<1> QED BY <1>1

\* A recorded field no other recorded field overlaps relinks to the address
\* the linker wrote there.
THEOREM AddendsRelinkHolds == Spec => []AddendsRelink
<1>1. Init => AddendsRelink
  BY InitBegins, BeginsRelinks
<1> QED BY <1>1, NextRelinks, Inductive, PTL DEF Spec
=============================================================================
