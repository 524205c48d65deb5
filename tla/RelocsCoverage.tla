--------------------------- MODULE RelocsCoverage ---------------------------
(***************************************************************************)
(* That the relocation stage resolves the sites it is given, all of them   *)
(* and no other, and stops only for a cause: for every image, directory,   *)
(* manifest and PDB.                                                       *)
(*                                                                         *)
(* The argument.  The sites an input lists are defined by its files, with  *)
(* no reference to the loops.  Each loop splits them in two: the sites it  *)
(* has yet to come to, read off its position, and the rest, which are      *)
(* settled -- recorded, or looked at and found to need no record.  A       *)
(* settled site stays settled; a step moves one site across; and when a    *)
(* loop ends it has none to come to.                                       *)
(***************************************************************************)
EXTENDS RelocsProofs, OrderProofs

\* A site that is looked at and needs no record.
LeftAlone(s) ==
  /\ Readable(s) /\ ~Faults(s)
  /\ Classified(TargetRva(s)) = {}
  /\ ~Unnamed(TargetRva(s)) /\ ~Uncovered(TargetRva(s))

Settled(s) == s \in DOMAIN relocs_rva \/ LeftAlone(s)

\* The sites of the entries of a page, and of the blocks of a directory.
EntrySites(p, list) ==
  {(p + list[e].offset) % AddressSpace : e \in {x \in DOMAIN list : list[x].highlow}}

BlockSites(b) ==
  UNION {EntrySites(b[n].page, b[n].entries) :
           n \in {m \in DOMAIN b : \A k \in 1 .. m : b[k].shape = "whole"}}

\* What the walk of the directory has yet to come to.
DirectoryLeft == EntrySites(page, entries) \cup BlockSites(blocks)

\* The blocks and entries left are of the directory, and its sites are settled
\* or left.
Walking ==
  phase = "directory" =>
    /\ ~Recovery
    /\ \E d \in input.reloc :
         /\ \A n \in DOMAIN blocks : \E m \in DOMAIN d : blocks[n] = d[m]
         /\ entries # <<>> =>
              \E m \in DOMAIN d :
                /\ page = d[m].page
                /\ \A e \in DOMAIN entries :
                     \E x \in DOMAIN d[m].entries : entries[e] = d[m].entries[x]
         /\ DirectoryLeft \subseteq BlockSites(d)
         /\ \A s \in BlockSites(d) : Settled(s) \/ s \in DirectoryLeft

\* The rows left are of the manifest, and its sites are settled or left.
Reading ==
  phase = "manifest" =>
    /\ input.reloc = {}
    /\ \A n \in DOMAIN sites : sites[n] \in ManifestSites
    /\ \A s \in ManifestSites : Settled(s) \/ \E n \in DOMAIN sites : sites[n] = s

\* The fields the scan has yet to come to.
Ahead(s) ==
  \E k \in scan.section .. 3 :
    /\ Scanned[k].rva <= s /\ s + 4 <= Scanned[k].rva + Scanned[k].size
    /\ k = scan.section => scan.site <= s

\* The scan comes after the manifest, and its fields are settled or ahead.
Scanning ==
  phase = "scan" =>
    /\ input.reloc = {} /\ input.rediscover
    /\ Scanned[scan.section].rva <= scan.site
    /\ \A s \in ManifestSites : Settled(s)
    /\ \A s \in ScanSites : Settled(s) \/ Ahead(s)

\* No loop has begun.
Starting ==
  /\ phase = "select" => entries = <<>>
  /\ phase \in {"select", "manifest"} => scan = [section |-> 1, site |-> Text.rva]

\* Nothing is recorded that is not listed, and in the end all is settled.
OnlyListed == DOMAIN relocs_rva \subseteq ListedSites
AllSettled == phase = "resolved" => \A s \in ListedSites : Settled(s)

Loops == Starting /\ Walking /\ Reading /\ Scanning

\* The inductive invariant is this, with that of RelocsProofs.
Rest == OnlyListed /\ Loops /\ AllSettled /\ StopsForCause

Coverage == IInv /\ Rest
-----------------------------------------------------------------------------
(* What a site is does not change; a settled site stays settled.           *)

\* The sites an input lists are a matter of the input.
LEMMA ListedConstant ==
  ASSUME input' = input
  PROVE  /\ DirectorySites' = DirectorySites /\ ManifestSites' = ManifestSites
         /\ ScanSites' = ScanSites /\ ListedSites' = ListedSites
         /\ Recovery' = Recovery
<1>1. DirectorySites' = DirectorySites /\ ManifestSites' = ManifestSites
  BY DEF DirectorySites, ManifestSites
<1>2. ScanSites' = ScanSites
  BY DEF ScanSites, Starts, Linked
<1> QED BY <1>1, <1>2 DEF ListedSites, Recovery

\* So is what there is to say of a site.
LEMMA SiteConstant ==
  ASSUME input' = input
  PROVE  /\ \A s : Linked(s)' = Linked(s)
         /\ \A s : TargetRva(s)' = TargetRva(s)
         /\ \A t : Classified(t)' = Classified(t)
         /\ \A s : LeftAlone(s)' <=> LeftAlone(s)
<1>1. \A s : TargetVa(s)' = TargetVa(s) /\ TargetRva(s)' = TargetRva(s) /\ Linked(s)' = Linked(s)
  BY DEF TargetVa, TargetRva, Linked
<1>2. \A t : Classified(t)' = Classified(t)
  BY DEF Classified, OrConjured, Reviewed, ConjuredRdata, ConjuredStatic
<1>3. \A s : LeftAlone(s)' <=> LeftAlone(s)
  BY DEF LeftAlone, Faults, Unnamed, Uncovered, TargetVa, TargetRva, Classified, OrConjured,
    Reviewed, ConjuredRdata, ConjuredStatic
<1> QED BY <1>1, <1>2, <1>3

\* No step makes a settled site unsettled.
LEMMA StaysSettled ==
  ASSUME input' = input, DOMAIN relocs_rva \subseteq DOMAIN relocs_rva'
  PROVE  \A s : Settled(s) => Settled(s)'
BY SiteConstant DEF Settled

\* What a site can stop a run for.
Cause(s, reason) ==
  \/ reason = "panic" /\ (Faults(s) \/ (Readable(s) /\ Unnamed(TargetRva(s))))
  \/ reason = "uncovered data" /\ Readable(s) /\ Uncovered(TargetRva(s))

\* `resolve_absolute_site` settles its site, and records no other, or stops
\* the run for a cause.
LEMMA ResolveSettles ==
  ASSUME TypeOK, NEW s \in Nat, ResolveAbsoluteSite(s), input' = input
  PROVE  /\ DOMAIN relocs_rva \subseteq DOMAIN relocs_rva'
         /\ DOMAIN relocs_rva' \subseteq DOMAIN relocs_rva \cup {s}
         /\ \/ phase' = phase /\ Settled(s)'
            \/ phase' \in {"panic", "uncovered data"} /\ Cause(s, phase')
<1>1. CASE Faults(s) /\ Fail("panic")
  BY <1>1 DEF Fail, Cause
<1>2. CASE ~Faults(s) /\ Relocate(s)
  <2>1. DOMAIN relocs_rva' = DOMAIN relocs_rva \cup {s} /\ phase' = phase
    BY <1>2 DEF Relocate, Insert
  <2> QED BY <2>1 DEF Settled
<1>3. CASE ~Faults(s) /\ LeaveAlone(s)
  <2>1. LeftAlone(s)
    BY <1>3 DEF LeaveAlone, LeftAlone, Faults
  <2>2. relocs_rva' = relocs_rva /\ phase' = phase
    BY <1>3 DEF LeaveAlone
  <2> QED BY <2>1, <2>2, SiteConstant DEF Settled
<1>4. CASE ~Faults(s) /\ Uncovered(TargetRva(s)) /\ Fail("uncovered data")
  BY <1>4 DEF Fail, Cause, Faults
<1>5. CASE ~Faults(s) /\ Unnamed(TargetRva(s)) /\ Fail("panic")
  BY <1>5 DEF Fail, Cause, Faults
<1> QED BY <1>1, <1>2, <1>3, <1>4, <1>5 DEF ResolveAbsoluteSite
-----------------------------------------------------------------------------
(* What a site says in the terms of the linked image.                      *)

\* The target of a readable site, where it matters, is its distance from the
\* image base: below the base there is no section.
LEMMA TargetIsDistance ==
  ASSUME TypeOK, NEW s \in Nat, Readable(s), NEW section \in {Text, Rdata, Data}
  PROVE  /\ TargetRva(s) \in Nat /\ Linked(s) \in Nat
         /\ In(section, TargetRva(s)) <=> In(section, Linked(s) - ImageBase)
         /\ In(section, TargetRva(s)) => TargetRva(s) = Linked(s) - ImageBase
<1>1. section \in SectionType /\ ImageBase \in Nat /\ AddressSpace \in Nat
  BY ConstantsAssumption, AddressSpaceType
<1>2. section.rva \in Nat /\ section.size \in Nat
        /\ ImageBase + section.rva + section.size <= AddressSpace
  BY <1>1 DEF SectionType
<1>3. Linked(s) \in 0 .. AddressSpace - 1 /\ TargetRva(s) \in Nat
  BY TargetType DEF TypeOK
<1>4. In(section, TargetRva(s)) => TargetRva(s) = Linked(s) - ImageBase
  <2>1. In(section, TargetRva(s)) => In(Text, TargetRva(s)) \/ DataTarget(TargetRva(s))
    BY DEF DataTarget
  <2> QED BY <1>1, <1>3, <2>1, TargetType DEF TypeOK
<1>5. In(section, Linked(s) - ImageBase) => TargetRva(s) = Linked(s) - ImageBase
  <2>1. SUFFICES ASSUME In(section, Linked(s) - ImageBase)
                 PROVE  TargetRva(s) = Linked(s) - ImageBase
    OBVIOUS
  <2> DEFINE t == Linked(s) - ImageBase
  <2>2. t \in Nat /\ t < AddressSpace
    BY <1>1, <1>2, <1>3, <2>1 DEF In
  <2>3. TargetRva(s) = (t + AddressSpace) % AddressSpace
    <3>1. TargetVa(s) = Linked(s)
      BY DEF TargetVa, Linked
    <3>2. Linked(s) + (AddressSpace - ImageBase) = t + AddressSpace
      BY <1>1, <1>3
    <3> QED BY <3>1, <3>2 DEF TargetRva
  <2> HIDE DEF t
  <2>4. (t + AddressSpace) % AddressSpace = t
    BY <2>2, AddressSpaceType
  <2> QED BY <2>3, <2>4 DEF t
<1> QED BY <1>1, <1>3, <1>4, <1>5

\* No address is in two sections.
LEMMA SectionsApart ==
  ASSUME NEW t \in Nat
  PROVE  In(Text, t) => ~DataTarget(t)
BY AddressSpaceType, ConstantsAssumption DEF DataTarget, In, Disjoint, SectionType

\* A set of relocations is empty just when its symbols are.
LEMMA AsEmpty ==
  ASSUME NEW kind, NEW bases, NEW t
  PROVE  As(kind, bases, t) = {} <=> bases = {}
BY DEF As

\* A lookup without an answer has no key at or below the address.
LEMMA NoPredecessor ==
  ASSUME NEW keys \in SUBSET Nat, NEW t \in Nat, Predecessor(keys, t) = {}
  PROVE  \A k \in keys : k > t
<1>1. ASSUME NEW k \in keys, k <= t PROVE FALSE
  BY <1>1, PredecessorExists
<1> QED BY <1>1

\* What is not classified, although no one refuses it, has no name below it.
LEMMA Unclassified ==
  ASSUME TypeOK, NEW t \in Nat, Classified(t) = {}, ~Uncovered(t)
  PROVE  /\ In(Text, t) => \A f \in input.functions : f > t
         /\ ~In(Text, t) /\ In(Rdata, t) => \A c \in input.constants : c > t
         /\ ~In(Text, t) /\ ~In(Rdata, t) /\ In(Data, t) =>
              /\ ~input.strict
              /\ \A d \in input.definitions : ~Covers(d, t)
              /\ \A x \in input.statics : x > t
<1>1. /\ input.functions \in SUBSET Nat /\ input.constants \in SUBSET Nat
      /\ input.statics \in SUBSET Nat /\ IsInput(input)
  BY DEF TypeOK, IsInput
<1>2. In(Text, t) => \A f \in input.functions : f > t
  BY <1>1, AsEmpty, NoPredecessor DEF Classified
<1>3. CASE ~In(Text, t) /\ (In(Rdata, t) \/ In(Data, t))
  <2>1. Reviewed(t) = {} /\ ~input.strict
    <3>1. PICK conjured : Classified(t) = OrConjured(Reviewed(t), conjured)
      BY <1>3 DEF Classified
    <3>2. Reviewed(t) = {}
      BY <3>1 DEF OrConjured, OrElse
    <3>3. {d.rva : d \in Owner(input.definitions, t)} = {}
      BY <3>2, AsEmpty DEF Reviewed
    <3>4. Owner(input.definitions, t) = {}
      BY <3>3
    <3> QED BY <1>3, <3>2, <3>4 DEF Uncovered
  <2>2. \A d \in input.definitions : ~Covers(d, t)
    <3>1. {d.rva : d \in Owner(input.definitions, t)} = {}
      BY <2>1, AsEmpty DEF Reviewed
    <3>2. Owner(input.definitions, t) = {}
      BY <3>1
    <3>3. {d \in input.definitions : Covers(d, t)} = {}
      BY <1>1, <3>2, OwnerCovers
    <3> QED BY <3>3
  <2>3. In(Rdata, t) => ConjuredRdata(t) = {}
    BY <1>3, <2>1 DEF Classified, OrConjured, OrElse
  <2>4. In(Rdata, t) => Predecessor(input.constants, t) = {}
    BY <2>3, AsEmpty DEF ConjuredRdata, OrElse
  <2>5. ~In(Rdata, t) => Predecessor(input.statics, t) = {}
    BY <1>3, <2>1, AsEmpty DEF Classified, OrConjured, OrElse, ConjuredStatic
  <2> QED BY <1>1, <1>3, <2>1, <2>2, <2>4, <2>5, NoPredecessor
<1> QED BY <1>2, <1>3

\* A site that is left alone is one the stage has nothing to say about; and
\* with --strict it does not refer to data.
LEMMA LeftAloneFacts ==
  ASSUME TypeOK, NEW s \in Nat, LeftAlone(s)
  PROVE  /\ Unrelocatable(s)
         /\ input.strict => ~DataTarget(Linked(s) - ImageBase)
<1> DEFINE t == TargetRva(s)
           u == Linked(s) - ImageBase
<1>1. t \in Nat /\ Readable(s)
  BY TargetIsDistance DEF LeftAlone
<1>2. \A section \in {Text, Rdata, Data} :
        (In(section, t) <=> In(section, u)) /\ (In(section, t) => t = u)
  BY <1>1, TargetIsDistance
<1>3. Classified(t) = {} /\ ~Unnamed(t) /\ ~Uncovered(t)
  BY DEF LeftAlone
<1>4. ~In(Text, t) /\ ~In(Rdata, t)
  BY <1>3 DEF Unnamed
<1>5. In(Data, t) => /\ ~input.strict
                     /\ \A d \in input.definitions : ~Covers(d, t)
                     /\ \A x \in input.statics : x > t
  <2> HIDE DEF t
  <2> QED BY <1>1, <1>3, <1>4, Unclassified
<1> QED BY <1>2, <1>4, <1>5 DEF Unrelocatable, DataTarget

\* A recorded site is not one of those.
LEMMA RecordedRelocatable ==
  ASSUME IInv, NEW s \in DOMAIN relocs_rva
  PROVE  ~Unrelocatable(s)
<1> DEFINE t == TargetRva(s)
<1>1. /\ t \in Nat /\ Classified(t) # {} /\ IsInput(input)
      /\ Linked(s) = ImageBase + t /\ ImageBase \in Nat
  BY RecordedFacts, ConstantsAssumption DEF IInv, TypeOK
<1>2. Linked(s) - ImageBase = t
  <2> HIDE DEF t
  <2> QED BY <1>1
<1>3. CASE In(Text, t) \/ In(Rdata, t)
  BY <1>2, <1>3 DEF Unrelocatable
<1>4. CASE ~In(Text, t) /\ ~In(Rdata, t)
  <2>1. In(Data, t)
    BY <1>1, <1>4 DEF Classified
  <2>2. Reviewed(t) # {} \/ ConjuredStatic(t) # {}
    BY <1>1, <1>4, <2>1 DEF Classified, OrConjured, OrElse
  <2>3. CASE Reviewed(t) # {}
    <3>1. \E d \in input.definitions : Covers(d, t)
      BY <1>1, <2>3, OwnerCovers DEF Reviewed, As
    <3> QED BY <1>2, <2>1, <3>1 DEF Unrelocatable
  <2>4. CASE ConjuredStatic(t) # {}
    <3>1. PICK x : x \in Predecessor(input.statics, t)
      BY <2>4, AsEmpty DEF ConjuredStatic
    <3>2. x \in input.statics /\ x \in Nat /\ x <= t
      BY <1>1, <3>1 DEF Predecessor, IsInput
    <3> QED BY <1>1, <1>2, <2>1, <3>2 DEF Unrelocatable
  <2> QED BY <2>2, <2>3, <2>4
<1> QED BY <1>3, <1>4

\* A site refused by --strict is a listed reference that nothing covers.
LEMMA UncoveredNamed ==
  ASSUME TypeOK, NEW s \in ListedSites, s \in Nat, Readable(s), Uncovered(TargetRva(s))
  PROVE  input.strict /\ UncoveredListed
<1> DEFINE t == TargetRva(s)
<1>1. t \in Nat /\ input.strict /\ DataTarget(t) /\ Owner(input.definitions, t) = {}
  BY TargetIsDistance DEF Uncovered, DataTarget
<1>2. t = Linked(s) - ImageBase
  <2>1. \A section \in {Text, Rdata, Data} : In(section, t) => t = Linked(s) - ImageBase
    BY TargetIsDistance
  <2> QED BY <1>1, <2>1 DEF DataTarget
<1>3. \A d \in input.definitions : ~Covers(d, t)
  <2> HIDE DEF t
  <2>1. Owner(input.definitions, t) = {d \in input.definitions : Covers(d, t)}
    BY <1>1, OwnerCovers DEF TypeOK
  <2> QED BY <1>1, <2>1
<1> HIDE DEF t
<1> QED BY <1>1, <1>2, <1>3 DEF UncoveredListed

\* A site the stage stops at is a cause that StopsForCause names.
LEMMA CauseNamed ==
  ASSUME TypeOK, NEW s \in ListedSites, s \in Nat, NEW reason, Cause(s, reason)
  PROVE  \/ reason = "panic" /\ UnresolvableListed
         \/ reason = "uncovered data" /\ input.strict /\ UncoveredListed
<1> DEFINE t == TargetRva(s)
           u == Linked(s) - ImageBase
<1>1. Readable(s) => t \in Nat /\ \A section \in {Text, Rdata, Data} :
        (In(section, t) <=> In(section, u)) /\ (In(section, t) => t = u)
  BY TargetIsDistance
<1>2. CASE ~Readable(s)
  BY <1>2 DEF Cause, UnresolvableListed
<1>3. CASE Readable(s) /\ Faults(s)
  <2>1. input.overflow_checks /\ Linked(s) < ImageBase
    BY <1>3 DEF Faults, TargetVa, Linked
  <2>2. u < 0
    BY <1>3, <2>1, TargetType, ConstantsAssumption, AddressSpaceType DEF TypeOK
  <2>3. UnresolvableListed
    BY <2>1, <2>2 DEF UnresolvableListed
  <2>4. CASE reason = "panic"
    BY <2>3, <2>4
  <2>5. CASE reason # "panic"
    <3>1. Uncovered(t) /\ reason = "uncovered data"
      BY <2>5 DEF Cause
    <3> QED BY <1>3, <3>1, UncoveredNamed
  <2> QED BY <2>4, <2>5
<1>4. CASE Readable(s) /\ reason = "panic" /\ Unnamed(t)
  <2>1. t \in Nat /\ Classified(t) = {} /\ (In(Text, t) \/ (In(Rdata, t) /\ ~Uncovered(t)))
    BY <1>1, <1>4 DEF Unnamed
  <2>2. In(Text, t) => ~Uncovered(t)
    BY DEF Uncovered
  <2>3. \/ In(Text, t) /\ \A f \in input.functions : f > t
        \/ In(Rdata, t) /\ \A c \in input.constants : c > t
    <3> HIDE DEF t
    <3> QED BY <2>1, <2>2, Unclassified
  <2>4. \/ In(Text, u) /\ \A f \in input.functions : f > u
        \/ In(Rdata, u) /\ \A c \in input.constants : c > u
    BY <1>1, <1>4, <2>3
  <2> QED BY <1>4, <2>4 DEF UnresolvableListed
<1>5. CASE Readable(s) /\ reason = "uncovered data" /\ Uncovered(t)
  BY <1>5, UncoveredNamed
<1> QED BY <1>2, <1>3, <1>4, <1>5 DEF Cause

-----------------------------------------------------------------------------
(* The sites of a directory, a block and an entry at a time.               *)

\* An entry stands for its site if it is HIGHLOW, and else for none.
LEMMA EntrySitesTail ==
  ASSUME NEW p, NEW list \in Seq(EntryType), list # <<>>
  PROVE  EntrySites(p, list) =
           EntrySites(p, Tail(list)) \cup
             {x \in {(p + Head(list).offset) % AddressSpace} : Head(list).highlow}
<1> DEFINE at(n) == (p + list[n].offset) % AddressSpace
<1>1. EntrySites(p, list) = {at(n) : n \in {x \in DOMAIN list : list[x].highlow}}
  BY DEF EntrySites
<1>2. ASSUME NEW s \in EntrySites(p, Tail(list)) PROVE s \in EntrySites(p, list)
  <2>1. PICK n \in DOMAIN Tail(list) :
          Tail(list)[n].highlow /\ s = (p + Tail(list)[n].offset) % AddressSpace
    BY <1>2 DEF EntrySites
  <2>2. n + 1 \in DOMAIN list /\ list[n + 1] = Tail(list)[n]
    BY <2>1, TailFacts
  <2> QED BY <1>1, <2>1, <2>2
<1>3. Head(list) = list[1] /\ 1 \in DOMAIN list
  BY TailFacts
<1>4. ASSUME NEW n \in DOMAIN list \ {1}, list[n].highlow
      PROVE  at(n) \in EntrySites(p, Tail(list))
  <2>1. n - 1 \in DOMAIN Tail(list) /\ Tail(list)[n - 1] = list[n]
    BY TailFacts
  <2> QED BY <1>4, <2>1 DEF EntrySites
<1> QED BY <1>1, <1>2, <1>3, <1>4

\* A block that is not whole ends the walk, and what follows it is not listed.
LEMMA BlockSitesEnd ==
  ASSUME NEW b \in Seq(BlockType), b # <<>>, Head(b).shape # "whole"
  PROVE  BlockSites(b) = {}
<1>1. DOMAIN b = 1 .. Len(b) /\ Len(b) \in Nat /\ Head(b) = b[1]
  BY TailFacts
<1>2. \A m \in DOMAIN b : ~\A k \in 1 .. m : b[k].shape = "whole"
  BY <1>1
<1> QED BY <1>2 DEF BlockSites

\* A whole block stands for its entries.
LEMMA BlockSitesTail ==
  ASSUME NEW b \in Seq(BlockType), b # <<>>, Head(b).shape = "whole"
  PROVE  BlockSites(b) =
           EntrySites(Head(b).page, Head(b).entries) \cup BlockSites(Tail(b))
<1> DEFINE reached(c) == {m \in DOMAIN c : \A k \in 1 .. m : c[k].shape = "whole"}
           of(c, n) == EntrySites(c[n].page, c[n].entries)
<1>1. /\ Head(b) = b[1] /\ 1 \in DOMAIN b /\ DOMAIN b = 1 .. Len(b) /\ Len(b) \in Nat
      /\ Tail(b) \in Seq(BlockType)
      /\ \A n \in DOMAIN Tail(b) :
           n \in Nat /\ n + 1 \in DOMAIN b /\ Tail(b)[n] = b[n + 1]
      /\ \A n \in DOMAIN b \ {1} :
           n - 1 \in DOMAIN Tail(b) /\ Tail(b)[n - 1] = b[n]
  BY TailFacts
<1>2. DOMAIN Tail(b) = 1 .. Len(Tail(b)) /\ Len(Tail(b)) \in Nat
  BY <1>1
<1>3. 1 \in reached(b)
  BY <1>1
<1>4. ASSUME NEW n \in reached(Tail(b)) PROVE n + 1 \in reached(b)
  <2>1. ASSUME NEW k \in 1 .. n + 1 PROVE b[k].shape = "whole"
    <3>1. CASE k = 1
      BY <1>1, <3>1
    <3>2. CASE k # 1
      <4>1. k - 1 \in 1 .. n /\ k \in DOMAIN b
        BY <1>1, <3>2
      <4> QED BY <1>1, <3>2, <4>1
    <3> QED BY <3>1, <3>2
  <2> QED BY <1>1, <2>1
<1>5. ASSUME NEW n \in reached(b) \ {1} PROVE n - 1 \in reached(Tail(b))
  <2>1. n \in Nat /\ n - 1 \in DOMAIN Tail(b)
    BY <1>1
  <2>2. ASSUME NEW k \in 1 .. n - 1 PROVE Tail(b)[k].shape = "whole"
    <3>1. k \in DOMAIN Tail(b) /\ k + 1 \in 1 .. n
      BY <1>1, <1>2, <2>1
    <3> QED BY <1>1, <3>1
  <2> QED BY <2>1, <2>2
<1>6. BlockSites(b) = UNION {of(b, n) : n \in reached(b)}
      /\ BlockSites(Tail(b)) = UNION {of(Tail(b), n) : n \in reached(Tail(b))}
  BY DEF BlockSites
<1>7. \A n \in reached(Tail(b)) : of(Tail(b), n) = of(b, n + 1)
  BY <1>1
<1>8. \A n \in reached(b) \ {1} : of(b, n) = of(Tail(b), n - 1)
  BY <1>1
<1>9. of(b, 1) = EntrySites(Head(b).page, Head(b).entries)
  BY <1>1
<1> HIDE DEF reached, of
<1>10. BlockSites(b) \subseteq of(b, 1) \cup BlockSites(Tail(b))
  BY <1>5, <1>6, <1>8
<1>11. of(b, 1) \cup BlockSites(Tail(b)) \subseteq BlockSites(b)
  BY <1>3, <1>4, <1>6, <1>7
<1> QED BY <1>9, <1>10, <1>11

\* Nothing is left of what is at its end.
LEMMA NothingLeft ==
  ASSUME NEW p
  PROVE  EntrySites(p, <<>>) = {} /\ BlockSites(<<>>) = {}
BY DEF EntrySites, BlockSites

\* The directory's sites are those of its blocks.
LEMMA DirectorySitesBlocks ==
  ASSUME TypeOK, NEW d \in input.reloc
  PROVE  DirectorySites = BlockSites(d) /\ d \in Seq(BlockType)
<1>1. \A b \in input.reloc : b = d
  BY DEF TypeOK, IsInput, AtMostOne
<1>2. DirectorySites = UNION {BlockSites(b) : b \in input.reloc}
  BY DEF DirectorySites, BlockSites, EntrySites
<1> QED BY <1>1, <1>2 DEF TypeOK, IsInput

\* A source the input does not have lists no site.
LEMMA NoSource ==
  /\ input.reloc = {} => DirectorySites = {}
  /\ input.manifest = {} => ManifestSites = {}
  /\ ~input.rediscover => ScanSites = {}
BY DEF DirectorySites, ManifestSites, ScanSites

-----------------------------------------------------------------------------
(* The fields of the scan.                                                 *)

\* Where the sections and the scan's fields lie.
LEMMA ScannedFacts ==
  /\ Scanned[1] = Text /\ Scanned[2] = Rdata /\ Scanned[3] = Data
  /\ \A n \in 1 .. 3 : Scanned[n].rva \in Nat /\ Scanned[n].size \in Nat
<1>1. /\ Text.rva \in Nat /\ Rdata.rva \in Nat /\ Data.rva \in Nat
      /\ Text.size \in Nat /\ Rdata.size \in Nat /\ Data.size \in Nat
  BY ConstantsAssumption, AddressSpaceType DEF SectionType
<1>2. \A n \in 1 .. 3 : n = 1 \/ n = 2 \/ n = 3
  OBVIOUS
<1> QED BY <1>1, <1>2 DEF Scanned

\* Every field the scan must find lies in a section, and is ahead of a scan
\* that starts.
LEMMA ScanStarts ==
  ASSUME NEW s \in ScanSites, NEW position,
         position = [section |-> 1, site |-> Text.rva]
  PROVE  \E k \in position.section .. 3 :
           /\ Scanned[k].rva <= s /\ s + 4 <= Scanned[k].rva + Scanned[k].size
           /\ k = position.section => position.site <= s
<1>1. PICK section \in {Text, Rdata, Data} :
        section.rva <= s /\ s + 4 <= section.rva + section.size
  BY DEF ScanSites
<1>2. PICK k \in 1 .. 3 : section = Scanned[k]
  <2>1. 1 \in 1 .. 3 /\ 2 \in 1 .. 3 /\ 3 \in 1 .. 3
    OBVIOUS
  <2> QED BY <2>1, ScannedFacts
<1>3. k = 1 => Text.rva <= s
  BY <1>1, <1>2, ScannedFacts
<1> QED BY <1>1, <1>2, <1>3

-----------------------------------------------------------------------------
(* The steps.                                                              *)

\* What StopsForCause appeals to is a matter of the input.
LEMMA CauseConstant ==
  ASSUME input' = input
  PROVE  /\ UncoveredListed' <=> UncoveredListed
         /\ BrokenDirectory' <=> BrokenDirectory
         /\ UnresolvableListed' <=> UnresolvableListed
         /\ \A b : BlockSites(b)' = BlockSites(b)
         /\ \A s : Unrelocatable(s)' <=> Unrelocatable(s)
<1>1. ListedSites' = ListedSites /\ \A s : Linked(s)' = Linked(s)
  BY ListedConstant, SiteConstant
<1>2. (UncoveredListed' <=> UncoveredListed) /\ (UnresolvableListed' <=> UnresolvableListed)
  BY <1>1 DEF UncoveredListed, UnresolvableListed
<1>3. BrokenDirectory' <=> BrokenDirectory
  BY DEF BrokenDirectory
<1>4. \A s : Unrelocatable(s)' <=> Unrelocatable(s)
  BY <1>1 DEF Unrelocatable
<1> QED BY <1>2, <1>3, <1>4 DEF BlockSites, EntrySites

\* A step that does not fail does not fail without a cause.
LEMMA NotStopped ==
  ASSUME phase' \notin Failures
  PROVE  StopsForCause'
BY DEF StopsForCause, Failures

\* A step that resolves a listed site records only listed sites, keeps what is
\* settled, and settles the site or stops for a cause.
LEMMA ResolveListed ==
  ASSUME TypeOK, OnlyListed, phase \notin Failures,
         NEW s \in ListedSites, s \in Nat, ResolveAbsoluteSite(s), input' = input
  PROVE  /\ OnlyListed' /\ StopsForCause'
         /\ \A x : Settled(x) => Settled(x)'
         /\ (phase' = phase /\ Settled(s)') \/ phase' \in Failures
<1>1. /\ DOMAIN relocs_rva \subseteq DOMAIN relocs_rva'
      /\ DOMAIN relocs_rva' \subseteq DOMAIN relocs_rva \cup {s}
      /\ \/ phase' = phase /\ Settled(s)'
         \/ phase' \in {"panic", "uncovered data"} /\ Cause(s, phase')
  BY ResolveSettles
<1>2. OnlyListed'
  <2>1. ListedSites' = ListedSites
    BY ListedConstant
  <2>2. DOMAIN relocs_rva \subseteq ListedSites
    BY DEF OnlyListed
  <2>3. DOMAIN relocs_rva' \subseteq ListedSites
    BY <1>1, <2>2
  <2> QED BY <2>1, <2>3 DEF OnlyListed
<1>3. \A x : Settled(x) => Settled(x)'
  BY <1>1, StaysSettled
<1>4. CASE phase' = phase /\ Settled(s)'
  <2>1. phase' \notin Failures
    BY <1>4
  <2>2. StopsForCause'
    BY <2>1, NotStopped
  <2> QED BY <1>2, <1>3, <1>4, <2>2
<1>5. CASE phase' \in {"panic", "uncovered data"} /\ Cause(s, phase')
  <2>1. \/ phase' = "panic" /\ UnresolvableListed'
        \/ phase' = "uncovered data" /\ input'.strict /\ UncoveredListed'
    BY <1>5, CauseNamed, CauseConstant
  <2> QED BY <1>2, <1>3, <1>5, <2>1 DEF StopsForCause, Failures
<1> QED BY <1>1, <1>4, <1>5

\* A step that leaves the records alone settles nothing and unsettles nothing.
LEMMA QuietStep ==
  ASSUME OnlyListed, input' = input, relocs_rva' = relocs_rva
  PROVE  OnlyListed' /\ \A s : Settled(s)' <=> Settled(s)
BY ListedConstant, SiteConstant DEF OnlyListed, Settled

\* Of an entry or a block nothing is left once it has been taken.
LEMMA WalkingEnds ==
  ASSUME TypeOK, Walking, phase = "directory", DirectoryLeft = {}
  PROVE  \A s \in ListedSites : Settled(s)
<1>1. PICK d \in input.reloc : \A s \in BlockSites(d) : Settled(s)
  BY DEF Walking
<1>2. DirectorySites = BlockSites(d)
  BY DirectorySitesBlocks
<1>3. ManifestSites = {} /\ ScanSites = {}
  BY NoSource DEF Walking, Recovery, TypeOK, IsInput
<1> QED BY <1>1, <1>2, <1>3 DEF ListedSites

\* The sources are chosen: no loop has begun, and the one that begins has all
\* of its sites to come to.
LEMMA SelectCovers ==
  ASSUME TypeOK, Rest, UseDirectory \/ UseManifest \/ UseScanOnly \/ RejectSources
  PROVE  Rest'
<1> USE DEF Rest, Loops
<1>1. input' = input /\ relocs_rva' = relocs_rva /\ phase = "select" /\ entries = <<>>
      /\ entries' = <<>> /\ scan' = scan /\ scan = [section |-> 1, site |-> Text.rva]
  BY DEF UseDirectory, UseManifest, UseScanOnly, RejectSources, Starting
<1>2. OnlyListed' /\ (\A s : Settled(s)' <=> Settled(s)) /\ Recovery' = Recovery
      /\ ManifestSites' = ManifestSites /\ ScanSites' = ScanSites
  BY <1>1, QuietStep, ListedConstant
<1>3. CASE UseDirectory
  <2>1. phase' = "directory" /\ ~Recovery
    BY <1>3 DEF UseDirectory
  <2>2. PICK d \in input.reloc : blocks' = d
    BY <1>3 DEF UseDirectory
  <2>3. DirectoryLeft' = BlockSites(d)
    BY <1>1, <2>2, NothingLeft, CauseConstant DEF DirectoryLeft, EntrySites, BlockSites
  <2>4. Walking'
    BY <1>1, <1>2, <2>1, <2>2, <2>3, CauseConstant DEF Walking
  <2> QED BY <1>2, <2>1, <2>4, NotStopped
       DEF Starting, Reading, Scanning, AllSettled, Failures
<1>4. CASE UseManifest
  <2>1. phase' = "manifest" /\ input.reloc = {}
    BY <1>4 DEF UseManifest
  <2>2. PICK m \in input.manifest : sites' = m
    BY <1>4 DEF UseManifest
  <2>3. ManifestSites = {m[n] : n \in DOMAIN m}
    BY <2>2 DEF ManifestSites, TypeOK, IsInput, AtMostOne
  <2>4. Reading'
    BY <1>1, <1>2, <2>1, <2>2, <2>3 DEF Reading
  <2> QED BY <1>1, <1>2, <2>1, <2>4, NotStopped
       DEF Starting, Walking, Scanning, AllSettled, Failures
<1>5. CASE UseScanOnly
  <2>1. phase' = "scan" /\ input.reloc = {} /\ input.rediscover /\ input.manifest = {}
    BY <1>5 DEF UseScanOnly
  <2>2. scan'.section = 1 /\ scan'.site = Text.rva
    BY <1>1
  <2>3. \A s \in ScanSites : Ahead(s)'
    BY <1>1, ScanStarts DEF Ahead
  <2>4. Scanning'
    BY <1>1, <1>2, <2>1, <2>2, <2>3, NoSource, ScannedType DEF Scanning, Scanned
  <2> QED BY <1>1, <1>2, <2>1, <2>4, NotStopped
       DEF Starting, Walking, Reading, AllSettled, Failures
<1>6. CASE RejectSources
  <2>1. \/ phase' = "redundant recovery" /\ input'.reloc # {}
        \/ phase' = "no relocations" /\ input'.reloc = {} /\ ~Recovery
    BY <1>1, <1>6 DEF RejectSources
  <2>2. ~Recovery /\ input.reloc = {} => ListedSites' = {}
    BY <1>1, ListedConstant, NoSource DEF Recovery, ListedSites
  <2>3. StopsForCause'
    BY <1>1, <2>1, <2>2 DEF StopsForCause
  <2> QED BY <1>2, <2>1, <2>3 DEF Starting, Walking, Reading, Scanning, AllSettled
<1> QED BY <1>3, <1>4, <1>5, <1>6

\* What is said of a loop holds while another runs, or none.
LEMMA Elsewhere ==
  /\ phase' \notin {"select", "manifest"} => Starting'
  /\ phase' # "directory" => Walking'
  /\ phase' # "manifest" => Reading'
  /\ phase' # "scan" => Scanning'
  /\ phase' # "resolved" => AllSettled'
BY DEF Starting, Walking, Reading, Scanning, AllSettled

\* Opening a block takes it from the blocks left and leaves its entries.
LEMMA OpenBlockCovers ==
  ASSUME TypeOK, Rest, OpenBlock
  PROVE  Rest'
<1> USE DEF Rest, Loops
<1> DEFINE b == Head(blocks)
<1>1. /\ input' = input /\ relocs_rva' = relocs_rva /\ phase = "directory"
      /\ entries = <<>> /\ blocks # <<>> /\ blocks' = Tail(blocks) /\ page' = b.page
      /\ entries' = IF b.shape = "whole" THEN b.entries ELSE <<>>
  BY DEF OpenBlock
<1>2. OnlyListed' /\ (\A s : Settled(s)' <=> Settled(s)) /\ Recovery' = Recovery
      /\ ListedSites' = ListedSites
  BY <1>1, QuietStep, ListedConstant
<1>3. PICK d \in input.reloc :
        /\ \A n \in DOMAIN blocks : \E m \in DOMAIN d : blocks[n] = d[m]
        /\ DirectoryLeft \subseteq BlockSites(d)
        /\ \A s \in BlockSites(d) : Settled(s) \/ s \in DirectoryLeft
  BY <1>1 DEF Walking
<1>4. /\ blocks \in Seq(BlockType) /\ b = blocks[1] /\ 1 \in DOMAIN blocks /\ b \in BlockType
      /\ \A n \in DOMAIN Tail(blocks) :
           n + 1 \in DOMAIN blocks /\ Tail(blocks)[n] = blocks[n + 1]
  BY <1>1, TailFacts DEF TypeOK
<1>5. DirectoryLeft = BlockSites(blocks)
  BY <1>1, NothingLeft DEF DirectoryLeft
<1>6. b.shape \in {"whole", "stop", "torn"}
  BY <1>4 DEF BlockType
<1>7. CASE b.shape = "whole"
  <2>1. phase' = "directory" /\ entries' = b.entries
    BY <1>1, <1>7 DEF OpenBlock
  <2>2. DirectoryLeft' = DirectoryLeft
    <3>1. BlockSites(blocks) = EntrySites(b.page, b.entries) \cup BlockSites(Tail(blocks))
      BY <1>1, <1>4, <1>7, BlockSitesTail
    <3>2. DirectoryLeft' = EntrySites(page', entries') \cup BlockSites(blocks')
      BY DEF DirectoryLeft, EntrySites, BlockSites
    <3> QED BY <1>1, <1>5, <2>1, <3>1, <3>2
  <2>3. \A n \in DOMAIN blocks' : \E m \in DOMAIN d : blocks'[n] = d[m]
    BY <1>1, <1>3, <1>4
  <2>4. PICK m \in DOMAIN d : b = d[m]
    BY <1>3, <1>4
  <2>5. /\ page' = d[m].page
        /\ \A e \in DOMAIN entries' : \E x \in DOMAIN d[m].entries : entries'[e] = d[m].entries[x]
    BY <1>1, <2>1, <2>4
  <2>6. Walking'
    <3>1. ~Recovery' /\ d \in input'.reloc
      BY <1>1, <1>2 DEF Walking
    <3>2. DirectoryLeft' \subseteq BlockSites(d)'
      BY <1>1, <1>3, <2>2, CauseConstant
    <3>3. \A s \in BlockSites(d)' : Settled(s)' \/ s \in DirectoryLeft'
      BY <1>1, <1>2, <1>3, <2>2, CauseConstant
    <3> QED BY <2>3, <2>4, <2>5, <3>1, <3>2, <3>3 DEF Walking
  <2>7. phase' \notin Failures
    BY <2>1 DEF Failures
  <2> QED BY <1>2, <2>1, <2>6, <2>7, Elsewhere, NotStopped
<1>8. CASE b.shape = "stop"
  <2>1. phase' = "resolved"
    BY <1>8 DEF OpenBlock
  <2>2. DirectoryLeft = {}
    BY <1>1, <1>4, <1>5, <1>8, BlockSitesEnd
  <2>3. AllSettled'
    BY <1>1, <1>2, <2>2, WalkingEnds DEF AllSettled
  <2>4. phase' \notin Failures
    BY <2>1 DEF Failures
  <2> QED BY <1>2, <2>1, <2>3, <2>4, Elsewhere, NotStopped
<1>9. CASE b.shape = "torn"
  <2>1. phase' = "panic"
    BY <1>9 DEF OpenBlock
  <2>2. BrokenDirectory
    BY <1>3, <1>4, <1>9 DEF BrokenDirectory
  <2>3. StopsForCause'
    BY <1>1, <2>1, <2>2, CauseConstant DEF StopsForCause
  <2> QED BY <1>2, <2>1, <2>3, Elsewhere
<1> QED BY <1>6, <1>7, <1>8, <1>9

\* Taking an entry leaves the rest of the page, and the blocks after it.
LEMMA EntryTaken ==
  ASSUME TypeOK, Walking, phase = "directory", entries # <<>>, input' = input,
         entries' = Tail(entries), page' = page, blocks' = blocks, phase' = "directory",
         \A s : Settled(s) => Settled(s)',
         NEW site, site = EntrySite(Head(entries)),
         Head(entries).highlow => Settled(site)'
  PROVE  Walking'
<1> DEFINE e == Head(entries)
<1>1. PICK d \in input.reloc :
        /\ \A n \in DOMAIN blocks : \E m \in DOMAIN d : blocks[n] = d[m]
        /\ \E m \in DOMAIN d :
             /\ page = d[m].page
             /\ \A n \in DOMAIN entries :
                  \E x \in DOMAIN d[m].entries : entries[n] = d[m].entries[x]
        /\ DirectoryLeft \subseteq BlockSites(d)
        /\ \A s \in BlockSites(d) : Settled(s) \/ s \in DirectoryLeft
  BY DEF Walking
<1>2. DirectoryLeft = DirectoryLeft' \cup {x \in {site} : e.highlow}
  <2>1. EntrySites(page, entries) = EntrySites(page, Tail(entries)) \cup
                                      {x \in {EntrySite(e)} : e.highlow}
    BY EntrySitesTail DEF TypeOK, EntrySite
  <2>2. DirectoryLeft' = EntrySites(page', entries') \cup BlockSites(blocks')
    BY DEF DirectoryLeft, EntrySites, BlockSites
  <2>3. DirectoryLeft = EntrySites(page, entries) \cup BlockSites(blocks)
    BY DEF DirectoryLeft
  <2> QED BY <2>1, <2>2, <2>3
<1>3. \A n \in DOMAIN entries' : n + 1 \in DOMAIN entries /\ entries'[n] = entries[n + 1]
  BY TailFacts DEF TypeOK
<1>4. PICK m \in DOMAIN d :
        /\ page' = d[m].page
        /\ \A n \in DOMAIN entries' :
             \E x \in DOMAIN d[m].entries : entries'[n] = d[m].entries[x]
  BY <1>1, <1>3
<1>5. ~Recovery' /\ d \in input'.reloc
  BY ListedConstant DEF Walking
<1>6. DirectoryLeft' \subseteq BlockSites(d)'
  BY <1>1, <1>2, CauseConstant
<1>7. \A s \in BlockSites(d)' : Settled(s)' \/ s \in DirectoryLeft'
  <2>1. \A s \in BlockSites(d) : Settled(s)' \/ s \in DirectoryLeft'
    BY <1>1, <1>2
  <2> QED BY <2>1, CauseConstant
<1>8. \A n \in DOMAIN blocks' : \E k \in DOMAIN d : blocks'[n] = d[k]
  BY <1>1
<1> HIDE DEF e
<1> QED BY <1>4, <1>5, <1>6, <1>7, <1>8 DEF Walking

\* An entry that is not HIGHLOW stands for no site.
LEMMA SkipEntryCovers ==
  ASSUME TypeOK, Rest, SkipEntry
  PROVE  Rest'
<1> USE DEF Rest, Loops
<1>1. /\ input' = input /\ relocs_rva' = relocs_rva /\ phase = "directory"
      /\ phase' = "directory" /\ entries # <<>> /\ ~Head(entries).highlow
      /\ entries' = Tail(entries) /\ page' = page /\ blocks' = blocks
  BY DEF SkipEntry
<1>2. OnlyListed' /\ (\A s : Settled(s)' <=> Settled(s))
  BY <1>1, QuietStep
<1>3. Walking'
  <2>1. PICK site : site = EntrySite(Head(entries))
    OBVIOUS
  <2> QED BY <1>1, <1>2, <2>1, EntryTaken
<1>4. phase' \notin Failures
  BY <1>1 DEF Failures
<1> QED BY <1>1, <1>2, <1>3, <1>4, Elsewhere, NotStopped

\* A HIGHLOW entry is resolved, and its site with it, or stops the run.
LEMMA ResolveEntryCovers ==
  ASSUME TypeOK, Rest, ResolveEntry
  PROVE  Rest'
<1> USE DEF Rest, Loops
<1> DEFINE e == Head(entries)
<1>0. PICK site : site = EntrySite(e)
  OBVIOUS
<1>1. /\ input' = input /\ phase = "directory" /\ entries # <<>> /\ e.highlow
      /\ entries' = Tail(entries) /\ page' = page /\ blocks' = blocks
      /\ phase \notin Failures
  BY DEF ResolveEntry, Failures
<1>2. e \in EntryType /\ e = entries[1] /\ 1 \in DOMAIN entries
  BY <1>1, TailFacts DEF TypeOK
<1>3. site \in Nat
  BY <1>0, <1>2, EntrySiteType DEF TypeOK
<1>4. PICK d \in input.reloc :
        /\ \E m \in DOMAIN d :
             /\ page = d[m].page
             /\ \A n \in DOMAIN entries :
                  \E x \in DOMAIN d[m].entries : entries[n] = d[m].entries[x]
        /\ DirectoryLeft \subseteq BlockSites(d)
  BY <1>1 DEF Walking
<1>5. site \in ListedSites
  <2>1. site \in EntrySites(page, entries)
    BY <1>0, <1>1, <1>2 DEF EntrySites, EntrySite
  <2> QED BY <1>4, <2>1, DirectorySitesBlocks DEF DirectoryLeft, ListedSites
<1>6. CASE input.overflow_checks /\ page + e.offset >= AddressSpace /\ Fail("panic")
  <2>1. phase' = "panic" /\ relocs_rva' = relocs_rva
    BY <1>6 DEF Fail
  <2>2. PICK m \in DOMAIN d : \E x \in DOMAIN d[m].entries :
          page = d[m].page /\ e = d[m].entries[x]
    BY <1>2, <1>4
  <2>3. BrokenDirectory
    BY <1>6, <2>2 DEF BrokenDirectory
  <2>4. StopsForCause'
    BY <1>1, <2>1, <2>3, CauseConstant DEF StopsForCause
  <2> QED BY <1>1, <2>1, <2>4, QuietStep, Elsewhere
<1>7. CASE ResolveAbsoluteSite(site)
  <2>1. /\ OnlyListed' /\ StopsForCause'
        /\ \A x : Settled(x) => Settled(x)'
        /\ (phase' = phase /\ Settled(site)') \/ phase' \in Failures
    BY <1>1, <1>3, <1>5, <1>7, ResolveListed
  <2>2. CASE phase' = phase /\ Settled(site)'
    BY <1>0, <1>1, <2>1, <2>2, EntryTaken, Elsewhere
  <2>3. CASE phase' \in Failures
    BY <2>1, <2>3, Elsewhere DEF Failures
  <2> QED BY <2>1, <2>2, <2>3
<1> QED BY <1>0, <1>6, <1>7 DEF ResolveEntry

\* The walk ends with nothing left.
LEMMA FinishDirectoryCovers ==
  ASSUME TypeOK, Rest, FinishDirectory
  PROVE  Rest'
<1> USE DEF Rest, Loops
<1>1. /\ input' = input /\ relocs_rva' = relocs_rva /\ phase = "directory"
      /\ entries = <<>> /\ blocks = <<>> /\ phase' = "resolved"
  BY DEF FinishDirectory
<1>2. OnlyListed' /\ (\A s : Settled(s)' <=> Settled(s)) /\ ListedSites' = ListedSites
  BY <1>1, QuietStep, ListedConstant
<1>3. DirectoryLeft = {}
  BY <1>1, NothingLeft DEF DirectoryLeft
<1>4. AllSettled'
  BY <1>1, <1>2, <1>3, WalkingEnds DEF AllSettled
<1>5. phase' \notin Failures
  BY <1>1 DEF Failures
<1> QED BY <1>1, <1>2, <1>4, <1>5, Elsewhere, NotStopped

\* A row that names no field of the image stops the run; any other is resolved.
LEMMA ResolveRowCovers ==
  ASSUME TypeOK, Rest, ResolveRow
  PROVE  Rest'
<1> USE DEF Rest, Loops
<1>0. PICK site : site = Head(sites)
  OBVIOUS
<1>1. /\ input' = input /\ phase = "manifest" /\ sites # <<>> /\ sites' = Tail(sites)
      /\ scan' = scan /\ phase \notin Failures
  BY DEF ResolveRow, Failures
<1>2. /\ site \in Nat /\ site = sites[1] /\ 1 \in DOMAIN sites
      /\ \A n \in DOMAIN sites' : n + 1 \in DOMAIN sites /\ sites'[n] = sites[n + 1]
      /\ \A n \in DOMAIN sites \ {1} : n - 1 \in DOMAIN sites' /\ sites'[n - 1] = sites[n]
  BY <1>0, <1>1, TailFacts DEF TypeOK
<1>3. /\ input.reloc = {} /\ scan = [section |-> 1, site |-> Text.rva]
      /\ \A n \in DOMAIN sites : sites[n] \in ManifestSites
      /\ \A s \in ManifestSites : Settled(s) \/ \E n \in DOMAIN sites : sites[n] = s
  BY <1>1 DEF Reading, Starting
<1>4. site \in ManifestSites /\ site \in ListedSites
  BY <1>2, <1>3 DEF ListedSites
<1>5. CASE ~Readable(site) /\ Fail(RowRefusal(site))
  <2>1. relocs_rva' = relocs_rva /\ phase' \in {"panic", "site outside image"}
    BY <1>5 DEF Fail, RowRefusal
  <2>2. UnresolvableListed
    BY <1>4, <1>5 DEF UnresolvableListed
  <2>3. \E s \in ManifestSites' : ~Readable(s)
    BY <1>1, <1>4, <1>5, ListedConstant
  <2>4. StopsForCause'
    BY <1>1, <2>1, <2>2, <2>3, CauseConstant DEF StopsForCause, Readable
  <2> QED BY <1>1, <2>1, <2>4, QuietStep, Elsewhere
<1>6. CASE ResolveAbsoluteSite(site)
  <2>1. /\ OnlyListed' /\ StopsForCause'
        /\ \A x : Settled(x) => Settled(x)'
        /\ (phase' = phase /\ Settled(site)') \/ phase' \in Failures
    BY <1>1, <1>2, <1>4, <1>6, ResolveListed
  <2>2. CASE phase' = phase /\ Settled(site)'
    <3>1. ManifestSites' = ManifestSites
      BY <1>1, ListedConstant
    <3>2. \A n \in DOMAIN sites' : sites'[n] \in ManifestSites
      BY <1>2, <1>3
    <3>3. ASSUME NEW s \in ManifestSites
          PROVE  Settled(s)' \/ \E n \in DOMAIN sites' : sites'[n] = s
      <4>1. CASE Settled(s) \/ s = site
        BY <2>1, <2>2, <4>1
      <4>2. CASE ~Settled(s) /\ s # site
        <5>1. PICK n \in DOMAIN sites \ {1} : sites[n] = s
          BY <1>2, <1>3, <4>2
        <5> QED BY <1>2, <5>1
      <4> QED BY <4>1, <4>2
    <3>4. Reading'
      BY <1>1, <1>3, <3>1, <3>2, <3>3 DEF Reading
    <3>5. Starting'
      BY <1>1, <1>3, <2>2 DEF Starting
    <3> QED BY <1>1, <2>1, <2>2, <3>4, <3>5, Elsewhere
  <2>3. CASE phase' \in Failures
    BY <2>1, <2>3, Elsewhere DEF Failures
  <2> QED BY <2>1, <2>2, <2>3
<1> QED BY <1>0, <1>5, <1>6 DEF ResolveRow

\* The manifest ends with its sites settled, and the scan, if any, begins.
LEMMA FinishManifestCovers ==
  ASSUME TypeOK, Rest, FinishManifest
  PROVE  Rest'
<1> USE DEF Rest, Loops
<1>1. /\ input' = input /\ relocs_rva' = relocs_rva /\ phase = "manifest"
      /\ sites = <<>> /\ scan' = scan
      /\ phase' = IF input.rediscover THEN "scan" ELSE "resolved"
  BY DEF FinishManifest
<1>2. OnlyListed' /\ (\A s : Settled(s)' <=> Settled(s)) /\ ListedSites' = ListedSites
      /\ ManifestSites' = ManifestSites /\ ScanSites' = ScanSites
  BY <1>1, QuietStep, ListedConstant
<1>3. /\ input.reloc = {} /\ scan = [section |-> 1, site |-> Text.rva]
      /\ \A s \in ManifestSites : Settled(s)
  BY <1>1 DEF Reading, Starting
<1>4. StopsForCause'
  BY <1>1, NotStopped DEF Failures
<1>5. CASE input.rediscover
  <2>1. \A s \in ScanSites : Ahead(s)'
    BY <1>1, <1>3, ScanStarts DEF Ahead
  <2>2. Scanned[scan'.section].rva <= scan'.site
    BY <1>1, <1>3, ScannedFacts
  <2>3. Scanning'
    BY <1>1, <1>2, <1>3, <1>5, <2>1, <2>2 DEF Scanning
  <2> QED BY <1>1, <1>2, <1>4, <1>5, <2>3, Elsewhere
<1>6. CASE ~input.rediscover
  <2>1. \A s \in ListedSites : Settled(s)
    BY <1>3, <1>6, NoSource DEF ListedSites
  <2>2. AllSettled'
    BY <1>2, <2>1 DEF AllSettled
  <2> QED BY <1>1, <1>2, <1>4, <1>6, <2>2, Elsewhere
<1> QED BY <1>5, <1>6

\* A field in the window of some symbol start is trusted: the nearest start
\* below it is nearer than that one, or is it.
LEMMA WindowTrusted ==
  ASSUME TypeOK, NEW s \in ScanSites
  PROVE  Trusted(s)
<1>1. PICK start \in Starts :
        \/ Linked(s) = ImageBase + start
        \/ ImageBase + start <= Linked(s) /\ Linked(s) < ImageBase + start + input.bound
  BY DEF ScanSites
<1>2. Starts \in SUBSET Nat /\ input.bound \in Nat /\ ImageBase \in Nat
  BY ConstantsAssumption DEF Starts, TypeOK, IsInput
<1>3. s \in Nat /\ Readable(s)
  BY ConstantsAssumption DEF ScanSites, Rva
<1>4. Linked(s) \in Nat /\ TargetVa(s) = Linked(s)
  BY <1>3, TargetIsDistance DEF TargetVa, Linked
<1> DEFINE t == Linked(s) - ImageBase
<1>5. t \in Nat /\ start \in Nat /\ start <= t /\ (t = start \/ t - start < input.bound)
  BY <1>1, <1>2, <1>4
<1>6. PICK p \in Predecessor(Starts, t) : start <= p
  <2> HIDE DEF t
  <2> QED BY <1>2, <1>5, PredecessorExists
<1>7. p \in Nat /\ p <= t
  <2> HIDE DEF t
  <2> QED BY <1>2, <1>5, <1>6, PredecessorKey
<1>8. t = p \/ t - p < input.bound
  <2> HIDE DEF t
  <2> QED BY <1>2, <1>5, <1>6, <1>7
<1>9. KnownTarget(t)
  BY <1>6, <1>8 DEF KnownTarget
<1> QED BY <1>2, <1>4, <1>5, <1>9 DEF Trusted

\* A field the scan trusts is one it must find.
LEMMA TrustedListed ==
  ASSUME TypeOK, FieldLeft, Scanned[scan.section].rva <= scan.site, input.rediscover,
         Trusted(scan.site)
  PROVE  scan.site \in ScanSites
<1> DEFINE s == scan.site
           section == Scanned[scan.section]
           t == TargetVa(s) - ImageBase
<1>1. /\ s \in Nat /\ Readable(s) /\ section.rva <= s
      /\ s + 4 <= section.rva + section.size /\ scan.section \in 1 .. 3
  BY DEF FieldLeft, TypeOK
<1>2. section \in {Text, Rdata, Data}
  BY <1>1, ScannedFacts
<1>3. s \in Rva
  BY <1>1, ConstantsAssumption DEF Readable, Rva
<1>4. TargetVa(s) = Linked(s) /\ TargetVa(s) \in Nat /\ ImageBase \in Nat
      /\ TargetVa(s) >= ImageBase
  BY <1>1, TargetIsDistance, ConstantsAssumption DEF TargetVa, Linked, Trusted
<1>5. PICK p \in Predecessor(Starts, t) : t = p \/ t - p < input.bound
  BY DEF Trusted, KnownTarget
<1>6. p \in Starts /\ p \in Nat /\ p <= t /\ t \in Nat /\ input.bound \in Nat
  <2>1. Starts \in SUBSET Nat /\ input.bound \in Nat
    BY DEF Starts, TypeOK, IsInput
  <2>2. t \in Nat
    BY <1>4
  <2> HIDE DEF t
  <2> QED BY <1>5, <2>1, <2>2, PredecessorKey
<1>7. \/ Linked(s) = ImageBase + p
      \/ ImageBase + p <= Linked(s) /\ Linked(s) < ImageBase + p + input.bound
  BY <1>4, <1>5, <1>6
<1> HIDE DEF s, section, t
<1>8. s \in ScanSites
  BY <1>1, <1>2, <1>3, <1>6, <1>7 DEF ScanSites
<1> QED BY <1>8 DEF s

\* Moving on by a byte passes one field.
LEMMA AdvancePasses ==
  ASSUME TypeOK, Advance, NEW s \in Nat, Ahead(s)
  PROVE  Ahead(s)' \/ s = scan.site
<1>1. scan' = [section |-> scan.section, site |-> scan.site + 1]
      /\ scan.section \in 1 .. 3 /\ scan.site \in Nat
  BY DEF Advance, TypeOK
<1>2. PICK k \in scan.section .. 3 :
        /\ Scanned[k].rva <= s /\ s + 4 <= Scanned[k].rva + Scanned[k].size
        /\ k = scan.section => scan.site <= s
  BY DEF Ahead
<1>3. CASE s # scan.site
  <2>1. k = scan'.section => scan'.site <= s
    BY <1>1, <1>2, <1>3
  <2> QED BY <1>1, <1>2, <2>1 DEF Ahead
<1> QED BY <1>3

\* The scan passes a field only if it is settled or none it must find.
LEMMA ScanPastCovers ==
  ASSUME TypeOK, Rest, ScanPast
  PROVE  Rest'
<1> USE DEF Rest, Loops
<1>1. /\ input' = input /\ relocs_rva' = relocs_rva /\ phase = "scan" /\ phase' = "scan"
      /\ ~Fresh(scan.site) /\ Advance
  BY DEF ScanPast
<1>2. OnlyListed' /\ (\A s : Settled(s)' <=> Settled(s))
      /\ ManifestSites' = ManifestSites /\ ScanSites' = ScanSites
  BY <1>1, QuietStep, ListedConstant
<1>3. /\ input.reloc = {} /\ input.rediscover
      /\ Scanned[scan.section].rva <= scan.site
      /\ \A s \in ManifestSites : Settled(s)
      /\ \A s \in ScanSites : Settled(s) \/ Ahead(s)
  BY <1>1 DEF Scanning
<1>4. ASSUME NEW s \in ScanSites PROVE Settled(s) \/ Ahead(s)'
  <2>1. s \in Nat
    BY ConstantsAssumption DEF ScanSites, Rva
  <2>2. s = scan.site => Settled(s)
    BY <1>1, WindowTrusted DEF Fresh, Settled
  <2> QED BY <1>1, <1>3, <2>1, <2>2, AdvancePasses
<1>5. Scanned[scan'.section].rva <= scan'.site
  BY <1>1, <1>3, ScannedFacts DEF Advance, TypeOK
<1>6. Scanning'
  BY <1>1, <1>2, <1>3, <1>4, <1>5 DEF Scanning
<1>7. StopsForCause'
  BY <1>1, NotStopped DEF Failures
<1> QED BY <1>1, <1>2, <1>6, <1>7, Elsewhere

\* A field the scan trusts is resolved, or stops the run.
LEMMA RediscoverCovers ==
  ASSUME TypeOK, Rest, Rediscover
  PROVE  Rest'
<1> USE DEF Rest, Loops
<1>0. PICK site : site = scan.site
  OBVIOUS
<1>1. /\ input' = input /\ phase = "scan" /\ phase \notin Failures
      /\ FieldLeft /\ Fresh(scan.site) /\ ResolveAbsoluteSite(site) /\ Advance
  BY <1>0 DEF Rediscover, Failures
<1>2. /\ input.reloc = {} /\ input.rediscover
      /\ Scanned[scan.section].rva <= scan.site
      /\ \A s \in ManifestSites : Settled(s)
      /\ \A s \in ScanSites : Settled(s) \/ Ahead(s)
  BY <1>1 DEF Scanning
<1>3. site \in ListedSites /\ site \in Nat
  <2>1. scan.site \in ScanSites
    BY <1>1, <1>2, TrustedListed DEF Fresh
  <2> QED BY <1>0, <2>1 DEF ListedSites, TypeOK
<1>4. /\ OnlyListed' /\ StopsForCause'
      /\ \A x : Settled(x) => Settled(x)'
      /\ (phase' = phase /\ Settled(site)') \/ phase' \in Failures
  BY <1>1, <1>3, ResolveListed
<1>5. CASE phase' = phase /\ Settled(site)'
  <2>1. ManifestSites' = ManifestSites /\ ScanSites' = ScanSites
    BY <1>1, ListedConstant
  <2>2. ASSUME NEW s \in ScanSites PROVE Settled(s)' \/ Ahead(s)'
    <3>1. s \in Nat
      BY ConstantsAssumption DEF ScanSites, Rva
    <3>2. s = site => Settled(s)'
      BY <1>5
    <3>3. Ahead(s) => Ahead(s)' \/ s = site
      BY <1>0, <1>1, <3>1, AdvancePasses
    <3> QED BY <1>2, <1>4, <3>2, <3>3
  <2>3. Scanned[scan'.section].rva <= scan'.site
    BY <1>1, <1>2, ScannedFacts DEF Advance, TypeOK
  <2>4. \A s \in ManifestSites : Settled(s)'
    BY <1>2, <1>4
  <2>5. Scanning'
    BY <1>1, <1>2, <2>1, <2>2, <2>3, <2>4 DEF Scanning
  <2> QED BY <1>1, <1>4, <1>5, <2>5, Elsewhere
<1>6. CASE phase' \in Failures
  BY <1>4, <1>6, Elsewhere DEF Failures
<1> QED BY <1>4, <1>5, <1>6

\* When no field of a section is left, none the scan must find is ahead in it.
LEMMA SectionDone ==
  ASSUME TypeOK, ~FieldLeft, NEW s \in ScanSites, Ahead(s)
  PROVE  \E k \in scan.section + 1 .. 3 :
           Scanned[k].rva <= s /\ s + 4 <= Scanned[k].rva + Scanned[k].size
<1>1. scan.section \in 1 .. 3 /\ scan.site \in Nat
  BY DEF TypeOK
<1>2. PICK k \in scan.section .. 3 :
        /\ Scanned[k].rva <= s /\ s + 4 <= Scanned[k].rva + Scanned[k].size
        /\ k = scan.section => scan.site <= s
  BY DEF Ahead
<1>3. s \in Nat /\ s + 4 <= ImageSize /\ ImageSize \in Nat
  BY ConstantsAssumption DEF ScanSites, Rva, Readable
<1>4. Scanned[scan.section].rva \in Nat /\ Scanned[scan.section].size \in Nat
  BY <1>1, ScannedFacts
<1>5. k # scan.section
  BY <1>1, <1>2, <1>3, <1>4 DEF FieldLeft, Readable
<1>6. k \in scan.section + 1 .. 3
  BY <1>1, <1>2, <1>5
<1> QED BY <1>2, <1>6

\* The next section has all its fields ahead.
LEMMA NextSectionCovers ==
  ASSUME TypeOK, Rest, NextSection
  PROVE  Rest'
<1> USE DEF Rest, Loops
<1>1. /\ input' = input /\ relocs_rva' = relocs_rva /\ phase = "scan" /\ phase' = "scan"
      /\ ~FieldLeft /\ scan.section < 3 /\ scan.section \in 1 .. 3
      /\ scan'.section = scan.section + 1 /\ scan'.site = Scanned[scan.section + 1].rva
  BY DEF NextSection, TypeOK
<1>2. OnlyListed' /\ (\A s : Settled(s)' <=> Settled(s))
      /\ ManifestSites' = ManifestSites /\ ScanSites' = ScanSites
  BY <1>1, QuietStep, ListedConstant
<1>3. /\ input.reloc = {} /\ input.rediscover
      /\ \A s \in ManifestSites : Settled(s)
      /\ \A s \in ScanSites : Settled(s) \/ Ahead(s)
  BY <1>1 DEF Scanning
<1>4. ASSUME NEW s \in ScanSites, Ahead(s) PROVE Ahead(s)'
  <2>1. PICK k \in scan'.section .. 3 :
          Scanned[k].rva <= s /\ s + 4 <= Scanned[k].rva + Scanned[k].size
    BY <1>1, <1>4, SectionDone
  <2> QED BY <1>1, <2>1 DEF Ahead
<1>5. Scanned[scan'.section].rva <= scan'.site
  <2>1. scan.section + 1 \in 1 .. 3
    BY <1>1
  <2> QED BY <1>1, <2>1, ScannedFacts
<1>6. Scanning'
  BY <1>1, <1>2, <1>3, <1>4, <1>5 DEF Scanning
<1>7. StopsForCause'
  BY <1>1, NotStopped DEF Failures
<1> QED BY <1>1, <1>2, <1>6, <1>7, Elsewhere

\* The scan ends with no field ahead.
LEMMA FinishScanCovers ==
  ASSUME TypeOK, Rest, FinishScan
  PROVE  Rest'
<1> USE DEF Rest, Loops
<1>1. /\ input' = input /\ relocs_rva' = relocs_rva /\ phase = "scan"
      /\ phase' = "resolved" /\ ~FieldLeft /\ scan.section = 3
  BY DEF FinishScan
<1>2. OnlyListed' /\ (\A s : Settled(s)' <=> Settled(s)) /\ ListedSites' = ListedSites
  BY <1>1, QuietStep, ListedConstant
<1>3. \A s \in ScanSites : ~Ahead(s)
  BY <1>1, SectionDone
<1>4. \A s \in ListedSites : Settled(s)
  BY <1>1, <1>3, NoSource DEF Scanning, ListedSites
<1>5. AllSettled'
  BY <1>2, <1>4 DEF AllSettled
<1>6. StopsForCause'
  BY <1>1, NotStopped DEF Failures
<1> QED BY <1>1, <1>2, <1>5, <1>6, Elsewhere

\* A stage that is over, or that stutters, stays as it is.
LEMMA IdleCovers ==
  ASSUME TypeOK, Rest, Stop \/ UNCHANGED vars
  PROVE  Rest'
<1> USE DEF Rest, Loops
<1>1. UNCHANGED <<input, relocs_rva, phase, blocks, page, entries, sites, scan>>
  BY DEF Stop, vars
<1>2. OnlyListed' /\ (\A s : Settled(s)' <=> Settled(s)) /\ ListedSites' = ListedSites
      /\ ManifestSites' = ManifestSites /\ ScanSites' = ScanSites /\ Recovery' = Recovery
  BY <1>1, QuietStep, ListedConstant
<1>3. DirectoryLeft' = DirectoryLeft /\ \A b : BlockSites(b)' = BlockSites(b)
  BY <1>1 DEF DirectoryLeft, BlockSites, EntrySites
<1>4. Walking'
  BY <1>1, <1>2, <1>3 DEF Walking
<1>5. Reading'
  BY <1>1, <1>2 DEF Reading
<1>6. Scanning'
  BY <1>1, <1>2 DEF Scanning, Ahead
<1>7. Starting' /\ AllSettled'
  BY <1>1, <1>2 DEF Starting, AllSettled
<1>8. StopsForCause'
  BY <1>1, <1>2, CauseConstant DEF StopsForCause, Readable
<1> QED BY <1>2, <1>4, <1>5, <1>6, <1>7, <1>8

\* When the stage starts nothing is recorded and no loop has begun.
LEMMA BeginsRest == Begins => Rest
BY DEF Begins, Rest, OnlyListed, Loops, Starting, Walking, Reading, Scanning, AllSettled,
  StopsForCause, EmptyMap

\* So it has covered nothing, and claims nothing.
LEMMA BeginsCovers == Begins => Coverage
BY InitType, InitRecorded, BeginsRest DEF Coverage, IInv

\* Every step of every loop keeps the account.
LEMMA NextCovers == Coverage /\ [Next]_vars => Coverage'
<1> SUFFICES ASSUME Coverage, [Next]_vars PROVE Coverage'
  OBVIOUS
<1>1. IInv'
  BY NextType, NextRecorded DEF Coverage, IInv
<1>2. TypeOK /\ Rest
  BY DEF Coverage, IInv
<1> SUFFICES Rest'
  BY <1>1 DEF Coverage
<1>3. CASE UseDirectory \/ UseManifest \/ UseScanOnly \/ RejectSources
  BY <1>2, <1>3, SelectCovers
<1>4. CASE OpenBlock
  BY <1>2, <1>4, OpenBlockCovers
<1>5. CASE SkipEntry
  BY <1>2, <1>5, SkipEntryCovers
<1>6. CASE ResolveEntry
  BY <1>2, <1>6, ResolveEntryCovers
<1>7. CASE FinishDirectory
  BY <1>2, <1>7, FinishDirectoryCovers
<1>8. CASE ResolveRow
  BY <1>2, <1>8, ResolveRowCovers
<1>9. CASE FinishManifest
  BY <1>2, <1>9, FinishManifestCovers
<1>10. CASE ScanPast
  BY <1>2, <1>10, ScanPastCovers
<1>11. CASE Rediscover
  BY <1>2, <1>11, RediscoverCovers
<1>12. CASE NextSection
  BY <1>2, <1>12, NextSectionCovers
<1>13. CASE FinishScan
  BY <1>2, <1>13, FinishScanCovers
<1>14. CASE Stop \/ UNCHANGED vars
  BY <1>2, <1>14, IdleCovers
<1> QED
  BY <1>3, <1>4, <1>5, <1>6, <1>7, <1>8, <1>9, <1>10, <1>11, <1>12, <1>13, <1>14 DEF Next

\* The inductive invariant: every listed site is settled or is yet to come to,
\* in whichever loop is running, and no other site is recorded.
THEOREM CoverageInductive == Spec => []Coverage
<1>1. Init => Coverage
  BY InitBegins, BeginsCovers
<1> QED BY <1>1, NextCovers, PTL DEF Spec
-----------------------------------------------------------------------------
(* What the invariant gives.                                               *)

\* A listed site that was left alone is one the stage has nothing to say about.
LEMMA SettledFacts ==
  ASSUME Coverage, NEW s, Settled(s), s \notin DOMAIN relocs_rva, s \in Nat
  PROVE  Unrelocatable(s) /\ (input.strict => ~DataTarget(Linked(s) - ImageBase))
BY LeftAloneFacts DEF Coverage, IInv, Settled

\* Every listed site is a natural number.
LEMMA ListedType ==
  ASSUME TypeOK
  PROVE  ListedSites \subseteq Nat
<1>1. DirectorySites \subseteq Nat
  <2>1. ASSUME NEW d \in input.reloc, NEW n \in DOMAIN d, NEW e \in DOMAIN d[n].entries
        PROVE  (d[n].page + d[n].entries[e].offset) % AddressSpace \in Nat
    <3>1. d \in Seq(BlockType)
      BY DEF TypeOK, IsInput
    <3>2. d[n] \in BlockType
      BY <3>1
    <3>3. d[n].page \in Nat /\ d[n].entries \in Seq(EntryType)
      BY <3>2 DEF BlockType
    <3>4. d[n].entries[e] \in EntryType
      BY <3>3
    <3>5. d[n].page + d[n].entries[e].offset \in Nat
      BY <3>3, <3>4 DEF EntryType
    <3> QED BY <3>5, AddressSpaceType, DivMod
  <2> QED BY <2>1 DEF DirectorySites
<1>2. ManifestSites \subseteq Nat
  BY DEF ManifestSites, TypeOK, IsInput
<1>3. ScanSites \subseteq Nat
  BY ConstantsAssumption DEF ScanSites, Rva
<1> QED BY <1>1, <1>2, <1>3 DEF ListedSites

\* At the end every site is settled: recorded or rightly left alone.
LEMMA SettledExactly == Coverage => SitesExact
<1>1. ASSUME Coverage, phase = "resolved"
      PROVE  DOMAIN relocs_rva = {s \in ListedSites : ~Unrelocatable(s)}
  <2>1. ASSUME NEW s \in DOMAIN relocs_rva PROVE s \in ListedSites /\ ~Unrelocatable(s)
    BY <1>1, RecordedRelocatable DEF Coverage, Rest, OnlyListed
  <2>2. ASSUME NEW s \in ListedSites, ~Unrelocatable(s) PROVE s \in DOMAIN relocs_rva
    <3>1. s \in Nat /\ Settled(s)
      BY <1>1, ListedType DEF Coverage, IInv, Rest, AllSettled
    <3> QED BY <1>1, <2>2, <3>1, SettledFacts
  <2> QED BY <2>1, <2>2
<1> QED BY <1>1 DEF SitesExact

\* A stage that succeeds has recorded the listed sites, all of them and no
\* other, but for those it has nothing to say about.
THEOREM SitesExactHolds == Spec => []SitesExact
BY SettledExactly, CoverageInductive, PTL

\* With --strict a recorded reference to data is to a definition.
LEMMA StrictRecorded ==
  ASSUME IInv, input.strict, NEW s \in DOMAIN relocs_rva, DataTarget(relocs_rva[s].target)
  PROVE  relocs_rva[s].kind = "ReviewedData"
<1> DEFINE r == relocs_rva[s]
           t == r.target
<1>1. t \in Nat /\ r \in Classified(t)
  BY RecordedFacts
<1>2. ~In(Text, t)
  BY <1>1, SectionsApart
<1>3. \E conjured : Classified(t) = OrConjured(Reviewed(t), conjured)
  BY <1>2 DEF Classified, DataTarget
<1>4. r \in Reviewed(t)
  BY <1>1, <1>3 DEF OrConjured, OrElse
<1> QED BY <1>4 DEF Reviewed, As

\* Nor does --strict let a reference to data be left alone.
LEMMA SettledStrictly == Coverage => StrictComplete
<1>1. ASSUME Coverage, phase = "resolved", input.strict, NEW s \in ListedSites,
             DataTarget(Linked(s) - ImageBase)
      PROVE  s \in DOMAIN relocs_rva /\ relocs_rva[s].kind = "ReviewedData"
  <2>1. s \in Nat /\ Settled(s) /\ IInv
    BY <1>1, ListedType DEF Coverage, IInv, Rest, AllSettled
  <2>2. s \in DOMAIN relocs_rva
    BY <1>1, <2>1, SettledFacts
  <2>3. Linked(s) - ImageBase = relocs_rva[s].target
    <3>1. Linked(s) = ImageBase + relocs_rva[s].target /\ relocs_rva[s].target \in Nat
      BY <2>1, <2>2, RecordedFacts
    <3> QED BY <3>1, ConstantsAssumption
  <2> QED BY <1>1, <2>1, <2>2, <2>3, StrictRecorded
<1> QED BY <1>1 DEF StrictComplete

\* --strict: a stage that succeeds leaves no reference to data that is not to
\* a definition of the manifest.
THEOREM StrictCompleteHolds == Spec => []StrictComplete
BY SettledStrictly, CoverageInductive, PTL

\* The stage stops a run only for what its message, or its assertion, is about.
THEOREM StopsForCauseHolds == Spec => []StopsForCause
<1>1. Coverage => StopsForCause
  BY DEF Coverage, Rest
<1> QED BY <1>1, CoverageInductive, PTL

\* At the end the symbol and the addend of a listed site that has an answer are
\* the address the linker wrote, if no other field lies over it.
LEMMA ListedRelinks ==
  ASSUME Coverage, AddendsRelink, phase = "resolved", NEW s \in ListedSites, ~Unrelocatable(s),
         \A o \in DOMAIN relocs_rva \ {s} : FieldAt(o) \cap FieldAt(s) = {}
  PROVE  /\ s \in DOMAIN relocs_rva
         /\ relocs_rva[s].base + FromBytes(Field(coff_data, s)) = Linked(s) - ImageBase
<1>1. s \in DOMAIN relocs_rva
  BY SettledExactly DEF SitesExact
<1>2. ImageBase + relocs_rva[s].base + FromBytes(Field(coff_data, s)) = Linked(s)
  BY <1>1 DEF AddendsRelink
<1>3. /\ IInv /\ s \in Nat /\ s + 4 <= ImageSize
      /\ relocs_rva[s].base \in Nat /\ Linked(s) \in Nat
  BY <1>1, RecordedFacts DEF Coverage, RelocType, Readable
<1>4. coff_data \in [0 .. ImageSize - 1 -> Byte] /\ ImageSize \in Nat /\ ImageBase \in Nat
  BY <1>3, ConstantsAssumption DEF IInv, TypeOK, Rva
<1>5. FromBytes(Field(coff_data, s)) \in Nat
  <2>1. FromBytes(Field(coff_data, s)) \in 0 .. AddressSpace - 1
    BY <1>3, <1>4, FieldType
  <2> QED BY <2>1, AddressSpaceType
<1> QED BY <1>1, <1>2, <1>3, <1>4, <1>5

\* At the end of a --strict stage a listed reference to data is against a
\* definition that covers it.
LEMMA ListedReviewed ==
  ASSUME Coverage, phase = "resolved", input.strict, NEW s \in ListedSites,
         DataTarget(Linked(s) - ImageBase)
  PROVE  /\ s \in DOMAIN relocs_rva /\ relocs_rva[s].kind = "ReviewedData"
         /\ \E d \in input.definitions :
              d.rva = relocs_rva[s].base /\ Covers(d, Linked(s) - ImageBase)
<1>1. s \in DOMAIN relocs_rva /\ relocs_rva[s].kind = "ReviewedData"
  BY SettledStrictly DEF StrictComplete
<1>2. IInv
  BY DEF Coverage
<1>3. Linked(s) - ImageBase = relocs_rva[s].target
  <2>1. /\ Linked(s) = ImageBase + relocs_rva[s].target /\ relocs_rva[s] \in RelocType
        /\ ImageBase \in Nat
    BY <1>1, <1>2, RecordedFacts, ConstantsAssumption
  <2>2. relocs_rva[s].target \in Nat
    BY <2>1 DEF RelocType
  <2> QED BY <2>1, <2>2
<1>4. DataTarget(relocs_rva[s].target)
  BY <1>3
<1>5. \E d \in input.definitions : d.rva = relocs_rva[s].base /\ Covers(d, relocs_rva[s].target)
  BY <1>1, <1>2, <1>4, RecordedReviewed DEF ReviewedExactly
<1> QED BY <1>1, <1>3, <1>5
-----------------------------------------------------------------------------
(* The stage implements its abstract specification.                        *)

\* The records agree with the abstract ledger, and at the end are all of it.
Agrees ==
  LET relocatable == {s \in ListedSites : Readable(s) /\ ~Unrelocatable(s)}
  IN  /\ \A s \in DOMAIN relocs_rva :
           s \in relocatable /\ ImageBase + relocs_rva[s].target = Linked(s)
      /\ phase = "resolved" => relocatable \subseteq DOMAIN relocs_rva

\* They do, in every state of a run.
LEMMA AgreesHolds == Coverage => Agrees
<1>1. ASSUME Coverage, NEW s \in DOMAIN relocs_rva
      PROVE  /\ s \in ListedSites /\ Readable(s) /\ ~Unrelocatable(s)
             /\ ImageBase + relocs_rva[s].target = Linked(s)
  <2>1. IInv /\ s \in ListedSites
    BY <1>1 DEF Coverage, Rest, OnlyListed
  <2> QED BY <2>1, RecordedFacts, RecordedRelocatable
<1>2. ASSUME Coverage, phase = "resolved", NEW s \in ListedSites, ~Unrelocatable(s)
      PROVE  s \in DOMAIN relocs_rva
  <2>1. s \in Nat /\ Settled(s)
    BY <1>2, ListedType DEF Coverage, IInv, Rest, AllSettled
  <2> QED BY <1>2, <2>1, SettledFacts
<1> QED BY <1>1, <1>2 DEF Agrees

\* A step records one site while its loop runs on, or records none; and the
\* stage does nothing once it is over.
LEMMA StepShape ==
  ASSUME TypeOK, [Next]_vars
  PROVE  /\ input' = input
         /\ \/ relocs_rva' = relocs_rva /\ (phase' = phase \/ ~Over)
            \/ /\ phase' = phase /\ ~Over
               /\ \E site, r : relocs_rva' = Insert(relocs_rva, site, r)
<1>1. CASE ResolveEntry \/ ResolveRow \/ Rediscover
  <2>1. ~Over /\ input' = input
    BY <1>1 DEF ResolveEntry, ResolveRow, Rediscover, Over, Failures
  <2>2. PICK site : (\E reason : Fail(reason)) \/ ResolveAbsoluteSite(site)
    BY <1>1 DEF ResolveEntry, ResolveRow, Rediscover
  <2>3. \/ relocs_rva' = relocs_rva
        \/ phase' = phase /\ \E r : relocs_rva' = Insert(relocs_rva, site, r)
    BY <2>2 DEF ResolveAbsoluteSite, Fail, Relocate, LeaveAlone
  <2> QED BY <2>1, <2>3
<1>2. CASE UseDirectory \/ UseManifest \/ UseScanOnly \/ RejectSources
           \/ OpenBlock \/ SkipEntry \/ FinishDirectory
  BY <1>2 DEF UseDirectory, UseManifest, UseScanOnly, RejectSources, OpenBlock,
    SkipEntry, FinishDirectory, Over, Failures
<1>3. CASE FinishManifest \/ ScanPast \/ NextSection \/ FinishScan \/ Stop \/ UNCHANGED vars
  BY <1>3 DEF FinishManifest, ScanPast, NextSection, FinishScan, Stop, vars, Over, Failures
<1> QED BY <1>1, <1>2, <1>3 DEF Next

\* Every step of the stage is a step of a resolution, or none.
LEMMA StepRefines ==
  ASSUME TypeOK, Agrees, Agrees', [Next]_vars
  PROVE  [Abstract!Next]_(Abstract!vars)
<1> DEFINE relocatable == {s \in ListedSites : Readable(s) /\ ~Unrelocatable(s)}
           linked == [s \in relocatable |-> Linked(s)]
           resolved == [s \in DOMAIN relocs_rva |-> ImageBase + relocs_rva[s].target]
           status == IF phase = "resolved" THEN "done"
                     ELSE IF phase \in Failures THEN "failed" ELSE "running"
<1>1. input' = input
  BY StepShape
<1>2. relocatable' = relocatable /\ \A s : Linked(s)' = Linked(s)
  BY <1>1, ListedConstant, CauseConstant, SiteConstant DEF Readable
<1>3. linked' = linked
  BY <1>2
<1>4. /\ \A s \in DOMAIN relocs_rva :
           s \in relocatable /\ ImageBase + relocs_rva[s].target = Linked(s)
      /\ \A s \in DOMAIN relocs_rva' :
           s \in relocatable /\ ImageBase + relocs_rva'[s].target = Linked(s)
      /\ phase' = "resolved" => relocatable \subseteq DOMAIN relocs_rva'
  BY <1>2 DEF Agrees
<1>5. ~Over <=> status = "running"
  BY DEF Over, Failures
<1>6. CASE relocs_rva' = relocs_rva
  <2>1. resolved' = resolved
    BY <1>6
  <2>2. CASE phase' = phase
    BY <1>3, <2>1, <2>2 DEF Abstract!vars
  <2>3. CASE ~Over
    <3>1. CASE phase' = "resolved"
      <4>1. resolved = linked
        BY <1>4, <1>6, <3>1
      <4>2. Abstract!Finish
        BY <1>3, <1>5, <2>1, <2>3, <3>1, <4>1 DEF Abstract!Finish
      <4> QED BY <4>2 DEF Abstract!Next
    <3>2. CASE phase' \in Failures
      <4>1. Abstract!GiveUp
        BY <1>3, <1>5, <2>1, <2>3, <3>2 DEF Abstract!GiveUp, Failures
      <4> QED BY <4>1 DEF Abstract!Next
    <3>3. CASE phase' # "resolved" /\ phase' \notin Failures
      <4>1. status' = status
        BY <1>5, <2>3, <3>3
      <4> QED BY <1>3, <2>1, <4>1 DEF Abstract!vars
    <3> QED BY <3>1, <3>2, <3>3
  <2> QED BY <1>6, <2>2, <2>3, StepShape
<1>7. ASSUME phase' = phase, ~Over, NEW site, NEW r, relocs_rva' = Insert(relocs_rva, site, r)
      PROVE  Abstract!Next
  <2>1. /\ DOMAIN relocs_rva' = DOMAIN relocs_rva \cup {site}
        /\ \A s \in DOMAIN relocs_rva \ {site} : relocs_rva'[s] = relocs_rva[s]
    BY <1>7 DEF Insert
  <2>2. site \in DOMAIN linked /\ resolved'[site] = linked[site]
    BY <1>4, <2>1
  <2>3. resolved' = Insert(resolved, site, linked[site])
    BY <2>1, <2>2 DEF Insert
  <2>4. status' = status /\ status = "running"
    BY <1>5, <1>7
  <2>5. Abstract!Resolve
    BY <1>3, <2>2, <2>3, <2>4 DEF Abstract!Resolve, Abstract!Insert, Insert
  <2> QED BY <2>5 DEF Abstract!Next
<1> QED BY <1>6, <1>7, StepShape

\* Every run of the stage that ends is a resolution of the listed sites.  That
\* a run ends is liveness, and a hypothesis here.
THEOREM ImplementsResolutionHolds == Spec => (Terminates => ImplementsResolution)
<1>1. Init => Abstract!Init
  BY DEF Init, Abstract!Init, Abstract!EmptyMap, EmptyMap, Failures
<1>2. Coverage => TypeOK
  BY DEF Coverage, IInv
<1>3. TypeOK /\ Agrees /\ Agrees' /\ [Next]_vars => [Abstract!Next]_(Abstract!vars)
  BY StepRefines
<1>4. Over <=> (IF phase = "resolved" THEN "done"
                ELSE IF phase \in Failures THEN "failed" ELSE "running") # "running"
  BY DEF Over, Failures
<1> QED
  BY <1>1, <1>2, <1>3, <1>4, AgreesHolds, CoverageInductive, PTL
    DEF Spec, Terminates, ImplementsResolution, Abstract!Spec, Abstract!Safety
=============================================================================
