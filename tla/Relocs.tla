------------------------------- MODULE Relocs -------------------------------
(***************************************************************************)
(* Absolute relocations: src/src/relocs.rs.                                *)
(*                                                                         *)
(* The delinker undoes what the linker did to every absolute address of an *)
(* image.  It visits the sites that hold one -- the entries of the .reloc  *)
(* directory, or, for a stripped image, the rows of a reviewed manifest    *)
(* and the fields a scan recognises -- and resolves each: it classifies    *)
(* the address, writes the addend over it in coff_data and records the     *)
(* relocation in relocs_rva.                                               *)
(*                                                                         *)
(* The loops are unrolled into one step per block, entry, row and scanned  *)
(* byte, so that every intermediate state of the two shared structures is  *)
(* a state of the model.  An input is a whole run's worth of files; it is  *)
(* chosen at the start and never changes.                                  *)
(***************************************************************************)
EXTENDS Integers, Bytes, Lookup, Sequences

CONSTANTS
  ImageBase,       \* where the image was linked to load
  ImageSize,       \* `size_of_image`, the length of the mapped image
  UsizeMax,        \* the greatest usize
  Text, Rdata, Data, \* the sections of `Env`, records [rva, size]
  Inputs           \* the images, PDBs, manifests, options and builds to consider

Rva == 0 .. ImageSize - 1

\* `(section.rva..section.rva + section.size).contains(&rva)`
In(section, rva) == section.rva <= rva /\ rva < section.rva + section.size

\* A section lies in the address space.
SectionType ==
  {s \in [rva : 0 .. AddressSpace, size : 0 .. AddressSpace] :
     ImageBase + s.rva + s.size <= AddressSpace}

Disjoint(s, t) == s.rva + s.size <= t.rva \/ t.rva + t.size <= s.rva

\* An entry of a directory block: its type is HIGHLOW or not, its offset is
\* from the page of its block.
EntryType == [highlow : BOOLEAN, offset : Nat]

\* A directory block.  "stop": its block_size is below the header's 8 bytes.
\* "torn": its body reaches past the directory or ends in half an entry.
BlockType ==
  [shape : {"whole", "stop", "torn"}, page : Nat, entries : Seq(EntryType)]

IsInput(i) ==
  /\ i.exe \in [Rva -> Byte]
  /\ i.functions \subseteq Nat
  /\ i.constants \subseteq Nat
  /\ i.statics \subseteq Nat
  /\ DOMAIN i.strings \subseteq Nat          \* start -> length
  /\ i.strings \in [DOMAIN i.strings -> Nat]
  /\ \A d \in i.definitions : d.rva \in Nat /\ d.size \in Nat \ {0}
  /\ NonOverlapping(i.definitions)
  /\ i.strict \in BOOLEAN
  /\ AtMostOne(i.reloc) /\ \A b \in i.reloc : b \in Seq(BlockType)
  /\ AtMostOne(i.manifest) /\ \A m \in i.manifest : m \in Seq(Nat)
  /\ i.rediscover \in BOOLEAN
  /\ i.bound \in Nat
  /\ i.overflow_checks \in BOOLEAN   \* a dev build panics, a release build wraps

ASSUME ConstantsAssumption ==
  /\ ImageBase \in Nat
  /\ ImageSize \in Nat
  /\ ImageBase + ImageSize <= AddressSpace
  /\ UsizeMax \in Nat
  /\ Text \in SectionType /\ Rdata \in SectionType /\ Data \in SectionType
  /\ Disjoint(Text, Rdata) /\ Disjoint(Text, Data) /\ Disjoint(Rdata, Data)
  /\ \A i \in Inputs : IsInput(i)

VARIABLES
  input,       \* what the run was given; constant
  coff_data,   \* the image being rewritten
  relocs_rva,  \* site -> relocation
  phase,       \* which loop is running, or how the stage ended
  blocks,      \* directory blocks not yet read
  page,        \* `page_rva` of the block being read
  entries,     \* its entries not yet read
  sites,       \* manifest rows not yet read
  scan         \* [section, site]: the scan's position

vars ==
  <<input, coff_data, relocs_rva, phase, blocks, page, entries, sites, scan>>

Kinds ==
  {"Function", "ReviewedData", "ConjuredString", "ConjuredConstant", "ConjuredStatic"}

\* A RelocKind: the symbol it names, by its RVA, and the address it stands
\* for (which the code keeps only where the materializer needs it again).
RelocType == [kind : Kinds, base : Nat, target : Nat]

Failures ==
  {"redundant recovery", "no relocations", "site outside image",
   "uncovered data", "panic"}

Phases == {"select", "directory", "manifest", "scan", "resolved"} \cup Failures
-----------------------------------------------------------------------------
(* The target of a site and its classification.                            *)

\* A site is read with a slice of four bytes, which must lie in the image.
Readable(site) == site + 4 <= ImageSize

\* Mutant: read from the image being rewritten.
TargetVaRewritten(site) == FromBytes(Field(coff_data, site))

TargetVa(site) == FromBytes(Field(input.exe, site))

\* `(target_va - env.image_base).to_usize()` on u32
TargetRva(site) == (TargetVa(site) + (AddressSpace - ImageBase)) % AddressSpace

As(kind, bases, target) ==
  {[kind |-> kind, base |-> b, target |-> target] : b \in bases}

\* The definition of the data manifest whose extent holds the target.
Reviewed(target) ==
  As("ReviewedData", {d.rva : d \in Owner(input.definitions, target)}, target)

\* The string whose bytes hold the target, else the nearest constant below.
ConjuredRdata(target) ==
  OrElse(
    As("ConjuredString",
       {s \in Predecessor(DOMAIN input.strings, target) :
          target - s < input.strings[s]},
       target),
    As("ConjuredConstant", Predecessor(input.constants, target), target))

ConjuredStatic(target) ==
  As("ConjuredStatic", Predecessor(input.statics, target), target)

\* What the manifest does not cover is reconstructed, unless --strict.
OrConjured(reviewed, conjured) ==
  OrElse(reviewed, IF input.strict THEN {} ELSE conjured)

\* The relocation of a target, if it has one.
Classified(target) ==
  IF In(Text, target)
  THEN As("Function", Predecessor(input.functions, target), target)
  ELSE IF In(Rdata, target)
  THEN OrConjured(Reviewed(target), ConjuredRdata(target))
  ELSE IF In(Data, target)
  THEN OrConjured(Reviewed(target), ConjuredStatic(target))
  ELSE {}

\* Mutant: the refusal is left out of the .data branch.
UncoveredRdata(target) ==
  /\ input.strict /\ ~In(Text, target) /\ In(Rdata, target)
  /\ Owner(input.definitions, target) = {}

\* Mutant: data that cannot be conjured is refused without --strict as well.
UncoveredAlways(target) ==
  /\ ~In(Text, target) /\ (In(Rdata, target) \/ In(Data, target))
  /\ (input.strict /\ Owner(input.definitions, target) = {}) \/ Classified(target) = {}

\* --strict refuses a data target no definition covers.
Uncovered(target) ==
  /\ input.strict
  /\ ~In(Text, target) /\ (In(Rdata, target) \/ In(Data, target))
  /\ Owner(input.definitions, target) = {}

\* `expect("all function relocs to be named")` and
\* `unreachable!("All constants must be named")`.
Unnamed(target) ==
  /\ In(Text, target) \/ (In(Rdata, target) /\ ~Uncovered(target))
  /\ Classified(target) = {}

\* The subtraction of the image base, checked in a dev build, or a slice out
\* of the image.
Faults(site) ==
  Readable(site) => input.overflow_checks /\ TargetVa(site) < ImageBase
-----------------------------------------------------------------------------
(* `resolve_absolute_site`: the outcomes of one site.  The caller names     *)
(* the phase the loop is left in when the site does not fail.               *)

Fail(reason) == phase' = reason /\ UNCHANGED <<coff_data, relocs_rva>>

\* Mutant: the field is cleared before the static is found to be missing.
LeaveZeroed(site) ==
  /\ Classified(TargetRva(site)) = {}
  /\ ~Unnamed(TargetRva(site)) /\ ~Uncovered(TargetRva(site))
  /\ coff_data' = Patch(coff_data, site, 0)
  /\ UNCHANGED <<phase, relocs_rva>>

\* A site that targets no section, or data below every static, is left alone.
LeaveAlone(site) ==
  /\ Classified(TargetRva(site)) = {}
  /\ ~Unnamed(TargetRva(site)) /\ ~Uncovered(TargetRva(site))
  /\ UNCHANGED <<phase, coff_data, relocs_rva>>

\* Mutant: the target's RVA is written in place of its addend.
RelocateWhole(site) ==
  \E r \in Classified(TargetRva(site)) :
    /\ coff_data' = Patch(coff_data, site, r.target)
    /\ relocs_rva' = Insert(relocs_rva, site, r)
    /\ UNCHANGED phase

\* Mutant: a relocation takes the place of those whose fields it overlaps.
RelocateOver(site) ==
  \E r \in Classified(TargetRva(site)) :
    /\ coff_data' = Patch(coff_data, site, r.target - r.base)
    /\ LET apart == {o \in DOMAIN relocs_rva : FieldAt(o) \cap FieldAt(site) = {}}
       IN  relocs_rva' = Insert([o \in apart |-> relocs_rva[o]], site, r)
    /\ UNCHANGED phase

Relocate(site) ==
  \E r \in Classified(TargetRva(site)) :
    /\ coff_data' = Patch(coff_data, site, r.target - r.base)
    /\ relocs_rva' = Insert(relocs_rva, site, r)
    /\ UNCHANGED phase

ResolveAbsoluteSite(site) ==
  \/ Faults(site) /\ Fail("panic")
  \/ /\ ~Faults(site)
     /\ \/ Relocate(site)
        \/ LeaveAlone(site)
        \/ Uncovered(TargetRva(site)) /\ Fail("uncovered data")
        \/ Unnamed(TargetRva(site)) /\ Fail("panic")
-----------------------------------------------------------------------------
(* `resolve_absolute_relocations`: the choice of the site source.           *)

Recovery == input.manifest # {} \/ input.rediscover

Init ==
  /\ input \in Inputs
  /\ coff_data = input.exe
  /\ relocs_rva = EmptyMap
  /\ phase = "select"
  /\ blocks = <<>> /\ page = 0 /\ entries = <<>>
  /\ sites = <<>>
  /\ scan = [section |-> 1, site |-> Text.rva]

UseDirectory ==
  /\ phase = "select" /\ ~Recovery
  /\ \E directory \in input.reloc : blocks' = directory
  /\ phase' = "directory"
  /\ UNCHANGED <<input, coff_data, relocs_rva, page, entries, sites, scan>>

\* Manifest sites come first; the scan then fills the rest.
UseManifest ==
  /\ phase = "select" /\ input.reloc = {}
  /\ \E manifest \in input.manifest : sites' = manifest
  /\ phase' = "manifest"
  /\ UNCHANGED <<input, coff_data, relocs_rva, blocks, page, entries, scan>>

UseScanOnly ==
  /\ phase = "select" /\ input.reloc = {} /\ input.manifest = {} /\ input.rediscover
  /\ phase' = "scan"
  /\ UNCHANGED <<input, coff_data, relocs_rva, blocks, page, entries, sites, scan>>

RejectSources ==
  /\ phase = "select"
  /\ \/ input.reloc # {} /\ Recovery /\ phase' = "redundant recovery"
     \/ input.reloc = {} /\ ~Recovery /\ phase' = "no relocations"
  /\ UNCHANGED <<input, coff_data, relocs_rva, blocks, page, entries, sites, scan>>
-----------------------------------------------------------------------------
(* `resolve_reloc_directory`                                                *)

\* Mutant: a block_size of zero is taken for an empty block, which it steps
\* over by zero bytes.
OpenEmptyBlock ==
  /\ phase = "directory" /\ entries = <<>> /\ blocks # <<>>
  /\ LET b == Head(blocks)
     IN  /\ phase' = IF b.shape = "torn" THEN "panic" ELSE "directory"
         /\ page' = b.page
         /\ entries' = IF b.shape = "whole" THEN b.entries ELSE <<>>
         /\ blocks' = IF b.shape = "stop" THEN blocks ELSE Tail(blocks)
  /\ UNCHANGED <<input, coff_data, relocs_rva, sites, scan>>

\* A block_size below the header's own size ends the walk.
OpenBlock ==
  /\ phase = "directory" /\ entries = <<>> /\ blocks # <<>>
  /\ LET b == Head(blocks)
     IN  /\ phase' = CASE b.shape = "whole" -> "directory"
                       [] b.shape = "stop"  -> "resolved"
                       [] b.shape = "torn"  -> "panic"
         /\ page' = b.page
         /\ entries' = IF b.shape = "whole" THEN b.entries ELSE <<>>
  /\ blocks' = Tail(blocks)
  /\ UNCHANGED <<input, coff_data, relocs_rva, sites, scan>>

SkipEntry ==
  /\ phase = "directory" /\ entries # <<>> /\ ~Head(entries).highlow
  /\ entries' = Tail(entries)
  /\ UNCHANGED <<input, coff_data, relocs_rva, phase, blocks, page, sites, scan>>

\* `page_rva + u32::from(entry & 0x0FFF)`
EntrySite(e) == (page + e.offset) % AddressSpace

ResolveEntry ==
  /\ phase = "directory" /\ entries # <<>> /\ Head(entries).highlow
  /\ \/ /\ input.overflow_checks /\ page + Head(entries).offset >= AddressSpace
        /\ Fail("panic")
     \/ /\ ~(input.overflow_checks /\ page + Head(entries).offset >= AddressSpace)
        /\ ResolveAbsoluteSite(EntrySite(Head(entries)))
  /\ entries' = Tail(entries)
  /\ UNCHANGED <<input, blocks, page, sites, scan>>

FinishDirectory ==
  /\ phase = "directory" /\ entries = <<>> /\ blocks = <<>>
  /\ phase' = "resolved"
  /\ UNCHANGED <<input, coff_data, relocs_rva, blocks, page, entries, sites, scan>>
-----------------------------------------------------------------------------
(* `resolve_manifest_sites`                                                 *)

\* `site + 4 > exe_data.len()`: at the end of usize the sum overflows, which
\* panics in a dev build, and in a release build passes the test and panics in
\* the slice.
RowRefusal(site) ==
  IF site + 4 > UsizeMax THEN "panic" ELSE "site outside image"

ResolveRow ==
  /\ phase = "manifest" /\ sites # <<>>
  /\ \/ ~Readable(Head(sites)) /\ Fail(RowRefusal(Head(sites)))
     \/ Readable(Head(sites)) /\ ResolveAbsoluteSite(Head(sites))
  /\ sites' = Tail(sites)
  /\ UNCHANGED <<input, blocks, page, entries, scan>>

\* Mutant: a manifest is taken to make the scan redundant.
FinishManifestAlone ==
  /\ phase = "manifest" /\ sites = <<>>
  /\ phase' = "resolved"
  /\ UNCHANGED <<input, coff_data, relocs_rva, blocks, page, entries, sites, scan>>

FinishManifest ==
  /\ phase = "manifest" /\ sites = <<>>
  /\ phase' = IF input.rediscover THEN "scan" ELSE "resolved"
  /\ UNCHANGED <<input, coff_data, relocs_rva, blocks, page, entries, sites, scan>>
-----------------------------------------------------------------------------
(* `rediscover_absolute_sites_from_pdb`                                     *)

Scanned == <<Text, Rdata, Data>>

\* The symbol starts of every table, in one list.
Starts ==
  input.functions \cup input.statics \cup input.constants \cup DOMAIN input.strings

\* `rediscovered_target_is_known`: the nearest start, or within the bound of it.
KnownTarget(target) ==
  \E s \in Predecessor(Starts, target) : target = s \/ target - s < input.bound

\* The field is trusted as an address.
Trusted(site) ==
  TargetVa(site) >= ImageBase /\ KnownTarget(TargetVa(site) - ImageBase)

\* The field at the scan's position lies within its section and the image.
FieldLeft ==
  LET section == Scanned[scan.section]
  IN  scan.site + 4 <= section.rva + section.size /\ Readable(scan.site)

Fresh(site) == Trusted(site) /\ site \notin DOMAIN relocs_rva

\* Mutant: only every fourth byte of a section is looked at.
AdvanceAligned == scan' = [scan EXCEPT !.site = scan.site + 4]

Advance == scan' = [scan EXCEPT !.site = scan.site + 1]

ScanPast ==
  /\ phase = "scan" /\ FieldLeft /\ ~Fresh(scan.site)
  /\ Advance
  /\ UNCHANGED <<input, coff_data, relocs_rva, phase, blocks, page, entries, sites>>

Rediscover ==
  /\ phase = "scan" /\ FieldLeft /\ Fresh(scan.site)
  /\ ResolveAbsoluteSite(scan.site)
  /\ Advance
  /\ UNCHANGED <<input, blocks, page, entries, sites>>

NextSection ==
  /\ phase = "scan" /\ ~FieldLeft /\ scan.section < 3
  /\ scan' = [section |-> scan.section + 1, site |-> Scanned[scan.section + 1].rva]
  /\ UNCHANGED <<input, coff_data, relocs_rva, phase, blocks, page, entries, sites>>

FinishScan ==
  /\ phase = "scan" /\ ~FieldLeft /\ scan.section = 3
  /\ phase' = "resolved"
  /\ UNCHANGED <<input, coff_data, relocs_rva, blocks, page, entries, sites, scan>>
-----------------------------------------------------------------------------
\* The stage has returned, or has failed and taken the run with it.
Over == phase \in {"resolved"} \cup Failures

Stop == Over /\ UNCHANGED vars

Next ==
  \/ UseDirectory \/ UseManifest \/ UseScanOnly \/ RejectSources
  \/ OpenBlock \/ SkipEntry \/ ResolveEntry \/ FinishDirectory
  \/ ResolveRow \/ FinishManifest
  \/ ScanPast \/ Rediscover \/ NextSection \/ FinishScan
  \/ Stop

\* One thread runs the loops to their end.
Spec == Init /\ [][Next]_vars /\ WF_vars(Next)
-----------------------------------------------------------------------------
(* Properties.  They are stated over the linked image and the manifest, not *)
(* with the operators the stage classifies by.                              *)

\* The type invariant.
TypeOK ==
  /\ IsInput(input)
  /\ coff_data \in [Rva -> Byte]
  /\ DOMAIN relocs_rva \subseteq {s \in Nat : Readable(s)}
  /\ relocs_rva \in [DOMAIN relocs_rva -> RelocType]
  /\ phase \in Phases
  /\ blocks \in Seq(BlockType) /\ page \in Nat
  /\ entries \in Seq(EntryType)
  /\ sites \in Seq(Nat)
  /\ scan \in [section : 1 .. 3, site : Nat]

\* The address the linker wrote at a site.
Linked(site) == FromBytes(Field(input.exe, site))

DataTarget(rva) == In(Rdata, rva) \/ In(Data, rva)

Covers(d, rva) == d.rva <= rva /\ rva < d.rva + d.size

\* Every relocation stands for the address the linker wrote at its site,
\* whatever has been written over that site, or a byte of it, since: the code
\* classifies from exe_data while it rewrites coff_data.
ClassifiedFromLinkedImage ==
  \A s \in DOMAIN relocs_rva :
    /\ Linked(s) = ImageBase + relocs_rva[s].target
    /\ relocs_rva[s].base <= relocs_rva[s].target
    /\ In(Text, relocs_rva[s].target) <=> relocs_rva[s].kind = "Function"

\* A linker that places every symbol where it was adds the addend back to the
\* address it had: the rewritten field and the recorded symbol together say
\* what the field said.  Sites whose fields overlap are exempt.
AddendsRelink ==
  \A s \in DOMAIN relocs_rva :
    (\A o \in DOMAIN relocs_rva \ {s} : FieldAt(o) \cap FieldAt(s) = {})
      => ImageBase + relocs_rva[s].base + FromBytes(Field(coff_data, s)) = Linked(s)

\* Only the fields of recorded sites are rewritten: what is copied into an
\* object without a relocation is what the linker left.
OnlyFieldsRewritten ==
  \A rva \in Rva :
    coff_data[rva] # input.exe[rva] => \E s \in DOMAIN relocs_rva : rva \in FieldAt(s)

\* A data target is relocated against a definition of the manifest exactly
\* when one covers it, and against that one: the binary search of
\* `owner_and_addend_for_rva` loses and misplaces none.
ReviewedExactly ==
  \A s \in DOMAIN relocs_rva :
    LET r == relocs_rva[s]
    IN  DataTarget(r.target) =>
          (r.kind = "ReviewedData" <=> \E d \in input.definitions : Covers(d, r.target))
          /\ (r.kind = "ReviewedData" =>
                \E d \in input.definitions : d.rva = r.base /\ Covers(d, r.target))

\* The sites the directory lists: the walk ends at a block too small to be one.
DirectorySites ==
  UNION {UNION {{(b[n].page + b[n].entries[e].offset) % AddressSpace :
                   e \in {x \in DOMAIN b[n].entries : b[n].entries[x].highlow}} :
                  n \in {m \in DOMAIN b : \A k \in 1 .. m : b[k].shape = "whole"}} :
           b \in input.reloc}

ManifestSites == UNION {{m[n] : n \in DOMAIN m} : m \in input.manifest}

\* The fields a scan must find: those of the three sections that hold an
\* address in the window of some symbol start.
ScanSites ==
  {s \in Rva :
     /\ input.rediscover
     /\ \E section \in {Text, Rdata, Data} :
          section.rva <= s /\ s + 4 <= section.rva + section.size
     /\ Readable(s)
     /\ \E start \in Starts :
          \/ Linked(s) = ImageBase + start
          \/ ImageBase + start <= Linked(s) /\ Linked(s) < ImageBase + start + input.bound}

ListedSites == DirectorySites \cup ManifestSites \cup ScanSites

\* A site whose target the stage has nothing to say about: outside the three
\* sections, or data below every static and every definition.
Unrelocatable(site) ==
  LET t == Linked(site) - ImageBase
  IN  /\ ~In(Text, t) /\ ~In(Rdata, t)
      /\ In(Data, t) => /\ \A x \in input.statics : x > t
                        /\ \A d \in input.definitions : ~Covers(d, t)

\* A stage that succeeds has recorded the listed sites, all of them and no
\* other, in whatever order and however often they were visited.
SitesExact ==
  phase = "resolved" =>
    DOMAIN relocs_rva = {s \in ListedSites : ~Unrelocatable(s)}

\* --strict: a stage that succeeds leaves no reference to data that is not to
\* a definition of the manifest, neither conjured nor raw.
StrictComplete ==
  (phase = "resolved" /\ input.strict) =>
    \A s \in ListedSites :
      DataTarget(Linked(s) - ImageBase) =>
        s \in DOMAIN relocs_rva /\ relocs_rva[s].kind = "ReviewedData"

\* A listed reference to data that no definition covers.
UncoveredListed ==
  \E s \in {x \in ListedSites : Readable(x)} :
    LET t == Linked(s) - ImageBase
    IN  DataTarget(t) /\ \A d \in input.definitions : ~Covers(d, t)

\* A directory that cannot be walked in this build.
BrokenDirectory ==
  \E b \in input.reloc : \E n \in DOMAIN b :
    \/ b[n].shape = "torn"
    \/ /\ input.overflow_checks
       /\ \E e \in DOMAIN b[n].entries :
            b[n].page + b[n].entries[e].offset >= AddressSpace

\* A listed site that cannot be read, or holds an address without a name.
UnresolvableListed ==
  \E s \in ListedSites :
    Readable(s) =>
      LET t == Linked(s) - ImageBase
      IN  \/ t < 0 /\ input.overflow_checks
          \/ In(Text, t) /\ \A f \in input.functions : f > t
          \/ In(Rdata, t) /\ \A c \in input.constants : c > t

\* The stage stops a run only for what its message, or its assertion, is about:
\* a site that is listed and asks for it, whichever came first.
StopsForCause ==
  /\ phase = "redundant recovery" => input.reloc # {}
  /\ phase = "no relocations" => input.reloc = {} /\ ListedSites = {}
  /\ phase = "site outside image" => \E s \in ManifestSites : ~Readable(s)
  /\ phase = "uncovered data" => input.strict /\ UncoveredListed
  /\ phase = "panic" => BrokenDirectory \/ UnresolvableListed

\* The stage is a resolution of the listed sites: the three loops, and the
\* image they rewrite, are one way of doing it.
Abstract ==
  INSTANCE Resolution WITH
    linked <- [s \in {t \in ListedSites : Readable(t) /\ ~Unrelocatable(t)} |-> Linked(s)],
    resolved <- [s \in DOMAIN relocs_rva |-> ImageBase + relocs_rva[s].target],
    status <- IF phase = "resolved" THEN "done"
              ELSE IF phase \in Failures THEN "failed" ELSE "running"

ImplementsResolution == Abstract!Spec

\* A relocation, once recorded, stands: a site met again, in the directory or
\* by the scan, is the same relocation.
RecordsStand ==
  [][\A s \in DOMAIN relocs_rva :
       s \in DOMAIN relocs_rva' /\ relocs_rva'[s] = relocs_rva[s]]_vars

\* The stage ends, whatever block sizes the directory holds.
Terminates == <>Over
-----------------------------------------------------------------------------
(* What the documentation says of recovery, and the code does not do.       *)

\* README: manifest sites are "Authoritative", and the scan "fills only the
\* sites the manifest omits": it leaves what a manifest site says alone.  The
\* scan skips a site only if it is recorded itself, so it rewrites the bytes
\* of a manifest site that its own false hit overlaps.
ManifestAuthoritative ==
  \A s \in ManifestSites \cap DOMAIN relocs_rva :
    (\A o \in ManifestSites \ {s} : FieldAt(o) \cap FieldAt(s) = {})
      => ImageBase + relocs_rva[s].base + FromBytes(Field(coff_data, s)) = Linked(s)

\* README: an address is trusted within the bound of "the nearest known
\* symbol start S", and "far off / no nearby symbol" is rejected: the symbol
\* a rediscovered site is relocated against is that near.  The code trusts a
\* target for one symbol and relocates it against another, the nearest of the
\* table its section is looked up in, at any distance.
RediscoveredIsNear ==
  \A s \in DOMAIN relocs_rva \ (DirectorySites \cup ManifestSites) :
    relocs_rva[s].kind # "ReviewedData" =>
      \/ relocs_rva[s].target = relocs_rva[s].base
      \/ relocs_rva[s].target - relocs_rva[s].base < input.bound

\* relocs.rs: `unreachable!("All constants must be named")`, in a scan that is
\* "Best-effort": a false hit is at worst a false relocation.  A hit trusted
\* for the string, or the function, before it reaches the panic if no constant
\* lies below.
ScanNeverPanics ==
  phase = "panic" => ~(input.rediscover /\ sites = <<>> /\ scan.site > Text.rva)
=============================================================================
