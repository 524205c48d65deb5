# Verification of vostok-delinker

Vostok takes a linked 32-bit PE image and its PDB and gives back one COFF object
per source file. This directory holds TLA+ models of what it does, the TLC
configurations that check them and the TLAPS proofs of their main theorems.
Everything is translated from `src/` (paths below are relative to the
repository's root); `PROJECT.json` maps each definition to the lines it models.

    tlc -config MCRelocs.cfg MCRelocs      # check a model
    tlapm RelocsProofs.tla                 # check a proof

## The system

The program is one thread that runs one pipeline to its end
(`process_executable`, src/main.rs). A stage returns a value, fails with an error
that ends the run, or panics. What is hard about it is not concurrency but the
order of many small updates of a few shared structures.

| component | state | operations | what makes it correct |
|---|---|---|---|
| environment, `Env::build` (main.rs) | sections, image base; constant | read headers | -- |
| PDB symbols (pdb_symbols.rs) | `functions`, `strings`, `constants`, `statics`, by RVA | global table pass, deferred data symbols, module pass | the name an address ends with follows the stated preferences |
| data manifest (data_manifest.rs) | definitions, ascending | parse, owner of an RVA, emission order | no overlap; an RVA has the owner that covers it |
| reloc manifest (reloc_manifest.rs) | sites, ascending | parse | unique sites |
| absolute relocations (relocs.rs) | `coff_data`, `relocs_rva` | choose a source; walk the directory, the manifest, the scan; resolve a site | the recorded symbol and the addend say what the linked field said; nothing else is rewritten; every listed site is resolved |
| object files (object_files.rs) | `objects` (sections, symbols, relocations, `undefined_symbols`), a growing `relocs_rva`, `visited` | add definitions, relocations of definitions, branches, functions, copies | allocations do not collide; every site of an emitted range has its relocation; chains of copies end |
| function location (object_files.rs) | none | pure | a function goes to its own object |
| symbol matcher (symbol_matcher.rs) | recorded choices | record, load, pick | two images agree on folded names where they can |
| output (object_files.rs, main.rs) | files | write objects, write the symbol map | complete output, or a failed run that says so |
| utilities, examples | -- | -- | -- |

Interaction: the PDB tables and the manifests feed the relocation stage, which
hands the rewritten image and the map of relocations to the object stage; that
stage extends the map with the branches it decodes while it consumes it. Objects
and the symbol map are written last, and the map is read by another run, of
another image.

What is hard here, line by line, is the `hazards` list of PROJECT.json: sites that
overlap or repeat while the image is being rewritten; half-open extents and
bytewise scans at their edges; a check made with one table and a use with
another; subtractions that wrap in one build and panic in another; recursion over
cyclic pointers; a map of relocations that is extended while it is read; symbols
referred to before they are defined; several kinds of symbols that share names
in one index.

## Modules

| module | models |
|---|---|
| `Bytes` | four-byte little-endian fields; `Radix` is the number of values of a byte |
| `Lookup` | the ordered-map lookups; an optional result is a set of at most one element |
| `Layout` | where definitions are placed in the sections of objects: the arithmetic of `ObjectFile::empty` and `add_data_definition`, for `Manifests` and `ObjectFiles` |
| `Manifests` | data_manifest.rs and reloc_manifest.rs |
| `PdbSymbols` | pdb_symbols.rs |
| `Relocs` | relocs.rs |
| `Resolution` | what relocs.rs promises: the abstract specification `Relocs` implements |
| `ObjectFiles` | `ObjectFiles::parse` and all it calls in object_files.rs |
| `Pipeline` | `process_executable` up to the objects: `Manifests`, `Relocs` and `ObjectFiles` composed |
| `SymbolMatcher` | symbol_matcher.rs, as operators |
| `Delinker` | successive runs of the program: the matcher, `ObjectFiles::write`, the symbol map, the files left on disk |
| `MC...` | inputs for TLC |
| `OrderProofs` | lemmas: least and greatest elements, induction, lookups, the ends of sections |
| `RelocsProofs`, `RelocsCoverage` | theorems about `Relocs`: what is recorded; that all of it is, and the refinement |
| `ManifestsProofs`, `PdbSymbolsProofs`, `ObjectFilesProofs`, `DelinkerProofs` | theorems about these modules |
| `PipelineProofs` | theorems about `Pipeline`, from instances of the proof modules of its three stages |

### Manifests

A behaviour loads both manifests, in the order of `process_executable`. Both parsers
are one loop over lines, so they share the actions `OpenData`/`OpenRelocs`,
`SkipLine`, `ReadHeader`, `RefuseLine`, `RefuseHeaderless`; what a row comes to is
`KeepDefinition`, `RefuseDefinition`, `KeepSite`, `RefuseSite`; the sort and the
test of neighbours are `FinishData`, `FinishRelocs`. A field that does not parse or
does not fit in a usize is the empty set, so the checks of a row are one
set, `Parsed`, of at most one definition. `OwnerOf` and `EmissionOrders` are what later
stages ask of the result: the binary search is its partition point, and an unstable
sort any order its keys allow.

- `DefinitionsApart`: a loaded manifest ascends and no extent reaches into *any*
  other. It is what `Relocs` assumes of its definitions.
- `RefusedForCause`: a data manifest is refused only for a reason the documented format
  gives, whatever the order of its rows.
- `OwnerCovers`: the binary search finds the definition that covers an address.
- `CandidateLayoutEmitted`: candidate offsets that can be laid out are where the
  definitions are placed, in any order the sort may leave. Placing is that of the
  objects (`Layout`), so with `--pad-empty-rdata` the offsets of .rdata must leave room
  for its four bytes (src/src/object_files.rs:229). It holds beside definitions with an
  open offset only if these lie at RVAs above the section's offsets: the sort compares
  offsets with RVAs.
- `SitesAreTheRows`: the sites are those of the rows, ascending, each once.

### PdbSymbols

A behaviour is one `PdbSymbols::parse`: `todo` is the stream being read, the global
table and then the symbols of all modules; the four tables and the two deferred lists
are those of the code, and each arm of its two matches is an action (`AddFunction`,
`AddString`, `AddConstant`, `AddStatic`, `Defer`, `AddDeferred`, `AddFunctionSymbol`,
`AddDataSymbol`, the asserts and the skips). A symbol has a name as a model value
and whether that demangles to a string literal, to something else (the `unreachable!`
of src/src/pdb_symbols.rs:75) or not at all (the `?` of line 73); mangling is left out.

- `DataNamesPreferred`: every data address ends with the name the comments prefer,
  computed from the streams as a whole.
- `FoldedNamesComplete`: a folded function keeps all its public names in order, and a
  module's name never joins a group.
- `StopsForCause`: parsing panics only for what the asserts and the two `unreachable!`
  say cannot be: a function outside .text, a repeated string or static, a literal's
  name that is no string's, a public symbol in a module. A repeated constant never
  stops it.

### Relocs

A behaviour is one call of `resolve_absolute_relocations`. The `input` (image,
tables, manifests, options, build profile) is chosen at the start; `coff_data` and
`relocs_rva` are the two structures of the code, and `phase` names the loop that
runs or the way the stage ended. The loops are unrolled: `OpenBlock`, `SkipEntry`,
`ResolveEntry`, `FinishDirectory` for the directory; `ResolveRow`,
`FinishManifest` for the manifest; `ScanPast`, `Rediscover`, `NextSection`,
`FinishScan` for the scan; each resolves a site through `ResolveAbsoluteSite`, which
has one disjunct per outcome of `resolve_absolute_site`. `Classified` is its
`match`. `IsInput` says what the earlier stages guarantee: the tables are maps by
RVA, the definitions do not overlap.

A relocation is a kind, the RVA of the symbol it names and its target. Names are
left out: a symbol is its RVA. The directory is a sequence of blocks that are
whole, too small to be one ("stop") or cut short ("torn"). `overflow_checks`
distinguishes the dev build, where u32 arithmetic that overflows panics, from the
release build, where it wraps.

Properties:

- `ClassifiedFromLinkedImage`: a relocation stands for the address the linker
  wrote, whatever overlapping sites have done to the field since.
- `AddendsRelink`: symbol plus addend is that address again, unless another
  recorded field overlaps.
- `OnlyFieldsRewritten`: no other byte of the image changes.
- `ReviewedExactly`: the data manifest owns exactly the targets it covers.
- `StrictComplete`: after a successful `--strict` stage every listed reference to
  data is to a reviewed definition.
- `SitesExact`: a successful stage has recorded the listed sites, no fewer and no
  more, except those whose target has no answer. The property defines the listed
  sites from the files, with no reference to the loops.
- `StopsForCause`: the stage stops with a message, or in a panic, only if some listed
  site has what that message or assertion is about. A row within three of
  `UsizeMax`, whose bound check wraps in a release build, panics there; the property
  excuses it as a site that cannot be read.
- `RecordsStand`: a recorded relocation never changes.
- `Terminates`.
- `ImplementsResolution`: the stage implements `Resolution`, below.

### Resolution

What the stage promises, without its loops: `linked` maps every listed site that has
an answer to the relocation its address stands for in the linked image. A step
resolves a site, any listed site, also one already resolved (`Resolve`); ends when all
are (`Finish`); or gives up (`GiveUp`); a run comes to an end. `Relocs` instantiates it
with `resolved <- relocs_rva`, `status` read from `phase`, and `linked` computed from the
input. The refinement says, beyond the invariants, that the rewritten image is never
the source of a record at any step, and that success comes only when
nothing is left.

### ObjectFiles

A behaviour is one call of `ObjectFiles::parse`. Bytes are abstracted to where they
come from: an object is the sizes of its sections, its symbols in order of
identity, its undefined symbols by name, its relocations in order, and the ghost
`allocs`, the ranges of the image that were put in it. `input` has the definitions in
emission order, the relocations of the earlier stage, and the functions of all the
modules in order, each with its line record, the form of its name and the branches
the decoder finds in it. `FunctionLocation` is `get_function_location`: for a function
with lines its file, or nothing if that is not the engine's; without lines an object of
its own kind, C, bullet, or the scope of its name. Its answer is a set of at most one.
A branch's target may lie below the image base: a dev build then panics
(`Underflows`, src/src/object_files.rs:370), a release build wraps to no function.

`AddDataDefinition`, `RefuseDefinition`, `AddDataRelocations`,
`RefuseBssRelocation` are the first two loops; `SkipFunction`, `AddFunction`,
`RefuseFunction` the third. A body being relocated is in `body`, its sites yet to be
visited in `sites`. The recursion of `add_relocation_at` is tail recursion with one
piece of state, `visited`: `call` is the call to come, `stack` the targets copied on
the chain so far. `ReferByName`, `CopyString`, `CopyWord`, `CopyOutside` are its arms.

`SymbolId` models the index by name of the `object` crate's writer, as the code and
its comments use it: it has the defined symbols only, and the last one of a name.

Properties:

- `AllocationsApart`: allocations of a section are disjoint and within it; a definition
  is aligned as reviewed, lies where the order of emission alone puts it
  (`Layout!PlacedAt`), and at its candidate offset if it has one.
- `BodiesRelocated`: every site in an emitted definition or function has exactly
  one relocation, where the site has moved to, against the symbol named by
  classification, and no other place in the body has one. Where functions overlap
  it still holds of the absolute sites.
- `DisplacementsCleared`: in each copy of a function that no other overlaps, just the
  displacements that have a relocation are zero, however often it was visited.
- `CopiesRelocated`: a copied pointer is relocated, except in a copy that closes a
  cycle, which keeps the rewritten addend and names nothing.
- `ChainBounded`: a chain of copies is no longer than there are relocations, plus one.
- `ReviewedDataIsNotPadded`: reviewed data brings no copies into its object.
- `CalleesStand`: revisiting a function, or a site recorded as something else,
  never changes what a site refers to.
- `Terminates`.

A function that overlaps an earlier one gets relocations for the earlier
one's branches, over displacements its own copy has not cleared
(src/src/object_files.rs:389): the run contains such functions, and
`DisplacementsCleared`, and `BodiesRelocated` of branches, exempt them.

### Pipeline

Three instances over variables of their own: `M` of `Manifests`, `R` of `Relocs`, `F` of
`ObjectFiles`. The module adds what a stage hands to the next: the parsed definitions and
sites to `R`, the emission order and the resolved sites to `F`; `StartObjects` is the
move of the map. `ManifestsOf`, `ImageOf` and `ModulesOf` are the inputs of the three; a
run is one that each can be given (`IsRun`), and that what a stage hands on is fit for the
next is a property of the model, not an assumption. A refused manifest or relocation stage leaves the next stage waiting
for good. Only here can one say what the whole is for:

- `ReferencesRelink`: a relocation of an object and the addend *in the bytes the
  object was cut from* name the address the linker wrote, and no site in an emitted range
  lacks one. It needs classification, rewriting, layout and the choice of symbol
  to agree, and breaks if the objects are cut from the image as mapped.
- `LayoutRefusedForCause`: the object stage refuses a definition for its place only if the
  candidates of its section cannot be laid out. The sort of the manifest, the order the
  objects take it in and the padding of .rdata must agree for a layout that can be
  made to go through.
- `StrictClosed`: the objects of a `--strict` run hold no copies, and each data address in
  them is a reference to a reviewed definition its owner defines.

### SymbolMatcher and Delinker

`SymbolMatcher` is pure: `Canonical` (shortest, then least), `FunctionMap` (a line for each
member of a folded location, one listed twice included once), `Load`, `Chosen` (first shared member), `Pick`,
`Outcome` and `BecameSame` for the statistics. Names are numbers in the order of their
bytes, with a length each.

`Delinker` runs the program up to `MaxRuns` times on one file system. A run chooses a
build and a command line, loads the map if it is there (`LoadMatcher`), picks names
(`Parse`), writes objects in any order (`WriteObject`: the order of a hash map), then
the symbol map (`WriteMap`). `Fail` ends it anywhere; a failing write leaves a part of
its file, of the map some first lines, the last perhaps cut short. Nothing is cleared
between runs, and a run that finds another build's map reads it.

- `NamesAreOwn`: a location's name is one of its own, whatever the map on disk says.
- `SameGroupSameName`: two runs without a map name one set of functions the same, in
  whatever order each PDB lists it.
- `FoldedNamesAgree`: with the target's whole map the base takes the target's name
  wherever the map can tell which location is meant.
- `StatsCountAdoptions`: the "verification number" counts exactly the changed names.
- `OutputsCurrent`: a run that succeeds leaves all its objects, whole, over whatever an
  earlier or failed run left; of two keys with one path, one.
- `MapNeverAhead`: a map on disk changes only when all objects of its image are there.
  The reverse, new objects beside a missing or older map, is what a run that ends
  before `WriteMap` leaves, and nothing in the repository excludes it.

Objects of earlier runs whose keys are gone stay in the output directory; a torn map
reconciles fewer names without a word. The run has both; no document says otherwise.

## Runs and bounds

| run | configuration | distinct states | time |
|---|---|---|---|
| `relocs` | `MCRelocs.cfg` | 84 000 | a minute |
| `object_files` | `MCObjectFiles.cfg` | 21 000 | ten seconds |
| `manifests` | `MCManifests.cfg` | 11 000 | five seconds |
| `pdb_symbols` | `MCPdbSymbols.cfg` | 53 000 | ten seconds |
| `delinker` | `MCDelinker.cfg` | 468 000 | a minute |
| `pipeline` | `MCPipeline.cfg` | 119 000 | a minute |

`relocs`: bytes have four values, so addresses run to 256; the image has 32 bytes,
linked at 64: .text 0..7, .rdata 8..19, .data 20..31. That is enough for two fields
in .text and three in each data section, every overlap of two fields, targets at both
ends of every extent, adjacent definitions, addresses below the base that wrap past
the image, and a sum of page and offset that wraps. Directories: repeated entries,
overlapping entries, padding, a stopping block, a torn block, a site outside the image.
Stripped images: manifests with overlapping rows, a row outside the image and one
within three of `UsizeMax` (511), scans with bounds zero and four, tables with and
without a constant below the target; dev and release builds.

`object_files`: two functions of ten bytes, each with an absolute field and a branch,
in two orders, folded into two objects, visited twice, without lines, overlapping; every
class of target; data with no pointers, a cycle of one, a cycle of two, a chain
through .rdata to a string; definitions in all three storages, touching, aligned, padded,
refused for each reason; .rdata padded or not; a branch to below the base in both
builds. Pointer cycles of one and of two are the two ways a chain
can meet itself (its own start, another word); longer ones repeat the second.

`manifests`: three rows of one section in every order, with three sets of extents
(apart, touching, overlapping) and every mixture of candidate offsets; pairs of a good row
and one that differs in object, storage or a single wrong field, in both orders; a
constant and a string of .rdata with offsets for a padded section, an empty one, or
neither; every misplaced line. Three rows are the least in which a neighbour test could miss an
overlap or a sort could put an open offset between two candidates.

`pdb_symbols`: up to three global symbols in every order with at most one of a module, at
most one with two, and each oddity after up to two: two writers and a third
that comes between them is all a precedence between passes needs.

`delinker`: three runs (`MaxRuns`) over a target, the target rebuilt and a base, with
three command lines. Three is enough for a map to be written, overwritten or torn by
another build, and then read. The base folds a name more, and parts of two locations of
the target, and has two objects that share a path; the target lists one name twice.

`pipeline`: 48-byte images with three listed sites, one in each of two functions and one
in data; targets at starts, inside and past the ends of the symbols; every source
of sites; five data manifests, from none to all of the data, two of them refused;
`--strict` or not; and with .rdata padded, the whole of the data with an offset that leaves
the padding no room and with one that does. The stages' corner cases are in the runs above; here it is what they
hand to each other that varies.

The other runs expect a violation; each has one property that a document or a
comment states and the code does not keep:

| run | what TLC finds |
|---|---|
| `manifest_authoritative` | the scan's false hit one byte off a manifest site overwrites that site's addend (README.md:72,74) |
| `rediscovered_is_near` | a target trusted for one symbol is relocated against a far one (README.md:83-86) |
| `scan_never_panics` | a trusted target with no constant below reaches `unreachable!` (src/relocs.rs:356) |
| `one_symbol_per_name` | a forward reference and the later definition are two symbols of one name (src/object_files.rs:672-674) |
| `adopts_shared_choice` | a base location that shares members with two locations of the target follows the first only, with the target's whole map before it (src/symbol_matcher.rs:97-100, 114) |
| `reviewed_resolves` | a conjured copy takes a reviewed definition's name and its references (src/relocs.rs:23-25) |

Every property of the passing runs has a mutant in the modules: a definition
next to the one it replaces, marked `Mutant:`, with which TLC finds the property
violated.

Deadlock is checked everywhere; a stage that has ended stutters (`Stop`).
Fairness, where a run checks liveness (`relocs`, `object_files`), is `WF_vars(Next)`: the
program is sequential, a loop that has a next iteration runs it. That the loops end is
then a property of the model. The other modules check safety only and assume no
fairness; in `Delinker` a run may fail at any step, so nothing need ever succeed.

## Proofs

The theorems hold for every value of the constants: every image, PDB, manifest, command
line, number of runs. Each component has one inductive invariant, `IInv` or `Coverage`,
proved action by action; TLC has checked each on its component's run. The properties the
runs check are consequences of it.

**What is assumed.** Only the `ASSUME`s of the modules, which TLC evaluates on every run:

- `Relocs`: sections lie in the address space and are disjoint, definitions do not overlap
  (`DefinitionsApartHolds`, of `Manifests`), the tables are maps by RVA.
- `ObjectFiles`: definitions have unique RVAs (the same theorem); the relocations handed
  over are finitely many, typed, and absolute (`TypeCorrect`, of `Relocs`); a function's
  branches are finitely many and lie in its bytes, and two functions of one extent have
  the same ones, since they are decoded from the bytes of that extent and from nothing
  else (`resolve_relative_text_relocations`).
- `Pipeline`: each of these of what a run is given itself, and nothing of what a stage hands on.
- `Manifests`, `PdbSymbols`, `Delinker`: the types of files, streams and builds; a folded
  location has at least one name, and a build has finitely many objects.

**`RelocsProofs`.** `IInv` is `TypeOK` and `Recorded`: every relocation is a member of
`Classified` of its site's address in the *linked* image. The safety properties are not
inductive by themselves: they speak of what is recorded, and `Recorded` ties a record to the
image it came from. One lemma, `Effect`, reduces every action to leaving the image
and the map alone or relocating one readable site. `ReviewedExactlyHolds` needs that of
disjoint extents the predecessor's is the only one that can cover an address;
`RecordsStandHolds` that `Classified` has at most one member; `AddendsRelinkHolds`
that an addend fits in a field, because sections lie in the address space, and that for
every radix a number below the address space survives being written as four digits and
read back (`ToBytesInverse`).

**`RelocsCoverage`.** `SitesExact` speaks of the listed sites, which the files define with
no reference to the loops. `Coverage` says where each loop is: the sites it has yet to
come to, read off `blocks`, `entries`, `sites` or `scan`, and the rest, which are *settled*,
recorded or looked at and found to need no record. A settled site stays settled, a
step moves one site across, and a loop that ends has none to come to. `SitesExactHolds`,
`StrictCompleteHolds` and `StopsForCauseHolds` follow, and
`ImplementsResolutionHolds`: the initial states map to `Resolution`'s, and each step to a step
of it or a stutter. `Resolution` also says that a run ends. That is liveness, so the theorem reads
`Spec => (Terminates => ImplementsResolution)`, and TLC checks `Terminates`.

**`ManifestsProofs`.** Between two lines, the lines left are the rest of the file after
its first k, and what has been kept is what those k say; a refusal is then a fact about the
file (`RefusedForCauseHolds`). A sort permutes what was kept and leaves no pair inverted, so
neighbours that do not overlap are a whole list that does not
(`DefinitionsApartHolds`). In an ascending list the definitions at or below an address are
a prefix, and only the last of them can reach it (`OwnerCoversHolds`).
`CandidateLayoutEmittedHolds`: candidates of a realisable group share no offset, so those
before one in the order are those below it; the running end of the section is the
greatest of its padding and their ends, and rounding it up gives the candidate's own
offset.

**`PdbSymbolsProofs`.** A pass takes its symbols in order, so the next is later than all
it has read. What an address is named, *or is to be named once the deferred symbols are in*,
is what the symbols read so far prefer; that disjunction is what makes the properties,
stated of the end, inductive. A panic is tied to the symbol at the head of the stream, for
each assertion and `unreachable!` of the two passes (`StopsForCauseHolds`). `DataNamesPreferredHolds` also says that nothing else is in the
tables; `FoldedNamesCompleteHolds` that each public name is there once and in order.

**`ObjectFilesProofs`.** An object only grows: symbols and relocations are appended, and
an allocation starts at or past the end of its section (`Layout`). So a place in a
section is in one allocation (`OneAllocation`) and a new allocation has no relocation in
it. `Emitted` ties relocations to progress: the place of a site has its relocation
exactly if the loops have come to it, and what they have yet to come to (`Awaited`) is
read off `todo`, `sites` and `call`. `Linked`, `ChainCounted` and `ChainLinked` do the same for
copies: a word that was copied and not followed has its target in `visited`, and the chain
of targets in `stack` leads from there back to it. `DefinitionsEmitted` says that the
definitions handed over are in their objects under their names, `NothingCopied`
that a stage with no conjured relocation makes no copy. `InOrder` says that while the
definitions are emitted each section ends where the ones so far put it (`EndAfter`), so
each lies at `Layout!PlacedAt` (`PutInOrder`), and that one refused for its place has a
candidate offset other than that (`MismatchFound`). For the proof `OnCycle` is stated with
closed sets (every set closed under `Pointee` that has what the word points at has the
word), which needs no recursion. `AllocationsApartHolds`, `BodiesRelocatedHolds`,
`DisplacementsClearedHolds`, `CopiesRelocatedHolds`, `ChainBoundedHolds`,
`ReviewedDataIsNotPaddedHolds`, `CalleesStandHolds`.

**`DelinkerProofs`.** A pick is one of the location's own names whatever the map says
(`NamesAreOwnHolds`), and without a map a function of the *set* of its names
(`SameGroupSameNameHolds`). `IInv` adds that the objects of a run, and every object on
disk, hold what was picked for their image, and that what is not pending has been written;
`OutputsCurrentHolds` and `MapNeverAheadHolds` follow, over any
number of runs that succeed or fail. `FoldedNamesAgreeHolds` is a fact about the lines of a map:
those of one member all come from locations that have it, and leaving out repeated
members loses none (`MembersFacts`).

**`PipelineProofs`.** The proof modules of the three stages are instantiated over the
variables `Pipeline` gives them, and `PInv` says of each stage that it waits in its first
state or has its own invariant. What is new is the hand-over. Definitions that ascend and
do not overlap, and rows in range, make an image the relocation stage can be given
(`RelocsBegin`); the order of emission lists the same definitions, each once
(`EmissionOrderFacts`), and the resolved sites are finitely many and absolute
(`ResolvedFacts`), so the object stage can be given them (`ObjectsBegin`). A stage at rest
keeps its invariant because nothing it is given changes under it (`GivenKept`).
`ReferencesRelinkHolds` then puts together one fact of each stage: a listed site with an
answer is recorded with an addend that relinks (`ListedRelinks`), it has a relocation by the
name of its symbol in every range emitted from the image (`HandedRelocated`), also where functions
overlap, and that name is the name of its address because a reviewed definition begins at
a symbol (`Identified`). `StrictClosedHolds` needs that a strict stage conjures nothing, so that
nothing is copied (`NothingCopied`), and that every definition is emitted
(`DefinitionsEmitted`). `LayoutRefusedForCauseHolds` joins `MismatchFound`, of the objects, to
`CandidateLayoutEmitted`, of the manifests, over the same `Layout`: a definition out of
place is one whose section's candidates cannot be laid out.

**How recursion is handled.** No proof needs induction over data with an operator as
parameter. `OrderProofs!LeastExists` comes from the well-foundedness of the naturals,
and `Induction` states the principle of *sets* of numbers. The two recursive definitions the
theorems meet, the flattening of a list of lists and the running end of a section, are
functions over 1..n: their defining equation is satisfied by an explicit function
(`DelinkerProofs!FlattenFacts`, `OrderProofs!SectionEndFacts`).

**Only model-checked.** `Terminates` of `Relocs` and of `ObjectFiles` is liveness, out of the
prover's reach. Every invariant and every action property the passing runs check has a theorem.

## Not modelled

- The PE and PDB file formats, the x86 decoder and the COFF writer are libraries; their
  results are inputs or state. So failures of the PDB reader in the middle of a
  stage are not modelled.
- Branches are decoded from the image after its absolute sites were rewritten. Only a
  false hit of the scan can overlap a displacement; as the decoder is an input, what
  such a displacement decodes to is not modelled (src/src/object_files.rs:353).
- The content of names: mangling, demangling, messages, and the collapse of names of
  string constants to their content (`get_constant_name`), which the inputs give as
  names. The comparison of the engine's path with the file names of the PDB is a flag:
  the case of letters (src/src/main.rs:123) is left out.
- `--read-symbol-map` and `--write-symbol-map` given together: `MCDelinker` does not combine them. The map
  written is of default names, not of the names picked, and no document says which is meant.
- The depth of a thread's stack, which a long chain of pointers uses up.
- `Env::build` reads section headers into constants; utils.rs converts integers, leaks
  a string and tests for a substring; the example scripts are not part of the
  program. None has state worth a model.

## Plan

Every safety property is proved. The pipeline ends at the objects and `Delinker` begins
there: a composition of the two would say of the files on disk what `StrictClosed` and
`ReferencesRelink` say of the objects in memory. `ObjectFiles` has no abstract
specification of its own yet, as `Relocs` has in `Resolution`.
