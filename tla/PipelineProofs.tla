--------------------------- MODULE PipelineProofs ---------------------------
(***************************************************************************)
(* What the stages promise together, for every run RunsAssumption allows.  *)
(*                                                                         *)
(* The argument.  A stage that has not begun has its first state, and one  *)
(* that has begun has the inductive invariant of its own proof module,     *)
(* which is instantiated here over the variables Pipeline gives it.  What  *)
(* is new is the hand-over: parsed manifests are an image a relocation     *)
(* stage can be given, and resolved sites and an emission order modules an *)
(* object stage can be given.  The two properties then need one fact of    *)
(* each stage.                                                             *)
(***************************************************************************)
EXTENDS Pipeline, TLAPS

MP == INSTANCE ManifestsProofs WITH
        phase <- m_phase, sites <- rows, Inputs <- {}, input <- ManifestsOf(run)

RP == INSTANCE RelocsCoverage WITH
        phase <- r_phase, relocs_rva <- sited, Inputs <- {},
        input <- ImageOf(run, ParsedDefinitions, ParsedSites)

FP == INSTANCE ObjectFilesProofs WITH
        phase <- o_phase, sites <- left, Inputs <- {},
        input <- ModulesOf(run, InEmissionOrder, Resolved)
-----------------------------------------------------------------------------
(* The stages of Pipeline are those of the proof modules: the definitions   *)
(* of one module, met along two paths.                                      *)

\* A sort is a sort.
LEMMA SameSorts == \A seq, key : M!Sorts(seq, key) = MP!Sorts(seq, key)
<1>1. \A S : M!Cardinality(S) = MP!Cardinality(S)
  BY DEF M!Cardinality, MP!Cardinality
<1>2. ASSUME NEW S PROVE M!SetToSeqs(S) = MP!SetToSeqs(S)
  <2>1. PICK n : n = M!Cardinality(S) /\ n = MP!Cardinality(S)
    BY <1>1
  <2>2. M!SetToSeqs(S) = {f \in [1 .. n -> S] : \A i, j \in 1 .. n : i # j => f[i] # f[j]}
    BY <2>1, Zenon DEF M!SetToSeqs
  <2>3. MP!SetToSeqs(S) = {f \in [1 .. n -> S] : \A i, j \in 1 .. n : i # j => f[i] # f[j]}
    BY <2>1, Zenon DEF MP!SetToSeqs
  <2> QED BY <2>2, <2>3
<1> QED BY <1>2 DEF M!Sorts, MP!Sorts, M!Less, MP!Less

\* A step of `DataManifest::load` or `RelocManifest::load`.
LEMMA SameManifests == M!Next => MP!Next
<1>1. \A seq : M!ToSet(seq) = MP!ToSet(seq)
  BY DEF M!ToSet, MP!ToSet
<1> QED
  BY <1>1, SameSorts DEF
     M!Next, MP!Next, M!OpenData, MP!OpenData, M!OpenRelocs, MP!OpenRelocs, M!SkipLine,
     MP!SkipLine, M!ReadHeader, MP!ReadHeader, M!RefuseLine, MP!RefuseLine,
     M!RefuseHeaderless, MP!RefuseHeaderless, M!KeepDefinition, MP!KeepDefinition,
     M!RefuseDefinition, MP!RefuseDefinition, M!FinishData, MP!FinishData, M!KeepSite,
     MP!KeepSite, M!RefuseSite, MP!RefuseSite, M!FinishRelocs, MP!FinishRelocs, M!Stop,
     MP!Stop, M!Open, MP!Open, M!Reading, MP!Reading, M!Refuse, MP!Refuse, M!RowNext,
     MP!RowNext, M!Parsed, MP!Parsed, M!Rvas, MP!Rvas, M!ByRva, MP!ByRva, M!Overlap,
     MP!Overlap, M!Seen, MP!Seen, M!Over, MP!Over, M!vars, MP!vars, M!Normalized,
     MP!Normalized, M!Overflows, MP!Overflows, M!PowerOfTwo, MP!PowerOfTwo, M!Identity,
     MP!Identity, M!Less, MP!Less, M!Failures, MP!Failures, M!OrElse, MP!OrElse

\* A step of `resolve_absolute_relocations`.
LEMMA SameRelocs == R!Next => RP!Next
<1>1. \A site : R!TargetRva(site) = RP!TargetRva(site)
  BY DEF
     R!TargetRva, RP!TargetRva, R!TargetVa, RP!TargetVa, R!AddressSpace,
     RP!AddressSpace, R!FromBytes, RP!FromBytes, R!Field, RP!Field
<1>2. \A keys, rva : R!Predecessor(keys, rva) = RP!Predecessor(keys, rva)
  BY DEF
     R!Predecessor, RP!Predecessor
<1>3. \A reviewed, rva : R!Owner(reviewed, rva) = RP!Owner(reviewed, rva)
  BY <1>2 DEF
     R!Owner, RP!Owner
<1>4. \A target : R!Classified(target) = RP!Classified(target)
  BY <1>2, <1>3, Zenon DEF
     R!Classified, RP!Classified, R!In, RP!In, R!As, RP!As, R!OrConjured, RP!OrConjured,
     R!Reviewed, RP!Reviewed, R!ConjuredRdata, RP!ConjuredRdata, R!ConjuredStatic,
     RP!ConjuredStatic, R!OrElse, RP!OrElse
<1>5. \A target : R!Uncovered(target) = RP!Uncovered(target)
  BY <1>3 DEF
     R!Uncovered, RP!Uncovered, R!In, RP!In
<1>6. \A target : R!Unnamed(target) = RP!Unnamed(target)
  BY <1>4, <1>5 DEF
     R!Unnamed, RP!Unnamed, R!In, RP!In
<1>7. \A site : R!Faults(site) = RP!Faults(site)
  BY DEF
     R!Faults, RP!Faults, R!Readable, RP!Readable, R!TargetVa, RP!TargetVa, R!FromBytes,
     RP!FromBytes, R!Field, RP!Field
<1>8. \A bytes, site, value : R!Patch(bytes, site, value) = RP!Patch(bytes, site, value)
  BY DEF
     R!Patch, RP!Patch, R!FieldAt, RP!FieldAt, R!ToBytes, RP!ToBytes
<1>9. \A site : R!ResolveAbsoluteSite(site) => RP!ResolveAbsoluteSite(site)
  BY <1>1, <1>4, <1>5, <1>6, <1>7, <1>8 DEF
     R!ResolveAbsoluteSite, RP!ResolveAbsoluteSite, R!Relocate, RP!Relocate,
     R!LeaveAlone, RP!LeaveAlone, R!Fail, RP!Fail, R!Insert, RP!Insert
<1>10. /\ (R!UseDirectory => RP!UseDirectory)
      /\ (R!UseManifest => RP!UseManifest)
      /\ (R!UseScanOnly => RP!UseScanOnly)
      /\ (R!RejectSources => RP!RejectSources)
  BY DEF
     R!UseDirectory, RP!UseDirectory, R!UseManifest, RP!UseManifest, R!UseScanOnly,
     RP!UseScanOnly, R!RejectSources, RP!RejectSources, R!Recovery, RP!Recovery
<1>11. /\ (R!OpenBlock => RP!OpenBlock)
      /\ (R!SkipEntry => RP!SkipEntry)
      /\ (R!FinishDirectory => RP!FinishDirectory)
  BY DEF
     R!OpenBlock, RP!OpenBlock, R!SkipEntry, RP!SkipEntry, R!FinishDirectory,
     RP!FinishDirectory
<1>12. R!ResolveEntry => RP!ResolveEntry
  BY <1>9 DEF
     R!ResolveEntry, RP!ResolveEntry, R!AddressSpace, RP!AddressSpace, R!Fail, RP!Fail,
     R!EntrySite, RP!EntrySite
<1>13. R!ResolveRow => RP!ResolveRow
  BY <1>9 DEF
     R!ResolveRow, RP!ResolveRow, R!Readable, RP!Readable, R!Fail, RP!Fail,
     R!RowRefusal, RP!RowRefusal
<1>14. R!FinishManifest => RP!FinishManifest
  BY Zenon DEF R!FinishManifest, RP!FinishManifest
<1>15. R!ScanPast => RP!ScanPast
  BY DEF
     R!ScanPast, RP!ScanPast, R!FieldLeft, RP!FieldLeft, R!Fresh, RP!Fresh, R!Advance,
     RP!Advance, R!Scanned, RP!Scanned, R!Readable, RP!Readable, R!Trusted, RP!Trusted,
     R!TargetVa, RP!TargetVa, R!KnownTarget, RP!KnownTarget, R!FromBytes, RP!FromBytes,
     R!Field, RP!Field, R!Predecessor, RP!Predecessor, R!Starts, RP!Starts
<1>16. R!Rediscover => RP!Rediscover
  BY <1>9 DEF
     R!Rediscover, RP!Rediscover, R!FieldLeft, RP!FieldLeft, R!Fresh, RP!Fresh,
     R!Advance, RP!Advance, R!Scanned, RP!Scanned, R!Readable, RP!Readable, R!Trusted,
     RP!Trusted, R!TargetVa, RP!TargetVa, R!KnownTarget, RP!KnownTarget, R!FromBytes,
     RP!FromBytes, R!Field, RP!Field, R!Predecessor, RP!Predecessor, R!Starts, RP!Starts
<1>17. /\ (R!NextSection => RP!NextSection)
      /\ (R!FinishScan => RP!FinishScan)
  BY DEF
     R!NextSection, RP!NextSection, R!FinishScan, RP!FinishScan, R!FieldLeft,
     RP!FieldLeft, R!Scanned, RP!Scanned, R!Readable, RP!Readable
<1>18. R!Stop => RP!Stop
  BY DEF
     R!Stop, RP!Stop, R!Over, RP!Over, R!vars, RP!vars, R!Failures, RP!Failures
<1> QED BY <1>10, <1>11, <1>12, <1>13, <1>14, <1>15, <1>16, <1>17, <1>18 DEF R!Next, RP!Next

\* What is done to one object, and asked of it.
LEMMA SameObjects ==
  /\ \A name : F!Object(name) = FP!Object(name)
  /\ \A o, name : F!SymbolId(o, name) = FP!SymbolId(o, name)
  /\ \A o, alloc, end : F!Allocate(o, alloc, end) = FP!Allocate(o, alloc, end)
  /\ \A o, name, section, value :
       F!AddSymbol(o, name, section, value) = FP!AddSymbol(o, name, section, value)
  /\ \A o, section, what, rva, size, cleared :
       F!Padded(o, section, what, rva, size, cleared)
         = FP!Padded(o, section, what, rva, size, cleared)
  /\ \A o, name, at, encoding : F!Refer(o, name, at, encoding) = FP!Refer(o, name, at, encoding)
  /\ \A o, section, what, rva, size, name, at :
       F!Copy(o, section, what, rva, size, name, at)
         = FP!Copy(o, section, what, rva, size, name, at)
  /\ \A offset, alignment : F!AlignUp(offset, alignment) = FP!AlignUp(offset, alignment)
<1>1. \A offset, alignment : F!AlignUp(offset, alignment) = FP!AlignUp(offset, alignment)
  BY DEF F!AlignUp, FP!AlignUp
<1>2. \A o, name : F!SymbolId(o, name) = FP!SymbolId(o, name)
  BY Zenon DEF F!SymbolId, FP!SymbolId
<1>3. \A o, alloc, end : F!Allocate(o, alloc, end) = FP!Allocate(o, alloc, end)
  BY Zenon DEF F!Allocate, FP!Allocate, F!Lengthen, FP!Lengthen
<1>4. \A o, name, section, value :
        F!AddSymbol(o, name, section, value) = FP!AddSymbol(o, name, section, value)
  BY Zenon DEF F!AddSymbol, FP!AddSymbol
<1>5. \A o, symbol, at, encoding :
        F!AddRelocation(o, symbol, at, encoding) = FP!AddRelocation(o, symbol, at, encoding)
  BY Zenon DEF F!AddRelocation, FP!AddRelocation
<1>6. ASSUME NEW o, NEW section, NEW what, NEW rva, NEW size, NEW cleared
      PROVE  F!Padded(o, section, what, rva, size, cleared)
               = FP!Padded(o, section, what, rva, size, cleared)
  BY <1>1, <1>3 DEF F!Padded, FP!Padded
<1>7. ASSUME NEW o, NEW section, NEW what, NEW rva, NEW size, NEW name, NEW at
      PROVE  F!Copy(o, section, what, rva, size, name, at)
               = FP!Copy(o, section, what, rva, size, name, at)
  BY <1>4, <1>5, <1>6 DEF F!Copy, FP!Copy
<1>8. \A o, name : F!Undefined(o, name) = FP!Undefined(o, name)
  BY Zenon DEF F!Undefined, FP!Undefined
<1>9. \A o, name : F!WithExtern(o, name) = FP!WithExtern(o, name)
  BY <1>2, <1>4, <1>8, Zenon DEF F!WithExtern, FP!WithExtern, F!Insert, FP!Insert
<1>10. \A o, name, at, encoding :
         F!Refer(o, name, at, encoding) = FP!Refer(o, name, at, encoding)
  BY <1>2, <1>5, <1>8, <1>9, Zenon DEF F!Refer, FP!Refer, F!The, FP!The, F!OrElse, FP!OrElse
<1>11. F!Empty = FP!Empty
  BY Zenon DEF F!Empty, FP!Empty, F!Padding, FP!Padding, F!Sections, FP!Sections, F!EmptyMap, FP!EmptyMap
<1>12. \A name : F!Object(name) = FP!Object(name)
  BY <1>11 DEF F!Object, FP!Object
<1> QED BY <1>1, <1>2, <1>3, <1>4, <1>6, <1>7, <1>10, <1>12

\* What is asked of a definition, of a function and of a reference.
LEMMA SameQuestions ==
  /\ \A d : /\ (F!Fits(d) <=> FP!Fits(d)) /\ (F!Misplaced(d) <=> FP!Misplaced(d))
            /\ (F!Duplicate(d) <=> FP!Duplicate(d))
            /\ F!DefinitionOffset(d) = FP!DefinitionOffset(d)
            /\ F!DefinitionName(d) = FP!DefinitionName(d)
  /\ \A r : /\ (F!Copies(r) <=> FP!Copies(r)) /\ (F!Word(r) <=> FP!Word(r))
            /\ F!NameOf(r) = FP!NameOf(r)
  /\ \A f : F!FunctionLocation(f) = FP!FunctionLocation(f)
  /\ \A reason : F!Fail(reason) <=> FP!Fail(reason)
  /\ F!Idle <=> FP!Idle
  /\ F!Over <=> FP!Over
<1>1. \A d : F!DefinitionOffset(d) = FP!DefinitionOffset(d)
  BY SameObjects, Zenon DEF F!DefinitionOffset, FP!DefinitionOffset
<1>2. \A d : F!DefinitionName(d) = FP!DefinitionName(d)
  BY DEF F!DefinitionName, FP!DefinitionName
<1>3. \A d : (F!Misplaced(d) <=> FP!Misplaced(d)) /\ (F!Duplicate(d) <=> FP!Duplicate(d))
  BY <1>1, <1>2, SameObjects, Zenon DEF F!Misplaced, FP!Misplaced, F!Duplicate, FP!Duplicate
<1>4. \A d : F!Fits(d) <=> FP!Fits(d)
  BY DEF F!Fits, FP!Fits, F!StorageSection, FP!StorageSection
<1>5. \A r : /\ (F!Copies(r) <=> FP!Copies(r)) /\ (F!Word(r) <=> FP!Word(r))
             /\ F!NameOf(r) = FP!NameOf(r)
  BY DEF F!Copies, FP!Copies, F!Conjured, FP!Conjured, F!Word, FP!Word, F!NameOf, FP!NameOf
<1>6. \A f : F!FunctionLocation(f) = FP!FunctionLocation(f)
  BY Zenon DEF F!FunctionLocation, FP!FunctionLocation, F!OrElse, FP!OrElse
<1>7. \A reason : F!Fail(reason) <=> FP!Fail(reason)
  BY DEF F!Fail, FP!Fail
<1>8. (F!Idle <=> FP!Idle) /\ (F!Over <=> FP!Over)
  BY DEF F!Idle, FP!Idle, F!Over, FP!Over, F!Failures, FP!Failures
<1> QED BY <1>1, <1>2, <1>3, <1>4, <1>5, <1>6, <1>7, <1>8

\* A step of `ObjectFiles::parse`.
LEMMA SameObjectFiles == F!Next => FP!Next
<1>1. F!AddDataDefinition => FP!AddDataDefinition
  BY SameObjects, SameQuestions, Zenon
     DEF F!AddDataDefinition, FP!AddDataDefinition, F!Insert, FP!Insert
<1>2. F!RefuseDefinition => FP!RefuseDefinition
  BY SameQuestions, Zenon DEF F!RefuseDefinition, FP!RefuseDefinition
<1>3. /\ F!StartDataRelocations => FP!StartDataRelocations
      /\ F!StartFunctions => FP!StartFunctions
  BY SameQuestions
     DEF F!StartDataRelocations, FP!StartDataRelocations, F!StartFunctions, FP!StartFunctions
<1>4. F!SkipFunction => FP!SkipFunction
  BY SameQuestions DEF F!SkipFunction, FP!SkipFunction
<1>5. F!Finish => FP!Finish
  BY SameQuestions DEF F!Finish, FP!Finish
<1>6. F!AddDataRelocations => FP!AddDataRelocations
  BY SameObjects, SameQuestions, Zenon
     DEF F!AddDataRelocations, FP!AddDataRelocations, F!The, FP!The, F!SitesIn, FP!SitesIn
<1>7. F!RefuseBssRelocation => FP!RefuseBssRelocation
  BY SameQuestions
     DEF F!RefuseBssRelocation, FP!RefuseBssRelocation, F!SitesIn, FP!SitesIn
<1>8. \A f : F!Branches(f) = FP!Branches(f) /\ F!Cleared(f) = FP!Cleared(f)
  BY Zenon
     DEF F!Branches, FP!Branches, F!Cleared, FP!Cleared, F!Branch, FP!Branch, F!BranchSite,
         FP!BranchSite, F!Outward, FP!Outward
<1>9. \A f : /\ (F!Loaded(f) <=> FP!Loaded(f)) /\ (F!Clash(f) <=> FP!Clash(f))
            /\ (F!Underflows(f) <=> FP!Underflows(f))
  BY Zenon
     DEF F!Loaded, FP!Loaded, F!Clash, FP!Clash, F!Underflows, FP!Underflows, F!Outward,
         FP!Outward, F!BranchSite, FP!BranchSite
<1>10. F!AddFunction => FP!AddFunction
  BY <1>8, <1>9, SameObjects, SameQuestions, Zenon
     DEF F!AddFunction, FP!AddFunction, F!Insert, FP!Insert, F!FunctionName, FP!FunctionName
<1>11. F!RefuseFunction => FP!RefuseFunction
  BY <1>9, SameQuestions, Zenon DEF F!RefuseFunction, FP!RefuseFunction
<1>12. F!StartChain => FP!StartChain
  BY DEF F!StartChain, FP!StartChain
<1>13. F!ReferByName => FP!ReferByName
  BY SameObjects, SameQuestions, Zenon DEF F!ReferByName, FP!ReferByName
<1>14. F!CopyString => FP!CopyString
  BY SameObjects, SameQuestions, Zenon DEF F!CopyString, FP!CopyString
<1>15. F!CopyWord => FP!CopyWord
  BY SameObjects, SameQuestions, Zenon
     DEF F!CopyWord, FP!CopyWord, F!CopySection, FP!CopySection, F!Follow, FP!Follow
<1>16. F!CopyOutside => FP!CopyOutside
  BY SameQuestions DEF F!CopyOutside, FP!CopyOutside
<1>17. F!Stop => FP!Stop
  BY SameQuestions DEF F!Stop, FP!Stop, F!vars, FP!vars
<1> QED
  BY <1>1, <1>2, <1>3, <1>4, <1>5, <1>6, <1>7, <1>10, <1>11, <1>12, <1>13, <1>14, <1>15,
     <1>16, <1>17, SameQuestions
     DEF F!Next, FP!Next
-----------------------------------------------------------------------------
(* What is assumed of a run, in the terms of each stage.                    *)

\* The proof modules ask no more of the constants than RunsAssumption says.
LEMMA Assumptions ==
  MP!InputsAssumption /\ RP!RadixAssumption /\ RP!ConstantsAssumption /\ FP!InputsAssumption
BY RunsAssumption
   DEF MP!InputsAssumption, RP!RadixAssumption, RP!ConstantsAssumption, FP!InputsAssumption,
       RP!SectionType, R!SectionType, RP!Disjoint, R!Disjoint, RP!AddressSpace,
       R!AddressSpace

\* Nothing is parsed, resolved or built in the same way along both paths.
LEMMA SameEmpty ==
  M!EmptyMap = MP!EmptyMap /\ M!EmptyMap = RP!EmptyMap /\ M!EmptyMap = FP!EmptyMap
BY DEF M!EmptyMap, MP!EmptyMap, RP!EmptyMap, FP!EmptyMap

\* The manifests of a run are what their parsers can be given.
LEMMA ManifestsGiven ==
  ASSUME NEW r \in Inputs
  PROVE  MP!IsInput(ManifestsOf(r))
<1>1. M!IsInput(ManifestsOf(r))
  BY RunsAssumption DEF IsRun
<1> QED
  BY <1>1
     DEF M!IsInput, MP!IsInput, M!AtMostOne, MP!AtMostOne, M!IsFile, MP!IsFile,
         M!LineOf, MP!LineOf, M!DataRow, MP!DataRow, M!RelocRow, MP!RelocRow,
         M!Numbers, MP!Numbers, M!Usize, MP!Usize

\* The image, with whatever definitions and sites the manifests may list.
LEMMA ImageGiven ==
  ASSUME NEW r \in Inputs, NEW reviewed, NEW listed,
         \A d \in reviewed : d.rva \in Nat /\ d.size \in Nat \ {0},
         RP!NonOverlapping(reviewed),
         RP!AtMostOne(listed), \A m \in listed : m \in Seq(Nat)
  PROVE  RP!IsInput(ImageOf(r, reviewed, listed))
<1>1. R!IsInput(ImageOf(r, {}, {}))
  BY RunsAssumption DEF IsRun
<1> QED
  BY <1>1
     DEF ImageOf, R!IsInput, RP!IsInput, R!AtMostOne, RP!AtMostOne, R!Rva, RP!Rva,
         R!Byte, RP!Byte, R!BlockType, RP!BlockType, R!EntryType, RP!EntryType

\* The modules, with whatever order and sites the stages before may hand over.
LEMMA ModulesGiven ==
  ASSUME NEW r \in Inputs, NEW order, NEW found,
         FP!IsList(order), \A n \in DOMAIN order : FP!IsDefinition(order[n]),
         \A m, n \in DOMAIN order : order[m].rva = order[n].rva => m = n,
         FP!IsFiniteSet(DOMAIN found),
         \A s \in DOMAIN found :
           /\ s \in Nat /\ found[s] \in FP!RelocType /\ found[s].encoding = "Absolute"
           /\ found[s].kind = "ConjuredString" => r.strings[found[s].base] \in Nat
  PROVE  FP!IsInput(ModulesOf(r, order, found))
<1>1. F!IsInput(ModulesOf(r, <<>>, M!EmptyMap))
  BY RunsAssumption DEF IsRun
<1>2. /\ FP!IsList(r.modules) /\ \A n \in DOMAIN r.modules : FP!IsFunction(r.modules[n])
      /\ \A m, n \in DOMAIN r.modules :
           LET f == r.modules[m]
               g == r.modules[n]
           IN  f.rva = g.rva /\ f.size = g.size => f.branches = g.branches
      /\ r.functions \subseteq Nat /\ r.pad_rdata \in BOOLEAN /\ r.overflow_checks \in BOOLEAN
  BY <1>1
     DEF ModulesOf, F!IsInput, F!IsList, FP!IsList, F!IsFunction, FP!IsFunction,
         F!IsFiniteSet, FP!IsFiniteSet
<1> QED BY <1>2 DEF ModulesOf, FP!IsInput
-----------------------------------------------------------------------------
(* The inductive invariant.                                                 *)

\* The relocation stage has not begun.
RelocsWait ==
  /\ coff_data = run.exe /\ sited = M!EmptyMap /\ r_phase = "select"
  /\ blocks = <<>> /\ page = 0 /\ entries = <<>> /\ sites = <<>>
  /\ scan = [section |-> 1, site |-> Text.rva]

\* Nor has the object stage.
ObjectsWait ==
  /\ objects = M!EmptyMap /\ relocs_rva = M!EmptyMap /\ o_phase = "waiting"
  /\ todo = <<>> /\ body = {} /\ left = {} /\ stack = <<>> /\ call = {} /\ visited = {}

\* The object stage has been given the order of emission and the sites.
HandedOver ==
  /\ objects = M!EmptyMap /\ relocs_rva = Resolved /\ o_phase = "definitions"
  /\ todo = InEmissionOrder
  /\ body = {} /\ left = {} /\ stack = <<>> /\ call = {} /\ visited = {}

\* The relocation stage is under way, or over.
Relocating == m_phase = "loaded" /\ RP!Coverage /\ RP!AddendsRelink

\* So is the object stage.
Building == r_phase = "resolved" /\ o_phase # "waiting" /\ (HandedOver \/ FP!IInv)

PInv ==
  /\ run \in Inputs /\ MP!IInv
  /\ RelocsWait \/ Relocating
  /\ ObjectsWait \/ Building
-----------------------------------------------------------------------------
(* What one stage hands to the next.                                        *)

\* Loaded manifests are what the relocation stage can be given.
LEMMA RelocsBegin ==
  ASSUME run \in Inputs, MP!IInv, m_phase = "loaded", RelocsWait
  PROVE  RP!Begins
<1>1. /\ definitions \in Seq(MP!DefinitionType) /\ rows \in Seq(MP!Usize)
      /\ MP!NonOverlapping(MP!ToSet(definitions))
  BY DEF MP!IInv, MP!TypeOK, MP!DefinitionsApart
<1>2. MP!ToSet(definitions) = ParsedDefinitions
  BY DEF MP!ToSet, ParsedDefinitions
<1>3. \A d \in ParsedDefinitions : d.rva \in Nat /\ d.size \in Nat \ {0}
  <2> TAKE d \in ParsedDefinitions
  <2>1. d \in MP!DefinitionType
    BY <1>1 DEF ParsedDefinitions
  <2> QED BY <2>1, RunsAssumption DEF MP!DefinitionType, MP!Usize
<1>4. RP!NonOverlapping(ParsedDefinitions)
  BY <1>1, <1>2 DEF MP!NonOverlapping, RP!NonOverlapping
<1>5. RP!AtMostOne(ParsedSites) /\ \A m \in ParsedSites : m \in Seq(Nat)
  <2>1. rows \in Seq(Nat)
    BY <1>1, RunsAssumption DEF MP!Usize
  <2> QED BY <2>1 DEF ParsedSites, RP!AtMostOne
<1>6. RP!IsInput(ImageOf(run, ParsedDefinitions, ParsedSites))
  BY <1>3, <1>4, <1>5, ImageGiven
<1>7. ImageOf(run, ParsedDefinitions, ParsedSites).exe = run.exe
  BY DEF ImageOf
<1> QED BY <1>6, <1>7, SameEmpty DEF RP!Begins, RelocsWait

\* So it is under way, with the account of its sites in order.
LEMMA RelocsBegun ==
  ASSUME run \in Inputs, MP!IInv, m_phase = "loaded", RelocsWait \/ Relocating
  PROVE  Relocating
<1>1. CASE RelocsWait
  <2>1. RP!Begins
    BY <1>1, RelocsBegin
  <2> QED BY <2>1, Assumptions, RP!BeginsCovers, RP!BeginsRelinks DEF Relocating
<1> QED BY <1>1

\* The emission order of loaded manifests lists the definitions, each once.
LEMMA EmissionOrderFacts ==
  ASSUME run \in Inputs, MP!IInv, m_phase = "loaded"
  PROVE  /\ InEmissionOrder \in Seq(MP!DefinitionType) /\ InEmissionOrder \in MP!EmissionOrders
         /\ \A d : (\E n \in DOMAIN InEmissionOrder : InEmissionOrder[n] = d)
                     <=> d \in ParsedDefinitions
         /\ \A m, n \in DOMAIN InEmissionOrder :
              InEmissionOrder[m].rva = InEmissionOrder[n].rva => m = n
<1>1. /\ MP!TypeOK /\ MP!DefinitionsApart
      /\ definitions \in Seq(MP!DefinitionType)
      /\ \A i, j \in DOMAIN definitions : i < j => definitions[i].rva < definitions[j].rva
  BY DEF MP!IInv, MP!TypeOK, MP!DefinitionsApart
<1>2. M!EmissionOrders = MP!EmissionOrders
  BY SameSorts
     DEF M!EmissionOrders, MP!EmissionOrders, M!ToSet, MP!ToSet, M!Key, MP!Key, M!Rank,
         MP!Rank, M!OffsetOrRva, MP!OffsetOrRva, M!OrElse, MP!OrElse
<1>3. MP!EmissionOrders # {}
  BY <1>1, Assumptions, MP!EmissionExists
<1>4. PICK order : order = InEmissionOrder /\ order \in MP!EmissionOrders
  BY <1>2, <1>3 DEF InEmissionOrder
<1>5. /\ order \in Seq(MP!DefinitionType) /\ MP!ToSet(order) = MP!ToSet(definitions)
      /\ \A i, j \in DOMAIN order : i # j => order[i] # order[j]
  BY <1>1, <1>4, Assumptions, MP!EmissionFacts
<1>6. \A d : (\E n \in DOMAIN order : order[n] = d) <=> d \in ParsedDefinitions
  <2>1. MP!ToSet(order) = ParsedDefinitions
    BY <1>5 DEF MP!ToSet, ParsedDefinitions
  <2> QED BY <2>1 DEF MP!ToSet
<1>7. \A c, d \in ParsedDefinitions : c.rva = d.rva => c = d
  <2>1. DOMAIN definitions \subseteq Nat
    <3>1. ASSUME NEW S, definitions \in Seq(S) PROVE DOMAIN definitions \subseteq Nat
      BY <3>1
    <3> QED BY <1>1, <3>1
  <2>2. ASSUME NEW n \in DOMAIN definitions PROVE definitions[n].rva \in Nat
    <3>1. definitions[n] \in MP!DefinitionType
      <4>1. ASSUME NEW S, definitions \in Seq(S) PROVE definitions[n] \in S
        BY <2>2, <4>1
      <4> QED BY <1>1, <4>1
    <3> QED BY <3>1, RunsAssumption DEF MP!DefinitionType, MP!Usize
  <2>3. ASSUME NEW i \in DOMAIN definitions, NEW j \in DOMAIN definitions,
               definitions[i].rva = definitions[j].rva
        PROVE  i = j
    <3>1. /\ i \in Nat /\ j \in Nat
          /\ definitions[i].rva \in Nat /\ definitions[j].rva \in Nat
      BY <2>1, <2>2
    <3>2. ~(i < j) /\ ~(j < i)
      BY <1>1, <2>3, <3>1
    <3> QED BY <3>1, <3>2
  <2> QED BY <2>3 DEF ParsedDefinitions
<1>8. \A m, n \in DOMAIN order : order[m].rva = order[n].rva => m = n
  BY <1>5, <1>6, <1>7
<1> QED BY <1>4, <1>5, <1>6, <1>8

\* A resolved site is an absolute relocation of the object stage.
LEMMA ResolvedFacts ==
  ASSUME Relocating
  PROVE  /\ FP!IsFiniteSet(DOMAIN Resolved)
         /\ \A s \in DOMAIN Resolved :
              /\ s \in Nat /\ Resolved[s] \in FP!RelocType /\ Resolved[s].encoding = "Absolute"
              /\ Resolved[s].kind = "ConjuredString" => run.strings[Resolved[s].base] \in Nat
<1>1. RP!IInv /\ RP!IsInput(ImageOf(run, ParsedDefinitions, ParsedSites))
  BY DEF Relocating, RP!Coverage, RP!IInv, RP!TypeOK
<1>2. /\ DOMAIN sited \subseteq {s \in Nat : RP!Readable(s)}
      /\ \A s \in DOMAIN sited : sited[s] \in RP!RelocType
  BY <1>1 DEF RP!IInv, RP!TypeOK
<1>3. DOMAIN Resolved = DOMAIN sited
  BY DEF Resolved
<1>4. FP!IsFiniteSet(DOMAIN Resolved)
  <2>1. PICK S : S = DOMAIN Resolved
    OBVIOUS
  <2>2. \A s \in S : s \in 0 .. ImageSize
    BY <1>2, <1>3, <2>1, RunsAssumption DEF RP!Readable
  <2>3. FP!IsFiniteSet(S)
    BY <2>2, RunsAssumption, FP!FinitelyMany
  <2> QED BY <2>1, <2>3
<1>5. ASSUME NEW s \in DOMAIN Resolved
      PROVE  /\ s \in Nat /\ Resolved[s] \in FP!RelocType /\ Resolved[s].encoding = "Absolute"
             /\ Resolved[s].kind = "ConjuredString" => run.strings[Resolved[s].base] \in Nat
  <2>1. /\ Resolved[s] = [kind |-> sited[s].kind, base |-> sited[s].base,
                          target |-> sited[s].target, encoding |-> "Absolute"]
        /\ s \in DOMAIN sited /\ s \in Nat /\ sited[s] \in RP!RelocType
    BY <1>2, <1>3, <1>5 DEF Resolved
  <2>2. Resolved[s] \in FP!RelocType
    BY <2>1 DEF RP!RelocType, RP!Kinds, FP!RelocType, FP!Encodings
  <2>3. ASSUME sited[s].kind = "ConjuredString" PROVE run.strings[sited[s].base] \in Nat
    <3>1. ImageOf(run, ParsedDefinitions, ParsedSites).strings = run.strings
      BY DEF ImageOf
    <3>2. sited[s].base \in DOMAIN run.strings
      BY <1>1, <2>1, <2>3, <3>1, Assumptions, RP!RecordedBase
    <3>3. run.strings \in [DOMAIN run.strings -> Nat]
      BY <1>1, <3>1 DEF RP!IsInput
    <3> QED BY <3>2, <3>3
  <2> QED BY <2>1, <2>2, <2>3
<1> QED BY <1>4, <1>5

\* They and the order are what the object stage can be given.
LEMMA ObjectsBegin ==
  ASSUME run \in Inputs, MP!IInv, Relocating, HandedOver
  PROVE  FP!Begins
<1>1. m_phase = "loaded"
  BY DEF Relocating
<1>2. PICK order : order = InEmissionOrder
  OBVIOUS
<1>3. /\ order \in Seq(MP!DefinitionType)
      /\ \A m, n \in DOMAIN order : order[m].rva = order[n].rva => m = n
  BY <1>1, <1>2, EmissionOrderFacts
<1>4. FP!IsList(order)
  BY <1>3 DEF FP!IsList
<1>5. \A n \in DOMAIN order : FP!IsDefinition(order[n])
  <2> TAKE n \in DOMAIN order
  <2>1. order[n] \in MP!DefinitionType
    BY <1>3
  <2> QED
    BY <2>1, RunsAssumption
       DEF MP!DefinitionType, MP!Usize, MP!Numbers, MP!Rank, FP!IsDefinition
<1>6. FP!IsInput(ModulesOf(run, order, Resolved))
  <2>1. PICK found : found = Resolved
    OBVIOUS
  <2>2. /\ FP!IsFiniteSet(DOMAIN found)
        /\ \A s \in DOMAIN found :
             /\ s \in Nat /\ found[s] \in FP!RelocType /\ found[s].encoding = "Absolute"
             /\ found[s].kind = "ConjuredString" => run.strings[found[s].base] \in Nat
    BY <2>1, ResolvedFacts
  <2>3. FP!IsInput(ModulesOf(run, order, found))
    BY <1>3, <1>4, <1>5, <2>2, ModulesGiven
  <2> QED BY <2>1, <2>3
<1>7. /\ ModulesOf(run, order, Resolved).relocs = Resolved
      /\ ModulesOf(run, order, Resolved).definitions = order
  BY DEF ModulesOf
<1> QED BY <1>2, <1>6, <1>7, SameEmpty DEF FP!Begins, HandedOver

\* So it is under way.
LEMMA ObjectsBegun ==
  ASSUME run \in Inputs, MP!IInv, Relocating, HandedOver \/ FP!IInv
  PROVE  FP!IInv
<1>1. CASE HandedOver
  <2>1. FP!Begins
    BY <1>1, ObjectsBegin
  <2> QED BY <2>1, Assumptions, FP!InitInv
<1> QED BY <1>1
-----------------------------------------------------------------------------
(* The invariant holds.                                                     *)

\* A run starts with its manifests unread and the later stages waiting.
LEMMA PInit == Init => PInv
<1> SUFFICES ASSUME Init PROVE PInv
  OBVIOUS
<1>1. /\ run \in Inputs /\ m_phase = "open data" /\ lines = <<>> /\ saw_header = FALSE
      /\ definitions = <<>> /\ rows = <<>>
  BY DEF Init
<1>2. MP!Begins
  BY <1>1, ManifestsGiven DEF MP!Begins
<1>3. MP!IInv
  BY <1>2, Assumptions, MP!BeginsHolds
<1>4. RelocsWait /\ ObjectsWait
  BY DEF Init, RelocsWait, ObjectsWait
<1> QED BY <1>1, <1>3, <1>4 DEF PInv

\* A stage keeps its own invariant, ...
LEMMA ManifestsKept == MP!IInv /\ [MP!Next]_MP!vars => MP!IInv'
BY Assumptions, MP!NextKeeps

\* ... and so do the others, ...
LEMMA RelocsKept ==
  RP!Coverage /\ RP!AddendsRelink /\ [RP!Next]_RP!vars => RP!Coverage' /\ RP!AddendsRelink'
BY Assumptions, RP!NextCovers, RP!NextRelinks DEF RP!Coverage

\* ... each over the variables it is given.
LEMMA ObjectsKept == FP!IInv /\ [FP!Next]_FP!vars => FP!IInv'
BY Assumptions, FP!StepInv

\* What a stage is given does not change under it.
LEMMA GivenKept ==
  /\ run' = run => ManifestsOf(run)' = ManifestsOf(run)
  /\ run' = run /\ manifests' = manifests =>
       /\ ParsedDefinitions' = ParsedDefinitions /\ ParsedSites' = ParsedSites
       /\ InEmissionOrder' = InEmissionOrder
  /\ sited' = sited => Resolved' = Resolved
<1>1. run' = run => ManifestsOf(run)' = ManifestsOf(run)
  BY DEF ManifestsOf
<1>2. ASSUME run' = run, manifests' = manifests
      PROVE  /\ ParsedDefinitions' = ParsedDefinitions /\ ParsedSites' = ParsedSites
             /\ InEmissionOrder' = InEmissionOrder
  <2>1. definitions' = definitions /\ rows' = rows
    BY <1>2 DEF manifests
  <2>2. M!EmissionOrders' = M!EmissionOrders
    BY <2>1 DEF M!EmissionOrders, M!ToSet, M!Key, M!Rank, M!OffsetOrRva, M!OrElse
  <2>3. InEmissionOrder' = InEmissionOrder
    BY <2>2 DEF InEmissionOrder
  <2> QED BY <1>2, <2>1, <2>3 DEF ParsedDefinitions, ParsedSites
<1>3. sited' = sited => Resolved' = Resolved
  BY DEF Resolved
<1> QED BY <1>1, <1>2, <1>3

\* The manifest stage at rest.
LEMMA ManifestsRest ==
  ASSUME MP!IInv, UNCHANGED <<run, manifests>>
  PROVE  MP!IInv'
<1>1. UNCHANGED MP!vars
  BY GivenKept DEF MP!vars, manifests
<1> QED BY <1>1, ManifestsKept

\* The relocation stage at rest, before it begins, in it or after it.
LEMMA RelocsRest ==
  ASSUME RelocsWait \/ Relocating, UNCHANGED <<run, manifests, relocs>>
  PROVE  RelocsWait' \/ Relocating'
<1>1. CASE RelocsWait
  <2>1. RelocsWait'
    BY <1>1 DEF RelocsWait, relocs, M!EmptyMap
  <2> QED BY <2>1
<1>2. CASE Relocating
  <2>1. UNCHANGED RP!vars
    BY GivenKept DEF RP!vars, relocs
  <2>2. RP!Coverage' /\ RP!AddendsRelink'
    BY <1>2, <2>1, RelocsKept DEF Relocating
  <2>3. Relocating'
    BY <1>2, <2>2 DEF Relocating, manifests
  <2> QED BY <2>3
<1> QED BY <1>1, <1>2

\* The object stage at rest.
LEMMA ObjectsRest ==
  ASSUME ObjectsWait \/ Building, UNCHANGED <<run, manifests, relocs, files>>
  PROVE  ObjectsWait' \/ Building'
<1>0. sited' = sited /\ r_phase' = r_phase
  BY DEF relocs
<1>1. CASE ObjectsWait
  <2>1. ObjectsWait'
    BY <1>1 DEF ObjectsWait, files, M!EmptyMap
  <2> QED BY <2>1
<1>2. CASE Building /\ HandedOver
  <2>1. HandedOver'
    BY <1>0, <1>2, GivenKept DEF HandedOver, files, M!EmptyMap
  <2> QED BY <1>0, <1>2, <2>1 DEF Building, files
<1>3. CASE Building /\ FP!IInv
  <2>1. UNCHANGED FP!vars
    BY <1>0, GivenKept DEF FP!vars, files
  <2>2. FP!IInv'
    BY <1>3, <2>1, ObjectsKept
  <2> QED BY <1>0, <1>3, <2>2 DEF Building, files
<1> QED BY <1>1, <1>2, <1>3 DEF Building

\* `DataManifest::load` and `RelocManifest::load`
LEMMA LoadKeeps == PInv /\ LoadManifests => PInv'
<1> SUFFICES ASSUME PInv, LoadManifests PROVE PInv'
  OBVIOUS
<1>1. /\ run \in Inputs /\ MP!IInv /\ run' = run /\ UNCHANGED <<relocs, files>>
      /\ MP!Next /\ m_phase # "loaded"
  BY SameManifests DEF PInv, LoadManifests, M!Over
<1>2. RelocsWait
  BY <1>1 DEF PInv, Relocating
<1>3. ObjectsWait
  BY <1>2 DEF PInv, RelocsWait, Building
<1>4. MP!IInv'
  BY <1>1, ManifestsKept
<1>5. RelocsWait'
  BY <1>1, <1>2 DEF RelocsWait, relocs, M!EmptyMap
<1>6. ObjectsWait'
  BY <1>1, <1>3 DEF ObjectsWait, files, M!EmptyMap
<1> QED BY <1>1, <1>4, <1>5, <1>6 DEF PInv

\* `resolve_absolute_relocations`
LEMMA ResolveKeeps == PInv /\ ResolveRelocations => PInv'
<1> SUFFICES ASSUME PInv, ResolveRelocations PROVE PInv'
  OBVIOUS
<1>1. /\ run \in Inputs /\ MP!IInv /\ UNCHANGED <<run, manifests, files>>
      /\ RP!Next /\ m_phase = "loaded" /\ r_phase # "resolved"
  BY SameRelocs DEF PInv, ResolveRelocations, R!Over
<1>2. Relocating
  BY <1>1, RelocsBegun DEF PInv
<1>3. ObjectsWait
  BY <1>1 DEF PInv, Building
<1>4. MP!IInv'
  BY <1>1, ManifestsRest
<1>5. RP!Coverage' /\ RP!AddendsRelink'
  BY <1>1, <1>2, RelocsKept DEF Relocating
<1>6. Relocating'
  BY <1>1, <1>5 DEF Relocating, manifests
<1>7. ObjectsWait'
  BY <1>1, <1>3 DEF ObjectsWait, files, M!EmptyMap
<1> QED BY <1>1, <1>4, <1>6, <1>7 DEF PInv

\* The hand-over to `ObjectFiles::parse`
LEMMA StartKeeps == PInv /\ StartObjects => PInv'
<1> SUFFICES ASSUME PInv, StartObjects PROVE PInv'
  OBVIOUS
<1>1. /\ run \in Inputs /\ MP!IInv /\ UNCHANGED <<run, manifests, relocs>>
      /\ r_phase = "resolved" /\ o_phase = "waiting"
      /\ relocs_rva' = Resolved /\ o_phase' = "definitions" /\ todo' = InEmissionOrder
      /\ UNCHANGED <<objects, body, left, stack, call, visited>>
  BY DEF PInv, StartObjects
<1>2. ObjectsWait
  BY <1>1 DEF PInv, Building
<1>3. sited' = sited /\ r_phase' = "resolved"
  BY <1>1 DEF relocs
<1>4. HandedOver'
  BY <1>1, <1>2, <1>3, GivenKept DEF HandedOver, ObjectsWait, M!EmptyMap
<1>5. Building'
  BY <1>1, <1>3, <1>4 DEF Building
<1>6. MP!IInv' /\ (RelocsWait' \/ Relocating')
  BY <1>1, ManifestsRest, RelocsRest DEF PInv
<1> QED BY <1>1, <1>5, <1>6 DEF PInv

\* `ObjectFiles::parse`
LEMMA BuildKeeps == PInv /\ BuildObjects => PInv'
<1> SUFFICES ASSUME PInv, BuildObjects PROVE PInv'
  OBVIOUS
<1>1. /\ run \in Inputs /\ MP!IInv /\ UNCHANGED <<run, manifests, relocs>>
      /\ FP!Next /\ o_phase # "waiting"
  BY SameObjectFiles DEF PInv, BuildObjects
<1>2. Building
  BY <1>1 DEF PInv, ObjectsWait
<1>3. Relocating
  BY <1>2 DEF PInv, Building, RelocsWait
<1>4. FP!IInv
  BY <1>1, <1>2, <1>3, ObjectsBegun DEF Building
<1>5. FP!IInv'
  BY <1>1, <1>4, ObjectsKept
<1>6. o_phase' # "waiting"
  BY <1>5 DEF FP!IInv, FP!Formed, FP!TypeOK, FP!Failures
<1>7. Building'
  BY <1>1, <1>2, <1>5, <1>6 DEF Building, relocs
<1>8. MP!IInv' /\ (RelocsWait' \/ Relocating')
  BY <1>1, ManifestsRest, RelocsRest DEF PInv
<1> QED BY <1>1, <1>7, <1>8 DEF PInv

\* The invariant holds in every state of a run: what a stage hands over is
\* what the next one can be given, and no stage is disturbed by another.
THEOREM PipelineInductive == Spec => []PInv
<1>1. PInv /\ [Next]_vars => PInv'
  <2> SUFFICES ASSUME PInv, [Next]_vars PROVE PInv'
    OBVIOUS
  <2>1. CASE UNCHANGED vars
    <3>1. UNCHANGED <<run, manifests, relocs, files>>
      BY <2>1 DEF vars
    <3> QED BY <3>1, ManifestsRest, RelocsRest, ObjectsRest DEF PInv
  <2>2. CASE LoadManifests \/ ResolveRelocations \/ StartObjects \/ BuildObjects
    BY <2>2, LoadKeeps, ResolveKeeps, StartKeeps, BuildKeeps
  <2> QED BY <2>1, <2>2 DEF Next, Stop
<1> QED BY <1>1, PInit, PTL DEF Spec
-----------------------------------------------------------------------------
(* What the stages establish together.                                      *)

\* The sites of the image are the same sites.
LEMMA SameSites ==
  /\ R!ListedSites = RP!ListedSites
  /\ \A s : R!Linked(s) = RP!Linked(s) /\ R!FieldAt(s) = RP!FieldAt(s)
  /\ \A s : R!Unrelocatable(s) <=> RP!Unrelocatable(s)
  /\ \A f, s : R!Field(f, s) = RP!Field(f, s)
  /\ \A b : R!FromBytes(b) = RP!FromBytes(b)
  /\ \A t : R!DataTarget(t) <=> RP!DataTarget(t)
  /\ \A d, t : R!Covers(d, t) <=> RP!Covers(d, t)
<1>1. \A s : R!Linked(s) = RP!Linked(s) /\ R!FieldAt(s) = RP!FieldAt(s)
  BY DEF
     R!Linked, RP!Linked, R!FieldAt, RP!FieldAt, R!FromBytes, RP!FromBytes, R!Field,
     RP!Field
<1>2. /\ \A t : R!DataTarget(t) <=> RP!DataTarget(t)
      /\ \A d, t : R!Covers(d, t) <=> RP!Covers(d, t)
  BY DEF
     R!DataTarget, RP!DataTarget, R!Covers, RP!Covers, R!In, RP!In
<1>3. \A s : R!Unrelocatable(s) <=> RP!Unrelocatable(s)
  BY <1>1, <1>2 DEF
     R!Unrelocatable, RP!Unrelocatable, R!In, RP!In
<1>4. R!ListedSites = RP!ListedSites
  BY <1>1 DEF
     R!ListedSites, RP!ListedSites, R!DirectorySites, RP!DirectorySites,
     R!ManifestSites, RP!ManifestSites, R!ScanSites, RP!ScanSites, R!AddressSpace,
     RP!AddressSpace, R!Rva, RP!Rva, R!Readable, RP!Readable, R!Starts, RP!Starts
<1>5. /\ \A f, s : R!Field(f, s) = RP!Field(f, s)
      /\ \A b : R!FromBytes(b) = RP!FromBytes(b)
  BY DEF
     R!Field, RP!Field, R!FromBytes, RP!FromBytes
<1> QED BY <1>1, <1>2, <1>3, <1>4, <1>5

\* The places of an object are the same places.
LEMMA SamePlaces ==
  F!Copied = FP!Copied /\ \A o, a, s : F!RelocsAt(o, a, s) = FP!RelocsAt(o, a, s)
BY DEF F!Copied, FP!Copied, F!RelocsAt, FP!RelocsAt

\* In the end every stage has its invariant.
LEMMA Built ==
  ASSUME PInv, o_phase = "built"
  PROVE  /\ run \in Inputs /\ MP!IInv /\ m_phase = "loaded"
         /\ Relocating /\ r_phase = "resolved" /\ FP!IInv
<1>1. Building
  BY DEF PInv, ObjectsWait
<1>2. FP!IInv /\ r_phase = "resolved"
  BY <1>1 DEF Building, HandedOver
<1> QED BY <1>2 DEF PInv, RelocsWait, Relocating

\* `RelocKind::get_name`, of a resolved site.
NameAt(s) ==
  IF sited[s].kind = "ConjuredString" THEN run.string_name[sited[s].base]
  ELSE run.symbol_name[sited[s].base]

\* That name is the name of its symbol's address.
LEMMA BaseNamed ==
  ASSUME PInv, o_phase = "built", NEW s \in DOMAIN sited
  PROVE  sited[s].base \in Named(NameAt(s))
<1>1. PICK image : image = ImageOf(run, ParsedDefinitions, ParsedSites)
  OBVIOUS
<1>2. RP!IInv
  BY Built DEF Relocating, RP!Coverage
<1>3. /\ sited[s].kind \in RP!Kinds
      /\ sited[s].kind = "Function" => sited[s].base \in image.functions
      /\ sited[s].kind = "ReviewedData" => \E d \in image.definitions : d.rva = sited[s].base
      /\ sited[s].kind = "ConjuredString" => sited[s].base \in DOMAIN image.strings
      /\ sited[s].kind = "ConjuredConstant" => sited[s].base \in image.constants
      /\ sited[s].kind = "ConjuredStatic" => sited[s].base \in image.statics
  BY <1>1, <1>2, Assumptions, RP!RecordedBase
<1>4. /\ image.functions = run.functions /\ image.definitions = ParsedDefinitions
      /\ image.strings = run.strings /\ image.constants = run.constants
      /\ image.statics = run.statics
  BY <1>1 DEF ImageOf
<1>5. \A d \in ParsedDefinitions :
        d.rva \in run.statics \cup run.constants \cup DOMAIN run.strings
  <2>1. MP!ToSet(definitions) = ParsedDefinitions
    BY DEF MP!ToSet, ParsedDefinitions
  <2> QED BY <2>1, Built DEF MP!IInv, MP!Identified, ManifestsOf
<1> QED BY <1>3, <1>4, <1>5 DEF Named, NameAt, RP!Kinds

\* An object has a relocation by that name at every resolved site in bytes it
\* did not conjure.
LEMMA SiteNamed ==
  ASSUME PInv, o_phase = "built", NEW name \in DOMAIN objects,
         NEW a \in objects[name].allocs, a.what \notin FP!Copied,
         NEW s \in DOMAIN sited, a.rva <= s, s + 4 <= a.rva + a.size
  PROVE  \E n \in FP!RelocsAt(objects[name], a, s) :
           objects[name].symbols[objects[name].relocs[n].symbol].name = NameAt(s)
<1>1. PICK modules : modules = ModulesOf(run, InEmissionOrder, Resolved)
  OBVIOUS
<1>2. modules.relocs = Resolved /\ modules.symbol_name = run.symbol_name
      /\ modules.string_name = run.string_name
  BY <1>1 DEF ModulesOf
<1>3. s \in DOMAIN Resolved /\ Resolved[s].kind = sited[s].kind
      /\ Resolved[s].base = sited[s].base
  BY DEF Resolved
<1>4. s \in Nat
  BY <1>3, Built, ResolvedFacts
<1>5. a.rva \in Nat /\ a.size \in Nat
  BY Built DEF FP!IInv, FP!Formed, FP!TypeOK, FP!ObjectType
<1>6. s < a.rva + a.size
  BY <1>4, <1>5
<1>7. \E n \in FP!RelocsAt(objects[name], a, s) :
        objects[name].symbols[objects[name].relocs[n].symbol].name
          = FP!NameOf(modules.relocs[s])
  BY <1>1, <1>2, <1>3, <1>6, Built, Assumptions, FP!HandedRelocated
<1>8. FP!NameOf(modules.relocs[s]) = NameAt(s)
  BY <1>1, <1>2, <1>3 DEF FP!NameOf, NameAt
<1> QED BY <1>7, <1>8

\* In the end of every run the relocations of an object, with the addends in its
\* bytes, say the addresses the linker wrote: whatever the sources of the sites,
\* the order they were met in, and the layout of the objects.
THEOREM ReferencesRelinkHolds == Spec => []ReferencesRelink
<1>1. PInv => ReferencesRelink
  <2> SUFFICES ASSUME PInv, o_phase = "built", NEW name \in DOMAIN objects,
                      NEW a \in objects[name].allocs,
                      NEW s \in Within(a), ~R!Unrelocatable(s), Undisturbed(s),
                      a.what \notin F!Copied
               PROVE  \E n \in F!RelocsAt(objects[name], a, s) :
                        \E b \in Named(objects[name].symbols[objects[name].relocs[n].symbol].name) :
                          b + R!FromBytes(R!Field(CutImage, s)) = TargetOf(s)
    BY DEF ReferencesRelink
  <2>1. s \in RP!ListedSites /\ a.rva <= s /\ s + 4 <= a.rva + a.size
    BY SameSites DEF Within, Listed
  <2>2. ~RP!Unrelocatable(s)
    BY SameSites
  <2>3. \A o \in DOMAIN sited \ {s} : RP!FieldAt(o) \cap RP!FieldAt(s) = {}
    BY SameSites DEF Undisturbed
  <2>4. /\ s \in DOMAIN sited
        /\ sited[s].base + RP!FromBytes(RP!Field(coff_data, s)) = RP!Linked(s) - ImageBase
    BY <2>1, <2>2, <2>3, Built, Assumptions, RP!ListedRelinks DEF Relocating
  <2>5. sited[s].base + R!FromBytes(R!Field(CutImage, s)) = TargetOf(s)
    BY <2>4, SameSites DEF CutImage, TargetOf
  <2>6. PICK n \in F!RelocsAt(objects[name], a, s) :
          objects[name].symbols[objects[name].relocs[n].symbol].name = NameAt(s)
    BY <2>1, <2>4, SiteNamed, SamePlaces
  <2>7. sited[s].base \in Named(NameAt(s))
    BY <2>4, BaseNamed
  <2> QED BY <2>5, <2>6, <2>7
<1> QED BY <1>1, PipelineInductive, PTL

\* In the end of a strict run nothing is conjured ...
LEMMA StrictConjuresNothing ==
  ASSUME PInv, o_phase = "built", run.strict
  PROVE  \A name \in DOMAIN objects : \A a \in objects[name].allocs : a.what \notin F!Copied
<1>1. PICK image : image = ImageOf(run, ParsedDefinitions, ParsedSites)
  OBVIOUS
<1>2. PICK modules : modules = ModulesOf(run, InEmissionOrder, Resolved)
  OBVIOUS
<1>3. image.strict = run.strict /\ modules.relocs = Resolved
  BY <1>1, <1>2 DEF ImageOf, ModulesOf
<1>4. RP!IInv /\ FP!NothingCopied
  BY Built DEF Relocating, RP!Coverage, FP!IInv
<1>5. ASSUME NEW s \in DOMAIN sited
      PROVE  sited[s].kind \in {"Function", "ReviewedData"}
  <2>1. image.strict => sited[s].kind \in {"Function", "ReviewedData"}
    BY <1>1, <1>4, Assumptions, RP!RecordedBase
  <2> QED BY <1>3, <2>1
<1>6. \A s \in DOMAIN modules.relocs : ~FP!Conjured(modules.relocs[s])
  BY <1>3, <1>5 DEF Resolved, FP!Conjured
<1> QED BY <1>2, <1>4, <1>6, SamePlaces DEF FP!NothingCopied

\* ... and every definition is to be found under its name.
LEMMA DefinitionDefined ==
  ASSUME PInv, o_phase = "built", NEW d \in ParsedDefinitions
  PROVE  d.object \in DOMAIN objects /\ Defines(objects[d.object], d)
<1>1. PICK modules : modules = ModulesOf(run, InEmissionOrder, Resolved)
  OBVIOUS
<1>2. modules.definitions = InEmissionOrder /\ modules.symbol_name = run.symbol_name
  BY <1>1 DEF ModulesOf
<1>3. \E m \in DOMAIN InEmissionOrder : InEmissionOrder[m] = d
  BY Built, EmissionOrderFacts
<1>4. \A m \in DOMAIN modules.definitions : FP!Emission(modules.definitions[m])
  BY <1>1, Built DEF FP!IInv, FP!DefinitionsEmitted
<1>5. FP!Emission(d)
  BY <1>2, <1>3, <1>4
<1>6. PICK a \in objects[d.object].allocs :
        FP!OfDefinition(d, a) /\ FP!Named(objects[d.object], a)
  BY <1>5 DEF FP!Emission
<1>7. d.object \in DOMAIN objects
  BY <1>5 DEF FP!Emission
<1>8. \E n \in DOMAIN objects[d.object].symbols :
        /\ objects[d.object].symbols[n].name = run.symbol_name[a.rva]
        /\ objects[d.object].symbols[n].section = a.section
        /\ objects[d.object].symbols[n].value = a.offset
  BY <1>1, <1>2, <1>6 DEF FP!Named
<1>9. Defines(objects[d.object], d)
  BY <1>6, <1>8 DEF Defines, FP!OfDefinition
<1> QED BY <1>7, <1>9

\* In the end of every strict run the objects are closed under data: a strict
\* relocation stage, a manifest and an object stage make them so together.
THEOREM StrictClosedHolds == Spec => []StrictClosed
<1>1. PInv => StrictClosed
  <2> SUFFICES ASSUME PInv, o_phase = "built", run.strict, NEW name \in DOMAIN objects,
                      NEW a \in objects[name].allocs
               PROVE  /\ a.what \notin F!Copied
                      /\ \A s \in {x \in Within(a) : R!DataTarget(TargetOf(x))} :
                           \E n \in F!RelocsAt(objects[name], a, s), k \in DOMAIN definitions :
                             /\ R!Covers(definitions[k], TargetOf(s))
                             /\ objects[name].symbols[objects[name].relocs[n].symbol].name
                                  = run.symbol_name[definitions[k].rva]
                             /\ definitions[k].object \in DOMAIN objects
                             /\ Defines(objects[definitions[k].object], definitions[k])
    BY DEF StrictClosed
  <2>1. a.what \notin F!Copied
    BY StrictConjuresNothing
  <2>2. ASSUME NEW s \in Within(a), R!DataTarget(TargetOf(s))
        PROVE  \E n \in F!RelocsAt(objects[name], a, s), k \in DOMAIN definitions :
                 /\ R!Covers(definitions[k], TargetOf(s))
                 /\ objects[name].symbols[objects[name].relocs[n].symbol].name
                      = run.symbol_name[definitions[k].rva]
                 /\ definitions[k].object \in DOMAIN objects
                 /\ Defines(objects[definitions[k].object], definitions[k])
    <3>1. s \in RP!ListedSites /\ a.rva <= s /\ s + 4 <= a.rva + a.size
      BY SameSites DEF Within, Listed
    <3>2. RP!DataTarget(RP!Linked(s) - ImageBase) /\ TargetOf(s) = RP!Linked(s) - ImageBase
      BY <2>2, SameSites DEF TargetOf
    <3>3. PICK image : image = ImageOf(run, ParsedDefinitions, ParsedSites)
      OBVIOUS
    <3>4. image.strict /\ image.definitions = ParsedDefinitions
      BY <3>3 DEF ImageOf
    <3>5. /\ s \in DOMAIN sited /\ sited[s].kind = "ReviewedData"
          /\ \E d \in image.definitions :
               d.rva = sited[s].base /\ RP!Covers(d, RP!Linked(s) - ImageBase)
      BY <3>1, <3>2, <3>3, <3>4, Built, Assumptions, RP!ListedReviewed DEF Relocating
    <3>6. PICK d \in ParsedDefinitions :
            d.rva = sited[s].base /\ R!Covers(d, TargetOf(s))
      BY <3>2, <3>4, <3>5, SameSites
    <3>7. PICK k \in DOMAIN definitions : definitions[k] = d
      BY DEF ParsedDefinitions
    <3>8. PICK n \in F!RelocsAt(objects[name], a, s) :
            objects[name].symbols[objects[name].relocs[n].symbol].name = NameAt(s)
      BY <2>1, <3>1, <3>5, SiteNamed, SamePlaces
    <3>9. NameAt(s) = run.symbol_name[d.rva]
      BY <3>5, <3>6 DEF NameAt
    <3>10. d.object \in DOMAIN objects /\ Defines(objects[d.object], d)
      BY DefinitionDefined
    <3> QED BY <3>6, <3>7, <3>8, <3>9, <3>10
  <2> QED BY <2>1, <2>2
<1> QED BY <1>1, PipelineInductive, PTL

\* The places of an order, and the candidates of a manifest, are the same.
LEMMA SameLayout ==
  /\ \A order, n, pad_rdata : MP!PlacedAt(order, n, pad_rdata) = FP!PlacedAt(order, n, pad_rdata)
  /\ \A d : M!Candidates(d) = MP!Candidates(d)
  /\ \A d, pad_rdata : M!LaidOut(d, pad_rdata) <=> MP!LaidOut(d, pad_rdata)
<1>1. /\ \A offset, alignment : MP!AlignUp(offset, alignment) = FP!AlignUp(offset, alignment)
      /\ \A offset, alignment : M!AlignUp(offset, alignment) = MP!AlignUp(offset, alignment)
  BY DEF M!AlignUp, MP!AlignUp, FP!AlignUp
<1>2. /\ \A section, pad_rdata : MP!Padding(section, pad_rdata) = FP!Padding(section, pad_rdata)
      /\ \A section, pad_rdata : M!Padding(section, pad_rdata) = MP!Padding(section, pad_rdata)
  BY DEF M!Padding, MP!Padding, FP!Padding
<1>3. ASSUME NEW order, NEW object, NEW section, NEW pad_rdata
      PROVE  MP!SectionEnd(order, object, section, pad_rdata)
               = FP!SectionEnd(order, object, section, pad_rdata)
  BY <1>1, <1>2, Zenon DEF MP!SectionEnd, FP!SectionEnd
<1>4. ASSUME NEW order, NEW n, NEW pad_rdata
      PROVE  MP!PlacedAt(order, n, pad_rdata) = FP!PlacedAt(order, n, pad_rdata)
  BY <1>1, <1>3, Zenon DEF MP!PlacedAt, FP!PlacedAt
<1>5. \A d : M!Section(d) = MP!Section(d) /\ M!Candidates(d) = MP!Candidates(d)
  BY DEF M!Section, MP!Section, M!Candidates, MP!Candidates, M!ToSet, MP!ToSet
<1>6. /\ \A e : M!At(e) = MP!At(e)
      /\ \A S : M!Max(S) = MP!Max(S)
  BY Zenon DEF M!At, MP!At, M!Max, MP!Max
<1>7. ASSUME NEW group, NEW pad_rdata
      PROVE  M!Realisable(group, pad_rdata) <=> MP!Realisable(group, pad_rdata)
  BY <1>1, <1>2, <1>6, Zenon DEF M!Realisable, MP!Realisable
<1>8. ASSUME NEW d, NEW pad_rdata
      PROVE  M!LaidOut(d, pad_rdata) <=> MP!LaidOut(d, pad_rdata)
  BY <1>5, <1>6, <1>7, Zenon DEF M!LaidOut, MP!LaidOut
<1> QED BY <1>4, <1>5, <1>8

\* A definition that its candidate offset has kept out is not in a layout.
LEMMA MismatchCaused ==
  ASSUME run \in Inputs, MP!IInv, m_phase = "loaded", FP!IInv,
         LET modules == ModulesOf(run, InEmissionOrder, Resolved)
         IN  \E m \in DOMAIN modules.definitions :
               \E expected \in modules.definitions[m].section_offset :
                 expected # FP!PlacedAt(modules.definitions, m, modules.pad_rdata)
  PROVE  \E n \in DOMAIN definitions :
           /\ definitions[n] \in M!Candidates(definitions[n])
           /\ ~M!LaidOut(definitions[n], run.pad_rdata)
<1>1. PICK modules : modules = ModulesOf(run, InEmissionOrder, Resolved)
  OBVIOUS
<1>2. modules.definitions = InEmissionOrder /\ modules.pad_rdata = run.pad_rdata
  BY <1>1 DEF ModulesOf
<1>3. PICK m \in DOMAIN InEmissionOrder :
        \E expected \in InEmissionOrder[m].section_offset :
          expected # MP!PlacedAt(InEmissionOrder, m, run.pad_rdata)
  BY <1>1, <1>2, SameLayout
<1>4. PICK order, d : order = InEmissionOrder /\ d = order[m]
  OBVIOUS
<1>5. /\ d \in MP!DefinitionType /\ d \in ParsedDefinitions
      /\ order \in MP!EmissionOrders /\ m \in DOMAIN order
  <2>1. /\ order \in Seq(MP!DefinitionType) /\ order \in MP!EmissionOrders
        /\ \A c : (\E n \in DOMAIN order : order[n] = c) <=> c \in ParsedDefinitions
    BY <1>4, EmissionOrderFacts
  <2>2. m \in DOMAIN order
    BY <1>3, <1>4
  <2>3. ASSUME NEW S, NEW s, s \in Seq(S), NEW k \in DOMAIN s PROVE s[k] \in S
    BY <2>3
  <2> QED BY <1>4, <2>1, <2>2, <2>3
<1>6. PICK n \in DOMAIN definitions : definitions[n] = d
  BY <1>5 DEF ParsedDefinitions
<1>7. d \in MP!Candidates(d)
  <2>1. d \in MP!ToSet(definitions)
    BY <1>6 DEF MP!ToSet
  <2>2. d.section_offset # {}
    BY <1>3, <1>4
  <2> QED BY <2>1, <2>2 DEF MP!Candidates, MP!Section
<1>8. MP!At(d) # MP!PlacedAt(order, m, run.pad_rdata)
  <2>1. MP!At(d) \in d.section_offset
    BY <1>3, <1>4 DEF MP!At
  <2>2. \A x, y \in d.section_offset : x = y
    <3>1. d.section_offset \in MP!Numbers
      BY <1>5 DEF MP!DefinitionType
    <3> QED BY <3>1 DEF MP!Numbers
  <2> QED BY <1>3, <1>4, <2>1, <2>2
<1>9. run.pad_rdata \in BOOLEAN
  BY <1>1, <1>2 DEF FP!IInv, FP!Formed, FP!TypeOK, FP!IsInput
<1>10. MP!CandidateLayoutEmitted
  BY Assumptions, MP!LayoutEmitted
<1>11. ~MP!LaidOut(d, run.pad_rdata)
  BY <1>4, <1>5, <1>7, <1>8, <1>9, <1>10 DEF MP!CandidateLayoutEmitted
<1> QED BY <1>6, <1>7, <1>11, SameLayout

\* The layout of the objects is the one the candidates were ordered for: only a
\* manifest whose offsets cannot be had is refused for them.
THEOREM LayoutRefusedForCauseHolds == Spec => []LayoutRefusedForCause
<1>1. PInv => LayoutRefusedForCause
  <2>1. ASSUME PInv, o_phase = "topology mismatch"
        PROVE  /\ run \in Inputs /\ MP!IInv /\ m_phase = "loaded" /\ FP!IInv
               /\ FP!MismatchFound
    <3>1. Building
      BY <2>1, Zenon DEF PInv, ObjectsWait
    <3>2. FP!IInv /\ r_phase = "resolved"
      BY <2>1, <3>1, Zenon DEF Building, HandedOver
    <3>3. FP!MismatchFound
      BY <3>2, Zenon DEF FP!IInv
    <3> QED BY <2>1, <3>2, <3>3, Zenon DEF PInv, RelocsWait, Relocating
  <2> QED BY <2>1, MismatchCaused, Zenon DEF LayoutRefusedForCause, FP!MismatchFound
<1> QED BY <1>1, PipelineInductive, PTL
=============================================================================
