------------------------------ MODULE Pipeline ------------------------------
(***************************************************************************)
(* The stages of a run, one after the other: `process_executable` in       *)
(* src/src/main.rs, from the manifests to the objects before they are      *)
(* written.                                                                *)
(*                                                                         *)
(* Each stage is the specification of its own module, over variables of    *)
(* its own; this module says what one stage hands to the next, and what    *)
(* only the stages together can promise of the objects.  The symbol tables *)
(* of PdbSymbols are part of what a run is given.                          *)
(***************************************************************************)
EXTENDS Integers, Sequences

CONSTANTS
  Radix, ImageBase, ImageSize, UsizeMax,
  Text, Rdata, Data,     \* the sections, records [rva, size]
  Inputs                 \* runs: images, PDBs, manifests and options

VARIABLES
  run,                                                  \* constant
  m_phase, lines, saw_header, definitions, rows,        \* Manifests
  coff_data, sited, r_phase, blocks, page, entries, sites, scan,     \* Relocs
  objects, relocs_rva, o_phase, todo, body, left, stack, call, visited  \* ObjectFiles

manifests == <<m_phase, lines, saw_header, definitions, rows>>
relocs == <<coff_data, sited, r_phase, blocks, page, entries, sites, scan>>
files == <<objects, relocs_rva, o_phase, todo, body, left, stack, call, visited>>

vars == <<run, manifests, relocs, files>>
-----------------------------------------------------------------------------
(* The stages.                                                              *)

\* What the parsers of the manifests are given of a run.
ManifestsOf(r) ==
  [data |-> r.data, reloc |-> r.reloc_manifest,
   statics |-> r.statics, constants |-> r.constants, strings |-> DOMAIN r.strings]

\* `DataManifest::load`, `RelocManifest::load`
M == INSTANCE Manifests WITH
       phase <- m_phase, sites <- rows, Inputs <- {}, input <- ManifestsOf(run)

\* What `resolve_absolute_relocations` is given: the manifests parsed.
ImageOf(r, reviewed, listed) ==
  [exe |-> r.exe, functions |-> r.functions, constants |-> r.constants,
   statics |-> r.statics, strings |-> r.strings, definitions |-> reviewed,
   strict |-> r.strict, reloc |-> r.directory, manifest |-> listed,
   rediscover |-> r.rediscover, bound |-> r.bound, overflow_checks |-> r.overflow_checks]

\* The definitions, and the reloc manifest if the run has one.
ParsedDefinitions == {definitions[n] : n \in DOMAIN definitions}
ParsedSites == {m \in {rows} : run.reloc_manifest # {}}

R == INSTANCE Relocs WITH
       phase <- r_phase, relocs_rva <- sited, Inputs <- {},
       input <- ImageOf(run, ParsedDefinitions, ParsedSites)

\* What `ObjectFiles::parse` is given: an order of emission and a map of sites.
ModulesOf(r, order, found) ==
  [definitions |-> order, relocs |-> found,
   functions |-> r.modules, public |-> r.functions,
   symbol_name |-> r.symbol_name, string_name |-> r.string_name,
   strings |-> r.strings, pad_rdata |-> r.pad_rdata, overflow_checks |-> r.overflow_checks]

\* `definitions_in_emission_order`: RVAs are unique, and so is the order.
InEmissionOrder == CHOOSE order \in M!EmissionOrders : TRUE

\* Mutant: the objects are cut from the image as it was mapped.
MappedImage == run.exe

\* The image the objects are cut from: the rewritten one.
CutImage == coff_data

\* What the resolved sites are to `ObjectFiles::parse`.
Resolved ==
  [s \in DOMAIN sited |->
     [kind |-> sited[s].kind, base |-> sited[s].base, target |-> sited[s].target,
      encoding |-> "Absolute"]]

F == INSTANCE ObjectFiles WITH
       phase <- o_phase, sites <- left, Inputs <- {},
       input <- ModulesOf(run, InEmissionOrder, Resolved)

\* A run is one that every stage can be given, whatever the ones before it find.
IsRun(r) ==
  /\ M!IsInput(ManifestsOf(r))
  /\ R!IsInput(ImageOf(r, {}, {}))
  /\ F!IsInput(ModulesOf(r, <<>>, M!EmptyMap))

ASSUME RunsAssumption ==
  /\ Radix \in Nat \ {0}
  /\ ImageBase \in Nat /\ ImageSize \in Nat /\ UsizeMax \in Nat
  /\ ImageBase + ImageSize <= R!AddressSpace
  /\ \A section \in {Text, Rdata, Data} : section \in R!SectionType
  /\ R!Disjoint(Text, Rdata) /\ R!Disjoint(Text, Data) /\ R!Disjoint(Rdata, Data)
  /\ \A r \in Inputs : IsRun(r)
-----------------------------------------------------------------------------
(* `process_executable`                                                     *)

Init ==
  /\ run \in Inputs
  /\ m_phase = "open data"
  /\ lines = <<>> /\ saw_header = FALSE /\ definitions = <<>> /\ rows = <<>>
  /\ coff_data = run.exe /\ sited = M!EmptyMap /\ r_phase = "select"
  /\ blocks = <<>> /\ page = 0 /\ entries = <<>> /\ sites = <<>>
  /\ scan = [section |-> 1, site |-> Text.rva]
  /\ objects = M!EmptyMap /\ relocs_rva = M!EmptyMap /\ o_phase = "waiting"
  /\ todo = <<>> /\ body = {} /\ left = {} /\ stack = <<>> /\ call = {} /\ visited = {}

LoadManifests ==
  /\ ~M!Over
  /\ UNCHANGED <<run, relocs, files>>
  /\ M!Next

ResolveRelocations ==
  /\ m_phase = "loaded" /\ ~R!Over
  /\ UNCHANGED <<run, manifests, files>>
  /\ R!Next

\* The map of resolved sites moves into the object stage, which adds to it.
StartObjects ==
  /\ r_phase = "resolved" /\ o_phase = "waiting"
  /\ relocs_rva' = Resolved
  /\ o_phase' = "definitions"
  /\ todo' = InEmissionOrder
  /\ UNCHANGED <<run, manifests, relocs, objects, body, left, stack, call, visited>>

BuildObjects ==
  /\ o_phase # "waiting" /\ ~F!Over
  /\ UNCHANGED <<run, manifests, relocs>>
  /\ F!Next

Failed ==
  m_phase \in M!Failures \/ r_phase \in R!Failures \/ o_phase \in F!Failures

Stop == (Failed \/ o_phase = "built") /\ UNCHANGED vars

Next == LoadManifests \/ ResolveRelocations \/ StartObjects \/ BuildObjects \/ Stop

Spec == Init /\ [][Next]_vars
-----------------------------------------------------------------------------
(* Properties.                                                              *)

\* The sites a run lists, of the image, the manifest or the scan.
Listed == R!ListedSites

\* An address of the linked image, relative to its base.
TargetOf(site) == R!Linked(site) - ImageBase

\* The sites in the bytes an object took from the image.
Within(a) == {s \in Listed : a.rva <= s /\ s + 4 <= a.rva + a.size}

\* No recorded field lies over another's.
Undisturbed(site) ==
  \A o \in DOMAIN sited \ {site} : R!FieldAt(o) \cap R!FieldAt(site) = {}

\* What a name says of an address: the RVAs it is the name of.
Named(name) ==
  {b \in run.functions \cup run.constants \cup run.statics : run.symbol_name[b] = name}
  \cup {b \in DOMAIN run.strings : name \in {run.string_name[b], run.symbol_name[b]}}

\* README.md: "A reference to an interior address is represented as that PDB
\* symbol plus its in-place COFF addend".  A relocation of an object, and the
\* addend in the bytes below it, say the address the linker wrote there; and
\* no address is left without one.  Classification, the rewriting of the
\* image, the layout of the object and the choice of the symbol all take part.
ReferencesRelink ==
  o_phase = "built" =>
    \A name \in DOMAIN objects : \A a \in objects[name].allocs :
      \A s \in {x \in Within(a) : ~R!Unrelocatable(x) /\ Undisturbed(x)} :
        LET o == objects[name]
        IN  a.what \notin F!Copied =>
              \E n \in F!RelocsAt(o, a, s) : \E b \in Named(o.symbols[o.relocs[n].symbol].name) :
                b + R!FromBytes(R!Field(CutImage, s)) = TargetOf(s)

\* An object defines a reviewed definition under its name, in its section.
Defines(o, d) ==
  \E n \in DOMAIN o.symbols, a \in o.allocs :
    /\ o.symbols[n].name = run.symbol_name[d.rva]
    /\ o.symbols[n].section = d.storage /\ o.symbols[n].value = a.offset
    /\ a.section = d.storage /\ a.what = "definition" /\ a.rva = d.rva

\* README.md, --strict: "require every PE base relocation whose target is in
\* .data or .rdata to be covered by a manifest definition".  The objects of a
\* strict run are closed under data: each data address in them is a reference
\* by name to a reviewed definition that its owner's object defines, and no
\* object holds a conjured copy.
StrictClosed ==
  o_phase = "built" /\ run.strict =>
    \A name \in DOMAIN objects :
      LET o == objects[name]
      IN  \A a \in o.allocs :
            /\ a.what \notin F!Copied
            /\ \A s \in {x \in Within(a) : R!DataTarget(TargetOf(x))} :
                 \E n \in F!RelocsAt(o, a, s), k \in DOMAIN definitions :
                   LET d == definitions[k]
                   IN  /\ R!Covers(d, TargetOf(s))
                       /\ o.symbols[o.relocs[n].symbol].name = run.symbol_name[d.rva]
                       /\ d.object \in DOMAIN objects /\ Defines(objects[d.object], d)

\* README.md: candidate offsets "order definitions within each object's storage
\* section and reject a layout that emits a different offset".  Only such a
\* layout is rejected: if the candidates of every section are offsets that its
\* definitions can have, with the padding that the run asked for, the order
\* that the manifest is emitted in and the sections that the objects are given
\* bring each definition to its own.
LayoutRefusedForCause ==
  o_phase = "topology mismatch" =>
    \E n \in DOMAIN definitions :
      /\ definitions[n] \in M!Candidates(definitions[n])
      /\ ~M!LaidOut(definitions[n], run.pad_rdata)
=============================================================================
