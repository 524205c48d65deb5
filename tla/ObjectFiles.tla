----------------------------- MODULE ObjectFiles -----------------------------
(***************************************************************************)
(* Building the object files: `ObjectFiles::parse` in                      *)
(* src/src/object_files.rs.                                                *)
(*                                                                         *)
(* Every reviewed definition is emitted into its owner's object, then the  *)
(* relocations inside the definitions, then every function of every module *)
(* with the relocations inside it.  A relocation inside a function whose   *)
(* target nobody reviewed is followed: the target's bytes are copied into  *)
(* the object, and if they are a pointer themselves so is what they point  *)
(* at, and so on.                                                          *)
(*                                                                         *)
(* Bytes are abstracted to where they come from: an allocation is a range  *)
(* of an object's section filled from a range of the image.  A step is one *)
(* definition, one function, or one call of `add_relocation_at`, whose     *)
(* recursion is the state variable stack.                                  *)
(***************************************************************************)
EXTENDS Integers, FiniteSets, Sequences, Lookup, Layout

CONSTANTS
  ImageSize,         \* length of coff_data
  Rdata, Data,       \* the data sections of `Env`, records [rva, size]
  Inputs             \* what the earlier stages hand over

\* The sections of an object.
Sections == {"text", "rdata", "data", "bss"}

\* A sequence of whatever it holds.
IsList(s) == s \in Seq({s[n] : n \in DOMAIN s})

Encodings == {"Absolute", "Relative"}

\* A RelocKind, as classification gives it, and its encoding.
RelocType ==
  [kind : {"Function", "ReviewedData", "ConjuredString", "ConjuredConstant", "ConjuredStatic"},
   base : Nat, target : Nat, encoding : Encodings]

IsDefinition(d) ==
  /\ d.rva \in Nat /\ d.size \in Nat \ {0} /\ d.alignment \in Nat \ {0}
  /\ d.storage \in {"rdata", "data", "bss"}
  /\ d.section_offset \subseteq Nat

\* The branches are those decoded from the function's bytes, and lie in it.  A
\* branch of data read as code can lead anywhere, below the image base too.
IsFunction(f) ==
  /\ f.rva \in Nat /\ f.size \in Nat
  /\ \A s \in f.source : s.engine \in BOOLEAN
  /\ f.form.qualified \in BOOLEAN /\ f.form.bullet \in BOOLEAN
  /\ IsFiniteSet(f.branches)
  /\ \A b \in f.branches :
       b.at \in Nat /\ b.len \in Nat /\ b.at + b.len <= f.size /\ b.target \in Int

\* An input has the definitions in emission order, the absolute relocations,
\* the procedures and thunks of the modules in order, the functions of the PDB
\* that a branch can name, the names (already picked) of the symbols and of
\* the strings by RVA, the lengths of the strings, the padding option, and
\* whether the build checks subtraction (a dev build does).  A function may
\* have a line record, which names a file; its own name is qualified or not,
\* one of Bullet's or not, and may begin with a scope.
IsInput(i) ==
  /\ IsList(i.definitions) /\ \A n \in DOMAIN i.definitions : IsDefinition(i.definitions[n])
  /\ \A m, n \in DOMAIN i.definitions :
       i.definitions[m].rva = i.definitions[n].rva => m = n
  /\ IsFiniteSet(DOMAIN i.relocs)
  /\ \A s \in DOMAIN i.relocs :
       /\ s \in Nat /\ i.relocs[s] \in RelocType /\ i.relocs[s].encoding = "Absolute"
       /\ i.relocs[s].kind = "ConjuredString" => i.strings[i.relocs[s].base] \in Nat
  /\ IsList(i.functions) /\ \A n \in DOMAIN i.functions : IsFunction(i.functions[n])
  /\ \A m, n \in DOMAIN i.functions :
       LET f == i.functions[m]
           g == i.functions[n]
       IN  f.rva = g.rva /\ f.size = g.size => f.branches = g.branches
  /\ i.public \subseteq Nat
  /\ i.pad_rdata \in BOOLEAN /\ i.overflow_checks \in BOOLEAN

ASSUME InputsAssumption ==
  /\ ImageSize \in Nat
  /\ \A i \in Inputs : IsInput(i)

VARIABLES
  input,       \* what the run was given; constant
  objects,     \* name -> object file
  relocs_rva,  \* site -> relocation; branches are added function by function
  phase,       \* which loop is running, or how the stage ended
  todo,        \* definitions or functions the loop has not reached
  body,        \* the allocation whose sites are being relocated
  sites,       \* its sites not yet relocated
  stack,       \* the calls of `add_relocation_at`: targets copied on this chain
  call,        \* the call about to be made, if any: [reloc, at]
  visited      \* `visited`: targets already expanded on this chain

vars ==
  <<input, objects, relocs_rva, phase, todo, body, sites, stack, call, visited>>

Failures ==
  {"does not fit", "outside image", "topology mismatch", "duplicate symbol",
   "bss relocation", "panic"}

The(optional) == CHOOSE x \in optional : TRUE
-----------------------------------------------------------------------------
(* One object file.                                                        *)

\* `ObjectFile::empty`
Empty ==
  [size      |-> [s \in Sections |-> Padding(s, input.pad_rdata)],
   symbols   |-> <<>>,       \* SymbolId -> [name, section, value]
   undefined |-> EmptyMap,   \* `undefined_symbols`: name -> SymbolId
   relocs    |-> <<>>,       \* [section, offset, symbol, encoding], in order
   allocs    |-> {}]         \* what lies where

\* `objects.entry(name).or_insert_with(ObjectFile::empty)`
Object(name) == IF name \in DOMAIN objects THEN objects[name] ELSE Empty

\* A section grows to an end.
Lengthen(o, section, end) == [o EXCEPT !.size[section] = end]

\* Bytes of the image put in a section, which then ends at `end`.
Allocate(o, alloc, end) ==
  [Lengthen(o, alloc.section, end) EXCEPT !.allocs = @ \cup {alloc}]

\* `append_with_padding`: never aligned, its own length padded to four.
Padded(o, section, what, rva, size, cleared) ==
  LET offset == o.size[section]
  IN  Allocate(o, [section |-> section, offset |-> offset, what |-> what,
                   rva |-> rva, size |-> size, cleared |-> cleared],
               offset + AlignUp(size, 4))

\* `add_symbol`
AddSymbol(o, name, section, value) ==
  [o EXCEPT !.symbols =
     Append(@, [name |-> name, section |-> section, value |-> value])]

\* `Object::symbol_id`: the writer's index by name, which holds the defined
\* symbols only, the last of a name.
SymbolId(o, name) ==
  {n \in DOMAIN o.symbols :
     /\ o.symbols[n].name = name /\ o.symbols[n].section # "undefined"
     /\ \A m \in DOMAIN o.symbols :
          o.symbols[m].name = name /\ o.symbols[m].section # "undefined" => m <= n}

Undefined(o, name) ==
  IF name \in DOMAIN o.undefined THEN {o.undefined[name]} ELSE {}

\* Mutant: the identity is taken once the symbol has been added.
WithExternOff(o, name) ==
  LET e == AddSymbol(o, name, "undefined", 0)
  IN  IF SymbolId(o, name) \cup Undefined(o, name) # {} THEN o
      ELSE [e EXCEPT !.undefined = Insert(@, name, Len(e.symbols) + 1)]

\* The object with a symbol for an `Extern` location: the defined one, else
\* the undefined one, made now if need be.
WithExtern(o, name) ==
  IF SymbolId(o, name) \cup Undefined(o, name) # {} THEN o
  ELSE [AddSymbol(o, name, "undefined", 0) EXCEPT
          !.undefined = Insert(@, name, Len(o.symbols) + 1)]

AddRelocation(o, symbol, at, encoding) ==
  [o EXCEPT !.relocs =
     Append(@, [section |-> at.section, offset |-> at.offset,
                symbol |-> symbol, encoding |-> encoding])]

\* Mutant: the newest symbol is taken for the one just asked for.
ReferNewest(o, name, at, encoding) ==
  LET e == WithExtern(o, name)
  IN  AddRelocation(e, Len(e.symbols), at, encoding)

\* `add_relocation` at `ObjectLocation::Extern`
Refer(o, name, at, encoding) ==
  LET e == WithExtern(o, name)
  IN  AddRelocation(e, The(OrElse(SymbolId(e, name), Undefined(e, name))), at, encoding)

\* What is copied: the word a pointer points at, or a whole string.
Copied == {"word", "string"}

\* `append_section_data`, then `add_relocation` at `ObjectLocation::Offset`: a
\* copy is always a symbol of its own.
Copy(o, section, what, rva, size, name, at) ==
  LET c == Padded(o, section, what, rva, size, {})
      d == AddSymbol(c, name, section, o.size[section])
  IN  AddRelocation(d, Len(d.symbols), at, "Absolute")
-----------------------------------------------------------------------------
Init ==
  /\ input \in Inputs
  /\ objects = EmptyMap
  /\ relocs_rva = input.relocs
  /\ phase = "definitions"
  /\ todo = input.definitions
  /\ body = {} /\ sites = {}
  /\ stack = <<>> /\ call = {} /\ visited = {}

Fail(reason) ==
  /\ phase' = reason
  /\ UNCHANGED <<input, objects, relocs_rva, todo, body, sites, stack, call, visited>>

\* The loop body has nothing left to relocate.
Idle == sites = {} /\ call = {}

SitesIn(rva, size) == {s \in DOMAIN relocs_rva : rva <= s /\ s < rva + size}
-----------------------------------------------------------------------------
(* Definitions: the first two loops of `parse`.                             *)

StorageSection(d) == IF d.storage = "rdata" THEN Rdata ELSE Data

Fits(d) ==
  LET section == StorageSection(d)
  IN  section.rva <= d.rva /\ d.rva + d.size <= section.rva + section.size

DefinitionOffset(d) == AlignUp(Object(d.object).size[d.storage], d.alignment)

DefinitionName(d) == input.symbol_name[d.rva]

Misplaced(d) == \E expected \in d.section_offset : DefinitionOffset(d) # expected

Duplicate(d) == SymbolId(Object(d.object), DefinitionName(d)) # {}

\* `add_data_definition`, and the check before it.
AddDataDefinition ==
  /\ phase = "definitions" /\ todo # <<>>
  /\ LET d == Head(todo)
         o == Object(d.object)
         offset == DefinitionOffset(d)
         placed == Allocate(o, [section |-> d.storage, offset |-> offset,
                                what |-> "definition", rva |-> d.rva,
                                size |-> d.size, cleared |-> {}],
                            offset + d.size)
     IN  /\ Fits(d) /\ d.rva + d.size <= ImageSize /\ ~Misplaced(d) /\ ~Duplicate(d)
         /\ objects' = Insert(objects, d.object,
                              AddSymbol(placed, DefinitionName(d), d.storage, offset))
  /\ todo' = Tail(todo)
  /\ UNCHANGED <<input, relocs_rva, phase, body, sites, stack, call, visited>>

RefuseDefinition ==
  /\ phase = "definitions" /\ todo # <<>>
  /\ LET d == Head(todo)
     IN  \/ ~Fits(d) /\ Fail("does not fit")
         \/ Fits(d) /\ d.rva + d.size > ImageSize /\ Fail("outside image")
         \/ /\ Fits(d) /\ d.rva + d.size <= ImageSize
            /\ \/ Misplaced(d) /\ Fail("topology mismatch")
               \/ ~Misplaced(d) /\ Duplicate(d) /\ Fail("duplicate symbol")

StartDataRelocations ==
  /\ phase = "definitions" /\ todo = <<>>
  /\ phase' = "data relocations" /\ todo' = input.definitions
  /\ UNCHANGED <<input, objects, relocs_rva, body, sites, stack, call, visited>>

\* `add_data_relocations`, which finds the definition again by its name.
AddDataRelocations ==
  /\ phase = "data relocations" /\ Idle /\ todo # <<>>
  /\ LET d == Head(todo)
         symbol == objects[d.object].symbols[
                     The(SymbolId(objects[d.object], DefinitionName(d)))]
     IN  /\ ~(d.storage = "bss" /\ SitesIn(d.rva, d.size) # {})
         /\ body' = {[object |-> d.object, rva |-> d.rva,
                      section |-> symbol.section, offset |-> symbol.value]}
         /\ sites' = SitesIn(d.rva, d.size)
  /\ todo' = Tail(todo)
  /\ UNCHANGED <<input, objects, relocs_rva, phase, stack, call, visited>>

RefuseBssRelocation ==
  /\ phase = "data relocations" /\ Idle /\ todo # <<>>
  /\ Head(todo).storage = "bss" /\ SitesIn(Head(todo).rva, Head(todo).size) # {}
  /\ Fail("bss relocation")

StartFunctions ==
  /\ phase = "data relocations" /\ Idle /\ todo = <<>>
  /\ phase' = "functions" /\ todo' = input.functions
  /\ UNCHANGED <<input, objects, relocs_rva, body, sites, stack, call, visited>>
-----------------------------------------------------------------------------
(* Functions: the loop over the modules.                                    *)

\* `get_function_location`: the file, if the engine's; for a function without
\* lines an object of its own kind.
FunctionLocation(f) ==
  IF f.source # {} THEN {s.path : s \in {x \in f.source : x.engine}}
  ELSE IF ~f.form.qualified THEN {"c_lang"}
  ELSE IF f.form.bullet THEN {"bullet"}
  ELSE OrElse(f.form.scope, {"cpp_lang"})

\* Mutant: a function without a location is not stepped over.
SkipFunctionForever ==
  /\ phase = "functions" /\ Idle /\ todo # <<>> /\ FunctionLocation(Head(todo)) = {}
  /\ body' = {}
  /\ UNCHANGED <<input, objects, relocs_rva, phase, todo, sites, stack, call, visited>>

SkipFunction ==
  /\ phase = "functions" /\ Idle /\ todo # <<>> /\ FunctionLocation(Head(todo)) = {}
  /\ todo' = Tail(todo)
  /\ UNCHANGED <<input, objects, relocs_rva, phase, body, sites, stack, call, visited>>

\* The branches of `resolve_relative_text_relocations` that become relocations:
\* out of the function, long enough to be code, to the start of a function.
Outward(f) ==
  {b \in f.branches :
     /\ ~(f.rva <= b.target /\ b.target < f.rva + f.size)
     /\ b.len > 4
     /\ b.target \in input.public}

\* The last four bytes of a branch.
BranchSite(f, b) == f.rva + b.at + b.len - 4

\* `RelocKind::Function`, with the encoding of a branch.
Branch(b) ==
  [kind |-> "Function", base |-> b.target, target |-> b.target, encoding |-> "Relative"]

\* Mutant: the assertion on a site met again is left out.
NoClash(f) == FALSE

\* `assert_reinserted_branch_is_identical`
Clash(f) ==
  \E b \in Outward(f) :
    LET site == BranchSite(f, b)
    IN  /\ site \in DOMAIN relocs_rva
        /\ \/ relocs_rva[site].kind # "Function"
           \/ relocs_rva[site].base # b.target

Branches(f) ==
  [s \in {BranchSite(f, b) : b \in Outward(f)} |->
     Branch(CHOOSE b \in Outward(f) : BranchSite(f, b) = s)]

\* Mutant: a displacement is cleared when its site is first recorded.
ClearedFresh(f) == DOMAIN Branches(f) \ DOMAIN relocs_rva

\* The displacements cleared in the function's own copy of its bytes.
Cleared(f) == DOMAIN Branches(f)

\* The picked name of a public function, else the name the module gives it.
FunctionName(f) ==
  IF f.rva \in input.public THEN input.symbol_name[f.rva] ELSE f.name

Loaded(f) == f.rva + f.size <= ImageSize

\* `target_va - image_base`: below the base a dev build panics; a release build
\* wraps to an address no function has.
Underflows(f) == input.overflow_checks /\ \E b \in f.branches : b.target < 0

\* `resolve_relative_text_relocations`, `add_function`.
AddFunction ==
  /\ phase = "functions" /\ Idle /\ todo # <<>>
  /\ LET f == Head(todo)
         found == Branches(f)
     IN  /\ Loaded(f) /\ ~Underflows(f) /\ ~Clash(f)
         /\ relocs_rva' = [s \in DOMAIN relocs_rva \cup DOMAIN found |->
                             IF s \in DOMAIN found THEN found[s] ELSE relocs_rva[s]]
         /\ \E name \in FunctionLocation(f) :
              LET o == Object(name)
                  placed == Padded(o, "text", "function", f.rva, f.size, Cleared(f))
              IN  /\ objects' = Insert(objects, name,
                                       AddSymbol(placed, FunctionName(f), "text",
                                                 o.size["text"]))
                  /\ body' = {[object |-> name, rva |-> f.rva,
                               section |-> "text", offset |-> o.size["text"]]}
         /\ sites' = {s \in DOMAIN relocs_rva' : f.rva <= s /\ s < f.rva + f.size}
  /\ todo' = Tail(todo)
  /\ UNCHANGED <<input, phase, stack, call, visited>>

RefuseFunction ==
  /\ phase = "functions" /\ Idle /\ todo # <<>> /\ FunctionLocation(Head(todo)) # {}
  /\ ~Loaded(Head(todo)) \/ Underflows(Head(todo)) \/ Clash(Head(todo))
  /\ Fail("panic")

Finish ==
  /\ phase = "functions" /\ Idle /\ todo = <<>>
  /\ phase' = "built"
  /\ UNCHANGED <<input, objects, relocs_rva, todo, body, sites, stack, call, visited>>
-----------------------------------------------------------------------------
(* `add_relocation_at`                                                      *)

\* Mutant: the guard of one site's chain is kept for the next.
StartChainVisited ==
  /\ call = {} /\ sites # {}
  /\ \E s \in sites, b \in body :
       /\ \A t \in sites : s <= t
       /\ call' = {[reloc |-> relocs_rva[s],
                    at |-> [section |-> b.section, offset |-> b.offset + (s - b.rva)]]}
       /\ sites' = sites \ {s}
  /\ stack' = <<>>
  /\ UNCHANGED <<input, objects, relocs_rva, phase, todo, body, visited>>

\* The next site of the body, in ascending order, with a fresh guard.
StartChain ==
  /\ call = {} /\ sites # {}
  /\ \E s \in sites, b \in body :
       /\ \A t \in sites : s <= t
       /\ call' = {[reloc |-> relocs_rva[s],
                    at |-> [section |-> b.section, offset |-> b.offset + (s - b.rva)]]}
       /\ sites' = sites \ {s}
  /\ stack' = <<>> /\ visited' = {}
  /\ UNCHANGED <<input, objects, relocs_rva, phase, todo, body>>

\* `RelocKind::get_name`: a string is named by its content.
NameOf(r) ==
  IF r.kind = "ConjuredString" THEN input.string_name[r.base]
  ELSE input.symbol_name[r.base]

Conjured(r) == r.kind \in {"ConjuredString", "ConjuredConstant", "ConjuredStatic"}

\* Mutant: data is copied for the relocations of a reviewed definition too.
CopiesAlways(r) == Conjured(r)

\* `TargetMaterialization`: a function's conjured targets are copied, a
\* reviewed definition's only named.
Copies(r) == Conjured(r) /\ phase = "functions"

\* A word is copied: the target must lie in the image.
Word(r) == r.kind \in {"ConjuredConstant", "ConjuredStatic"}

\* The arms that refer to a symbol by name.
ReferByName ==
  \E c \in call, b \in body :
    /\ ~Copies(c.reloc)
    /\ objects' = [objects EXCEPT ![b.object] =
                     Refer(@, NameOf(c.reloc), c.at, c.reloc.encoding)]
    /\ call' = {}
    /\ UNCHANGED <<input, relocs_rva, phase, todo, body, sites, stack, visited>>

\* The ConjuredString arm: the whole string, and no site inside it.
CopyString ==
  \E c \in call, b \in body :
    /\ Copies(c.reloc) /\ c.reloc.kind = "ConjuredString"
    /\ objects' = [objects EXCEPT ![b.object] =
                     Copy(@, "rdata", "string", c.reloc.base, input.strings[c.reloc.base],
                          NameOf(c.reloc), c.at)]
    /\ call' = {}
    /\ UNCHANGED <<input, relocs_rva, phase, todo, body, sites, stack, visited>>

CopySection(r) == IF r.kind = "ConjuredConstant" THEN "rdata" ELSE "data"

\* Mutant: the guard is asked, and never told.
FollowUnguarded(r, at) ==
  /\ call' = IF r.target \in DOMAIN relocs_rva /\ r.target \notin visited
             THEN {[reloc |-> relocs_rva[r.target], at |-> at]} ELSE {}
  /\ visited' = visited

\* The word may be a pointer: relocate it too, unless this chain already has.
Follow(r, at) ==
  LET follows == r.target \in DOMAIN relocs_rva /\ r.target \notin visited
  IN  /\ call' = IF follows THEN {[reloc |-> relocs_rva[r.target], at |-> at]} ELSE {}
      /\ visited' = IF follows THEN visited \cup {r.target} ELSE visited

\* The ConjuredConstant and ConjuredStatic arms: four bytes at the target.
CopyWord ==
  \E c \in call, b \in body :
    /\ Copies(c.reloc) /\ Word(c.reloc) /\ c.reloc.target + 4 <= ImageSize
    /\ objects' = [objects EXCEPT ![b.object] =
                     Copy(@, CopySection(c.reloc), "word", c.reloc.target, 4,
                          NameOf(c.reloc), c.at)]
    /\ Follow(c.reloc,
              [section |-> CopySection(c.reloc),
               offset |-> objects[b.object].size[CopySection(c.reloc)]])
    /\ stack' = Append(stack, c.reloc.target)
    /\ UNCHANGED <<input, relocs_rva, phase, todo, body, sites>>

\* The slice of the target's four bytes is out of the image.
CopyOutside ==
  /\ \E c \in call : Copies(c.reloc) /\ Word(c.reloc) /\ c.reloc.target + 4 > ImageSize
  /\ Fail("panic")
-----------------------------------------------------------------------------
Over == phase \in {"built"} \cup Failures

Stop == Over /\ UNCHANGED vars

Next ==
  \/ AddDataDefinition \/ RefuseDefinition \/ StartDataRelocations
  \/ AddDataRelocations \/ RefuseBssRelocation \/ StartFunctions
  \/ SkipFunction \/ AddFunction \/ RefuseFunction \/ Finish
  \/ ~Over /\ (StartChain \/ ReferByName \/ CopyString \/ CopyWord \/ CopyOutside)
  \/ Stop

\* One thread runs the loops to their end.
Spec == Init /\ [][Next]_vars /\ WF_vars(Next)
-----------------------------------------------------------------------------
(* Properties.                                                              *)

PlaceType(p) == p.section \in Sections /\ p.offset \in Nat

ObjectType(o) ==
  /\ o.size \in [Sections -> Nat]
  /\ IsList(o.symbols) /\ \A n \in DOMAIN o.symbols :
       o.symbols[n].section \in Sections \cup {"undefined"} /\ o.symbols[n].value \in Nat
  /\ \A name \in DOMAIN o.undefined : o.undefined[name] \in DOMAIN o.symbols
  /\ IsList(o.relocs) /\ \A n \in DOMAIN o.relocs :
       /\ PlaceType(o.relocs[n]) /\ o.relocs[n].encoding \in Encodings
       /\ o.relocs[n].symbol \in DOMAIN o.symbols
  /\ \A a \in o.allocs : PlaceType(a) /\ a.rva \in Nat /\ a.size \in Nat

\* The type invariant.
TypeOK ==
  /\ IsInput(input)
  /\ \A name \in DOMAIN objects : ObjectType(objects[name])
  /\ phase \in {"definitions", "data relocations", "functions"} \cup {"built"} \cup Failures
  /\ IsList(todo)
  /\ IsFiniteSet(DOMAIN relocs_rva)
  /\ \A s \in DOMAIN relocs_rva : s \in Nat /\ relocs_rva[s] \in RelocType
  /\ AtMostOne(body) /\ \A b \in body :
       b.object \in DOMAIN objects /\ PlaceType(b) /\ b.rva \in Nat
  /\ sites \subseteq DOMAIN relocs_rva /\ \A s \in sites, b \in body : b.rva <= s
  /\ AtMostOne(call) /\ (call # {} => body # {})
  /\ \A c \in call : c.reloc \in RelocType /\ PlaceType(c.at)
  /\ stack \in Seq(Nat) /\ visited \subseteq DOMAIN relocs_rva

\* The sites of relocations in the image bytes an allocation was filled from.
SitesOf(a) == {s \in DOMAIN relocs_rva : a.rva <= s /\ s < a.rva + a.size}

\* The relocations an object has at a site of one of its allocations.
RelocsAt(o, a, site) ==
  {n \in DOMAIN o.relocs : /\ o.relocs[n].section = a.section
                           /\ o.relocs[n].offset = a.offset + (site - a.rva)}

\* No two allocations of a section share a byte, and each is within the
\* section: what is appended, aligned or padded never lands on what is there.
\* A definition has the alignment that was reviewed, and lies where the order
\* of emission alone puts it: at its candidate offset, if it has one.
AllocationsApart ==
  \A name \in DOMAIN objects :
    LET o == objects[name]
    IN  /\ \A a \in o.allocs : a.offset + a.size <= o.size[a.section]
        /\ \A a, b \in o.allocs :
             a # b /\ a.section = b.section /\ a.size > 0 /\ b.size > 0 =>
               a.offset + a.size <= b.offset \/ b.offset + b.size <= a.offset
        /\ \A a \in o.allocs : \A n \in DOMAIN input.definitions :
             LET d == input.definitions[n]
             IN  a.what = "definition" /\ a.rva = d.rva =>
                   /\ a.offset % d.alignment = 0
                   /\ a.offset = PlacedAt(input.definitions, n, input.pad_rdata)
                   /\ d.section_offset \subseteq {a.offset}

\* Another function lies over part of an allocation, whose branches are then
\* recorded among its own.
Overlapped(a) ==
  \E n \in DOMAIN input.functions :
    LET f == input.functions[n]
    IN  /\ FunctionLocation(f) # {}
        /\ a.what = "function" => <<f.rva, f.size>> # <<a.rva, a.size>>
        /\ f.rva < a.rva + a.size /\ a.rva < f.rva + f.size

\* Each site in the image bytes of a definition or a function has one
\* relocation in the object, at the place the site has moved to, against the
\* symbol that classification named; and there is no other relocation there.
\* Later definitions, copies and functions do not disturb it, unless they
\* overlap it; and a site of the earlier stage not even then.
BodiesRelocated ==
  phase = "built" =>
    \A name \in DOMAIN objects : \A a \in objects[name].allocs :
      LET o == objects[name]
      IN  a.what \notin Copied =>
            \A s \in a.rva .. a.rva + a.size - 1 :
              s \in DOMAIN input.relocs \/ ~Overlapped(a) =>
                /\ s \in DOMAIN relocs_rva =>
                     /\ Cardinality(RelocsAt(o, a, s)) = 1
                     /\ \A n \in RelocsAt(o, a, s) :
                          o.symbols[o.relocs[n].symbol].name = NameOf(relocs_rva[s])
                /\ s \notin DOMAIN relocs_rva => RelocsAt(o, a, s) = {}

\* A call or a jump out of a function is relative: its displacement in the
\* object is zero wherever a relocation supplies it, and the linked one where
\* none does.  A function folded into several objects is visited again with
\* its sites already in relocs_rva, and each copy of its bytes must be cleared.
DisplacementsCleared ==
  phase = "built" =>
    \A name \in DOMAIN objects : \A a \in objects[name].allocs :
      a.what = "function" /\ ~Overlapped(a) =>
        a.cleared = {s \in SitesOf(a) : relocs_rva[s].encoding = "Relative"}

\* The word a word points at, if classification would have it copied.
Pointee(t) ==
  IF t \in DOMAIN relocs_rva /\ Word(relocs_rva[t]) THEN {relocs_rva[t].target} ELSE {}

\* Following pointers from a word leads back to it: whatever has what it points
\* at, and what that points at, and so on, has the word.
OnCycle(t) ==
  \A reached \in SUBSET DOMAIN relocs_rva :
    (\A u \in reached \cup {t} : Pointee(u) \cap DOMAIN relocs_rva \subseteq reached)
      => t \in reached

\* A copied pointer is relocated, once: no copy keeps a word that only its
\* symbol makes an address, except the one that closes a cycle, which keeps
\* the rewritten addend and names nothing.  (A branch
\* of a function that lies over the word is no pointer in it; and no site
\* inside a string is looked at.)
CopiesRelocated ==
  phase = "built" =>
    \A name \in DOMAIN objects : \A a \in objects[name].allocs :
      LET o == objects[name]
          here == RelocsAt(o, a, a.rva)
      IN  a.what = "word" /\ a.rva \in DOMAIN relocs_rva /\ ~Overlapped(a) =>
            Cardinality(here) = 1 \/ (here = {} /\ OnCycle(a.rva))

\* A chain of copies is no longer than there are pointers, and one more: the
\* recursion is bounded on any image, pointer cycles included.
ChainBounded == Len(stack) <= Cardinality(DOMAIN relocs_rva) + 1

\* An object made of definitions alone holds nothing else: a relocation in
\* reviewed data names what it points at and copies none of it.
ReviewedDataIsNotPadded ==
  \A name \in DOMAIN objects :
    (\E a \in objects[name].allocs : a.what \in Copied) =>
      \E a \in objects[name].allocs : a.what = "function"

\* A relocation never changes its callee: absolute relocations stay, and a
\* site visited again as a branch is the branch it was, or stops the run.
CalleesStand ==
  [][\A s \in DOMAIN relocs_rva :
       /\ s \in DOMAIN relocs_rva'
       /\ relocs_rva'[s].kind = relocs_rva[s].kind
       /\ relocs_rva'[s].base = relocs_rva[s].base]_vars

\* The stage ends: no function is visited forever, no chain of copies endless.
Terminates == <>Over
-----------------------------------------------------------------------------
(* What comments and documentation say of the objects, and the code does   *)
(* not do.                                                                  *)

\* object_files.rs: an Extern is "one symbol per external name, reused if this
\* object already emitted it and resolving to a local definition when this
\* object defines it".  A reference made before the function is added has an
\* undefined symbol, and the definition then adds a second.
OneSymbolPerExternalName ==
  \A name \in DOMAIN objects :
    LET o == objects[name]
    IN  \A a \in o.allocs : a.what = "function" =>
          \A n \in DOMAIN o.symbols :
            o.symbols[n].section = "text" /\ o.symbols[n].value = a.offset =>
              o.symbols[n].name \notin DOMAIN o.undefined

\* relocs.rs: a ReviewedData relocation is "an external reference to that
\* shared definition, which its owning object defines": in the owning object
\* it is a reference to the definition.  A copy made for an address past the
\* definition has the same name, and takes over the writer's index.
ReviewedResolvesToDefinition ==
  phase = "built" =>
    \A name \in DOMAIN objects :
      LET o == objects[name]
      IN  \A a, d \in o.allocs : a.what = "function" /\ d.what = "definition" =>
            \A s \in SitesOf(a) :
              relocs_rva[s].kind = "ReviewedData" /\ relocs_rva[s].base = d.rva =>
                \A n \in RelocsAt(o, a, s) :
                  /\ o.symbols[o.relocs[n].symbol].section = d.section
                  /\ o.symbols[o.relocs[n].symbol].value = d.offset
=============================================================================
