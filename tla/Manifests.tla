------------------------------ MODULE Manifests ------------------------------
(***************************************************************************)
(* The two reviewed inputs: src/src/data_manifest.rs and                   *)
(* src/src/reloc_manifest.rs.                                              *)
(*                                                                         *)
(* Both are read line by line, refused at the first line that is wrong,    *)
(* and sorted at the end.  A behaviour is the loading of both in the order *)
(* of `process_executable`; the operators at the end are what later stages *)
(* ask of the result: who owns an RVA, in what order definitions are       *)
(* emitted.                                                                *)
(*                                                                         *)
(* A line is abstracted to what the parsers tell apart, and a number to a  *)
(* set, empty if the field does not parse or does not fit in a usize.      *)
(***************************************************************************)
EXTENDS Naturals, FiniteSets, Lookup, Layout, SequencesExt

CONSTANTS
  UsizeMax,   \* the greatest usize
  Inputs      \* the files and symbol tables to consider

Usize == 0 .. UsizeMax

Numbers == {{}} \cup {{n} : n \in Usize}

\* A row of the data manifest.  The name of a path is its place in the order
\* of byte strings; it is not normal if it has a drive, an empty or dotted
\* part or a control byte.  A section offset may be left open.
DataRow ==
  [path : [name : Nat, slash : {"/", "\\"}, normal : BOOLEAN],
   rva : Numbers, size : Numbers, storage : {"data", "rdata", "bss", "other"},
   alignment : Numbers, section_offset : [open : BOOLEAN, number : Numbers],
   scope : {"external", "local", "other"}]

RelocRow == [site_rva : Numbers, kind : {"dir32", "other"}]

\* A line is blank (or a comment), the header, a row, or has the wrong columns.
LineOf(Row) ==
  [kind : {"blank", "header", "torn"}] \cup [kind : {"row"}, row : Row]

IsFile(file, Row) ==
  /\ file.bare_cr \in BOOLEAN      \* a carriage return on its own
  /\ file.lines \in Seq(LineOf(Row))

IsInput(i) ==
  /\ AtMostOne(i.data) /\ \A f \in i.data : IsFile(f, DataRow)
  /\ AtMostOne(i.reloc) /\ \A f \in i.reloc : IsFile(f, RelocRow)
  /\ i.statics \subseteq Usize /\ i.constants \subseteq Usize /\ i.strings \subseteq Usize

ASSUME InputsAssumption ==
  /\ UsizeMax \in Nat
  /\ \A i \in Inputs : IsInput(i)

VARIABLES
  input,        \* the files and the symbol tables; constant
  phase,        \* which file is being read, or how loading ended
  lines,        \* its lines not yet read
  saw_header,
  definitions,  \* the rows kept of the data manifest
  sites         \* the rows kept of the reloc manifest

vars == <<input, phase, lines, saw_header, definitions, sites>>

Failures == {"data refused", "relocs refused"}

Phases == {"open data", "data", "open relocs", "relocs", "loaded"} \cup Failures
-----------------------------------------------------------------------------
(* Rows.                                                                    *)

\* `checked_add(..).is_none()`
Overflows(a, b) == a + b > UsizeMax

\* `is_power_of_two`
PowerOfTwo(n) == \E k \in 0 .. n : n = 2 ^ k

\* Mutant: the path is kept as it was written.
AsWritten(path) == [name |-> path.name, slash |-> path.slash]

\* `replace('/', "\\")`
Normalized(path) == [name |-> path.name, slash |-> "\\"]

\* The PDB symbol that starts at an RVA of a storage, by its table.
Identity(storage, rva) ==
  LET from(table, starts) == {t \in {table} : rva \in starts}
  IN  IF storage = "rdata"
      THEN OrElse(from("constants", input.constants), from("strings", input.strings))
      ELSE from("statics", input.statics)

\* The definitions a row can be, by the checks on its own fields: one or none.
Parsed(row) ==
  {d \in [object : {Normalized(row.path)}, rva : row.rva, size : row.size,
           storage : {row.storage} \ {"other"}, alignment : row.alignment,
           section_offset : {row.section_offset.number},
           scope : {row.scope} \ {"other"}, symbol : {"statics", "constants", "strings"}] :
     /\ row.path.normal
     /\ d.size # 0 /\ ~Overflows(d.rva, d.size)
     /\ d.alignment # 0 /\ PowerOfTwo(d.alignment)
     /\ row.section_offset.open \/ \E o \in d.section_offset : ~Overflows(o, d.size)
     /\ d.symbol \in Identity(row.storage, d.rva)}
-----------------------------------------------------------------------------
(* Both loops over lines.                                                   *)

Init ==
  /\ input \in Inputs
  /\ phase = "open data"
  /\ lines = <<>> /\ saw_header = FALSE
  /\ definitions = <<>> /\ sites = <<>>

\* The file of a loop is read, has lines, or is not given.
Open(file, reading, next, refused) ==
  /\ phase' = IF file = {} THEN next
              ELSE IF \E f \in file : f.bare_cr THEN refused ELSE reading
  /\ lines' = IF phase' = reading THEN (CHOOSE f \in file : TRUE).lines ELSE <<>>
  /\ saw_header' = FALSE
  /\ UNCHANGED <<input, definitions, sites>>

OpenData == phase = "open data" /\ Open(input.data, "data", "open relocs", "data refused")

OpenRelocs ==
  phase = "open relocs" /\ Open(input.reloc, "relocs", "loaded", "relocs refused")

Reading == phase \in {"data", "relocs"} /\ lines # <<>>

Refuse ==
  /\ phase' = IF phase = "data" THEN "data refused" ELSE "relocs refused"
  /\ UNCHANGED <<input, lines, saw_header, definitions, sites>>

SkipLine ==
  /\ Reading /\ Head(lines).kind = "blank"
  /\ lines' = Tail(lines)
  /\ UNCHANGED <<input, phase, saw_header, definitions, sites>>

ReadHeader ==
  /\ Reading /\ Head(lines).kind = "header" /\ ~saw_header
  /\ saw_header' = TRUE /\ lines' = Tail(lines)
  /\ UNCHANGED <<input, phase, definitions, sites>>

\* The first line is not the header, another line is, or it has no row's shape.
RefuseLine ==
  /\ Reading
  /\ \/ ~saw_header /\ Head(lines).kind \notin {"blank", "header"}
     \/ saw_header /\ Head(lines).kind \in {"header", "torn"}
  /\ Refuse

RefuseHeaderless ==
  /\ phase \in {"data", "relocs"} /\ lines = <<>> /\ ~saw_header
  /\ Refuse

RowNext == Reading /\ saw_header /\ Head(lines).kind = "row"
-----------------------------------------------------------------------------
(* `DataManifest::parse`                                                    *)

\* The RVAs and the sites kept so far, `rvas` and `seen`.
Rvas == {definitions[n].rva : n \in DOMAIN definitions}
Seen == ToSet(sites)

KeepDefinition ==
  /\ phase = "data" /\ RowNext
  /\ \E d \in Parsed(Head(lines).row) :
       d.rva \notin Rvas /\ definitions' = Append(definitions, d)
  /\ lines' = Tail(lines)
  /\ UNCHANGED <<input, phase, saw_header, sites>>

RefuseDefinition ==
  /\ phase = "data" /\ RowNext
  /\ \A d \in Parsed(Head(lines).row) : d.rva \in Rvas
  /\ Refuse

\* Keys are tuples of one length: the first difference decides.
Less(a, b) ==
  \E n \in DOMAIN a : a[n] < b[n] /\ \A m \in 1 .. n - 1 : a[m] = b[m]

\* The orders a sort by a key may leave: `sort_unstable` promises no more.
Sorts(seq, key) ==
  {s \in {[n \in DOMAIN seq |-> seq[p[n]]] : p \in SetToSeqs(DOMAIN seq)} :
     \A i, j \in DOMAIN s : i < j => ~Less(key[s[j]], key[s[i]])}

ByRva == [d \in ToSet(definitions) |-> <<d.rva>>]

\* Mutant: the last pair is not compared.
OverlapButLast(sorted) ==
  \E n \in 1 .. Len(sorted) - 2 : sorted[n].rva + sorted[n].size > sorted[n + 1].rva

\* The overlap test of `windows(2)`.
Overlap(sorted) ==
  \E n \in 1 .. Len(sorted) - 1 : sorted[n].rva + sorted[n].size > sorted[n + 1].rva

\* Mutant: neighbours are compared in the order of the file.
FinishDataUnsorted ==
  /\ phase = "data" /\ lines = <<>> /\ saw_header
  /\ definitions' \in Sorts(definitions, ByRva)
  /\ phase' = IF Overlap(definitions) THEN "data refused" ELSE "open relocs"
  /\ UNCHANGED <<input, lines, saw_header, sites>>

FinishData ==
  /\ phase = "data" /\ lines = <<>> /\ saw_header
  /\ definitions' \in Sorts(definitions, ByRva)
  /\ phase' = IF Overlap(definitions') THEN "data refused" ELSE "open relocs"
  /\ UNCHANGED <<input, lines, saw_header, sites>>
-----------------------------------------------------------------------------
(* `RelocManifest::parse`                                                   *)

\* Mutant: a site listed again is kept again.
KeepSiteAgain ==
  /\ phase = "relocs" /\ RowNext
  /\ Head(lines).row.kind = "dir32"
  /\ \E site \in Head(lines).row.site_rva : sites' = Append(sites, site)
  /\ lines' = Tail(lines)
  /\ UNCHANGED <<input, phase, saw_header, definitions>>

KeepSite ==
  /\ phase = "relocs" /\ RowNext
  /\ Head(lines).row.kind = "dir32"
  /\ \E site \in Head(lines).row.site_rva :
       site \notin Seen /\ sites' = Append(sites, site)
  /\ lines' = Tail(lines)
  /\ UNCHANGED <<input, phase, saw_header, definitions>>

RefuseSite ==
  /\ phase = "relocs" /\ RowNext
  /\ Head(lines).row.kind = "dir32" => Head(lines).row.site_rva \subseteq Seen
  /\ Refuse

FinishRelocs ==
  /\ phase = "relocs" /\ lines = <<>> /\ saw_header
  /\ sites' \in Sorts(sites, [site \in Seen |-> <<site>>])
  /\ phase' = "loaded"
  /\ UNCHANGED <<input, lines, saw_header, definitions>>

Over == phase \in {"loaded"} \cup Failures

Stop == Over /\ UNCHANGED vars

Next ==
  \/ OpenData \/ OpenRelocs
  \/ SkipLine \/ ReadHeader \/ RefuseLine \/ RefuseHeaderless
  \/ KeepDefinition \/ RefuseDefinition \/ FinishData
  \/ KeepSite \/ RefuseSite \/ FinishRelocs
  \/ Stop

Spec == Init /\ [][Next]_vars
-----------------------------------------------------------------------------
(* What later stages ask of a loaded manifest.                              *)

\* Mutant: a definition that starts at the RVA is not yet below it.
PartitionPointExclusive(rva) == Cardinality({n \in DOMAIN definitions : definitions[n].rva < rva})

\* `partition_point(|definition| definition.rva <= rva)`
PartitionPoint(rva) == Cardinality({n \in DOMAIN definitions : definitions[n].rva <= rva})

\* `owner_and_addend_for_rva`
OwnerOf(rva) ==
  LET index == PartitionPoint(rva)
  IN  {d \in {definitions[n] : n \in {index} \cap DOMAIN definitions} : rva - d.rva < d.size}

\* The derived order of `DataStorage`.
Rank == [data |-> 0, rdata |-> 1, bss |-> 2]

\* `section_offset.unwrap_or(rva)`
OffsetOrRva(d) == CHOOSE n \in OrElse(d.section_offset, {d.rva}) : TRUE

\* Mutant: candidate offsets are left out of the key.
KeyByRva(d) == <<d.object.name, Rank[d.storage], d.rva, d.rva>>

Key(d) == <<d.object.name, Rank[d.storage], OffsetOrRva(d), d.rva>>

\* `definitions_in_emission_order`
EmissionOrders == Sorts(definitions, [d \in ToSet(definitions) |-> Key(d)])
-----------------------------------------------------------------------------
(* Properties.                                                              *)

DefinitionType ==
  [object : [name : Nat, slash : {"\\"}], rva : Usize, size : Usize \ {0},
   storage : DOMAIN Rank, alignment : Usize \ {0}, section_offset : Numbers,
   scope : {"external", "local"}, symbol : {"statics", "constants", "strings"}]

\* The type invariant.
TypeOK ==
  /\ IsInput(input)
  /\ phase \in Phases /\ saw_header \in BOOLEAN
  /\ lines \in Seq(LineOf(DataRow) \cup LineOf(RelocRow))
  /\ definitions \in Seq(DefinitionType)
  /\ sites \in Seq(Usize)

\* What the relocation stage takes for granted: the definitions of a loaded
\* manifest ascend, and no extent reaches into any other, however rows were
\* ordered in the file.  The test compares neighbours only.
DefinitionsApart ==
  phase \in {"open relocs", "relocs", "relocs refused", "loaded"} =>
    /\ \A i, j \in DOMAIN definitions : i < j => definitions[i].rva < definitions[j].rva
    /\ NonOverlapping(ToSet(definitions))

\* The rows of a file.
RowsOf(file) == {n \in DOMAIN file.lines : file.lines[n].kind = "row"}

\* Blanks, one header before the rows, rows.
Shaped(file) ==
  /\ ~file.bare_cr
  /\ \A n \in DOMAIN file.lines : file.lines[n].kind # "torn"
  /\ \E h \in DOMAIN file.lines : \A n \in DOMAIN file.lines :
       /\ file.lines[n].kind = "header" <=> n = h
       /\ n \in RowsOf(file) => h < n

\* README.md, "Manifest format": "Start RVAs must be unique. Extents must be
\* non-zero, non-overlapping, non-overflowing".  A file is refused only for a
\* reason the format gives, never for one the order of its rows makes up.
RefusedForCause ==
  phase = "data refused" =>
    \A file \in input.data :
      \/ ~Shaped(file)
      \/ \E n \in RowsOf(file) : Parsed(file.lines[n].row) = {}
      \/ \E m, n \in RowsOf(file) :
           m # n /\ \E d \in Parsed(file.lines[m].row), e \in Parsed(file.lines[n].row) :
                      d.rva <= e.rva /\ e.rva < d.rva + d.size

\* The binary search gives an RVA the definition that covers it, and none to
\* an RVA no definition covers.
OwnerCovers ==
  phase = "loaded" =>
    \A rva \in Usize :
      OwnerOf(rva) = {d \in ToSet(definitions) : d.rva <= rva /\ rva < d.rva + d.size}

\* The definitions of d's section, and those of them with a candidate offset.
Section(d) == {e \in ToSet(definitions) : e.object = d.object /\ e.storage = d.storage}

Candidates(d) == {e \in Section(d) : e.section_offset # {}}

At(e) == CHOOSE o \in e.section_offset : TRUE

\* Candidates are realisable if they could have been laid out so: each begins
\* after what the section starts with and those below it, and no more padding
\* than its alignment asks for.
Realisable(group, pad_rdata) ==
  \A e \in group :
    At(e) = AlignUp(Max({Padding(e.storage, pad_rdata)} \cup
                        {At(f) + f.size : f \in {g \in group \ {e} : At(g) <= At(e)}}),
                    e.alignment)

\* The candidates of d's section are a layout of it: they are realisable, and
\* the definitions whose offset is open lie at RVAs above their offsets.
LaidOut(d, pad_rdata) ==
  /\ Realisable(Candidates(d), pad_rdata)
  /\ \A e \in Section(d) \ Candidates(d), f \in Candidates(d) : At(f) < e.rva

\* README.md: "Numeric candidate offsets order definitions within each
\* object's storage section and reject a layout that emits a different
\* offset".  A layout that can be made is not rejected: its definitions are
\* placed at their offsets in any emission order, also beside definitions
\* whose offset is open, and with --pad-empty-rdata if the offsets allow for
\* the four bytes.
CandidateLayoutEmitted ==
  phase = "loaded" =>
    \A order \in EmissionOrders, pad_rdata \in BOOLEAN : \A n \in DOMAIN order :
      LET d == order[n]
      IN  d \in Candidates(d) /\ LaidOut(d, pad_rdata) => PlacedAt(order, n, pad_rdata) = At(d)

\* The sites of a loaded reloc manifest are those of its rows, ascending,
\* each once.
SitesAreTheRows ==
  phase = "loaded" =>
    /\ \A i, j \in DOMAIN sites : i < j => sites[i] < sites[j]
    /\ \A file \in input.reloc :
         Seen = UNION {file.lines[n].row.site_rva : n \in RowsOf(file)}
=============================================================================
