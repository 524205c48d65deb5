---------------------------- MODULE MCManifests ----------------------------
(***************************************************************************)
(* Addresses up to 31; statics at 16, 20 and 24, a constant at 8, strings  *)
(* at 8 and 12.                                                            *)
(***************************************************************************)
EXTENDS Manifests

Row(rva, size, storage, alignment, offset) ==
  [path |-> [name |-> 1, slash |-> "\\", normal |-> TRUE],
   rva |-> {rva}, size |-> {size}, storage |-> storage, alignment |-> {alignment},
   section_offset |-> [open |-> offset = {}, number |-> offset], scope |-> "external"]

Line(row) == [kind |-> "row", row |-> row]
Only(kind) == [kind |-> kind]

Rows(rows) == [n \in DOMAIN rows |-> Line(rows[n])]

File(list) == [bare_cr |-> FALSE, lines |-> list]
Headed(rows) == File(<<Only("blank"), Only("header")>> \o Rows(rows))

\* Three statics of one object, in every order, with every mixture of candidate
\* offsets, extents that touch and extents that overlap.
Arrangements == {s \in [1 .. 3 -> {16, 20, 24}] : IsInjective(s)}

Layouts ==
  {Headed([n \in 1 .. 3 |-> Row(rvas[n], sizes[rvas[n]], "data", 2, offsets[rvas[n]])]) :
     rvas \in Arrangements,
     sizes \in {(16 :> 4 @@ 20 :> 4 @@ 24 :> 4), (16 :> 4 @@ 20 :> 3 @@ 24 :> 7),
                (16 :> 4 @@ 20 :> 5 @@ 24 :> 4)},
     offsets \in [{16, 20, 24} -> {{}, {0}, {4}, {8}}]}

\* A constant and a string of one object, in either order: candidate offsets
\* of a section that starts empty, of one that starts with four bytes, of
\* neither; with the other first, or left open.
ReadOnlyLayouts ==
  {Headed(IF swapped THEN <<a, b>> ELSE <<b, a>>) :
     a \in {Row(8, 4, "rdata", 4, o) : o \in {{}, {0}, {4}, {8}}},
     b \in {Row(12, 3, "rdata", n, o) : n \in {1, 8}, o \in {{}, {0}, {4}, {8}}},
     swapped \in BOOLEAN}

Good == Row(16, 4, "data", 4, {})

\* Two rows, of two objects, of two storages, of one RVA, or of one wrong field.
Seconds ==
  {Row(24, 4, "bss", 4, {0}), Row(8, 4, "rdata", 1, {0}), Row(12, 3, "rdata", 8, {}),
   [Row(20, 4, "data", 4, {4}) EXCEPT !.path.slash = "/"],
   [Row(20, 4, "data", 4, {}) EXCEPT !.path.name = 0, !.scope = "local"],
   Row(16, 4, "data", 4, {}), Row(20, 0, "data", 4, {}), Row(24, 8, "data", 4, {}),
   Row(20, 4, "rdata", 4, {}), Row(8, 4, "data", 4, {}), Row(20, 4, "other", 4, {}),
   Row(20, 4, "data", 0, {}), Row(20, 4, "data", 3, {}), Row(20, 4, "data", 4, {30}),
   [Row(20, 4, "data", 4, {}) EXCEPT !.path.normal = FALSE],
   [Row(20, 4, "data", 4, {}) EXCEPT !.rva = {}],
   [Row(20, 4, "data", 4, {}) EXCEPT !.section_offset.open = FALSE],
   [Row(20, 4, "data", 4, {}) EXCEPT !.scope = "other"]}

Pairs ==
  UNION {{Headed(<<Good, r>>), Headed(<<r, Good>>)} : r \in Seconds}

\* Lines in the wrong places.
Shapes ==
  {File(<<>>), File(<<Only("header")>>), File(<<Line(Good), Only("header")>>),
   File(<<Only("torn")>>), File(<<Only("header"), Only("header")>>),
   File(<<Only("header"), Line(Good), Only("blank"), Only("torn")>>),
   File(<<Only("header"), Line(Good), Only("header")>>),
   [bare_cr |-> TRUE, lines |-> <<Only("header")>>]}

Site(n, kind) == [site_rva |-> n, kind |-> kind]

RelocFiles ==
  {Headed(<<Site({a}, "dir32"), Site({b}, "dir32"), Site({c}, k)>>) :
     a \in {2, 9}, b \in {0, 9}, c \in {4, 9, 31}, k \in {"dir32", "other"}}
  \cup
  {Headed(<<Site({}, "dir32")>>), File(<<Only("header"), Only("torn")>>),
   File(<<Only("header"), Only("header")>>), File(<<Only("blank")>>),
   [bare_cr |-> TRUE, lines |-> <<>>]}

Loading(data, reloc) ==
  [data |-> data, reloc |-> reloc,
   statics |-> {16, 20, 24}, constants |-> {8}, strings |-> {8, 12}]

MCInputs ==
  {Loading({f}, {}) : f \in Layouts \cup ReadOnlyLayouts \cup Pairs \cup Shapes}
  \cup {Loading(d, {f}) : d \in {{}, {Headed(<<Good>>)}}, f \in RelocFiles}
=============================================================================
