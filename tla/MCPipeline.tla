----------------------------- MODULE MCPipeline -----------------------------
(***************************************************************************)
(* Images of 48 bytes, linked at 64, in a 256-address space: .text at      *)
(* 0..19, two functions of ten bytes, each with an absolute field at its   *)
(* second byte and a branch to the other in its last five; .rdata at       *)
(* 20..31, a string of three at 20 and a constant at 24; .data at 32..47,  *)
(* statics at 32 and 40.                                                   *)
(***************************************************************************)
EXTENDS Pipeline, TLC

MCText == [rva |-> 0, size |-> 20]
MCRdata == [rva |-> 20, size |-> 12]
MCData == [rva |-> 32, size |-> 16]

Address(rva) == <<rva % 4, (rva \div 4) % 4, rva \div 16, 1>>
Filler == <<3, 3, 3, 3>>

\* An image with a word at each of some RVAs.
Image(words) ==
  [rva \in 0 .. 47 |->
     LET at == {w \in DOMAIN words : w <= rva /\ rva < w + 4}
     IN  IF at = {} THEN 3 ELSE LET w == CHOOSE w \in at : TRUE
                                IN  words[w][rva - w + 1]]

Row(name, rva, size, storage, offset) ==
  [kind |-> "row",
   row |-> [path |-> [name |-> name, slash |-> "/", normal |-> TRUE],
            rva |-> {rva}, size |-> {size}, storage |-> storage, alignment |-> {4},
            section_offset |-> [open |-> offset = {}, number |-> offset],
            scope |-> "external"]]

File(list) == [bare_cr |-> FALSE, lines |-> <<[kind |-> "header"]>> \o list]

\* Everything reviewed, out of order and with candidate offsets.
Everything(offset) ==
  {File(<<Row(1, 40, 8, "data", {0}), Row(1, 32, 8, "data", {8}),
          Row(2, 24, 8, "rdata", {}), Row(3, 20, 4, "rdata", {offset})>>)}

\* Nothing reviewed; everything; two words of it; an offset the layout does not
\* have; rows that overlap.
DataFiles ==
  {{}, Everything(0),
   {File(<<Row(1, 24, 4, "rdata", {}), Row(2, 32, 4, "data", {})>>)},
   {File(<<Row(1, 32, 4, "data", {4})>>)},
   {File(<<Row(1, 32, 12, "data", {}), Row(1, 40, 4, "data", {})>>)}}

\* With .rdata padded: an offset that leaves the padding no room, and one that does.
PaddedFiles == {Everything(0), Everything(4)}

Site(rva) == [kind |-> "row", row |-> [site_rva |-> {rva}, kind |-> "dir32"]]

Entry(offset) == [highlow |-> TRUE, offset |-> offset]

\* Where the sites come from: the directory, a manifest, the scan, both, or
\* nothing.
Sources ==
  {[directory |-> {<<[shape |-> "whole", page |-> 0,
                      entries |-> <<Entry(1), Entry(11), Entry(36)>>]>>},
    manifest |-> {}, scan |-> FALSE],
   [directory |-> {}, manifest |-> {File(<<Site(36), Site(1), Site(11)>>)}, scan |-> FALSE],
   [directory |-> {}, manifest |-> {File(<<Site(36), Site(36)>>)}, scan |-> FALSE],
   [directory |-> {}, manifest |-> {File(<<Site(36)>>)}, scan |-> TRUE],
   [directory |-> {}, manifest |-> {}, scan |-> FALSE]}

Name == [rva \in {0, 10, 20, 24, 32, 40} |-> rva]

Function(path, rva, to) ==
  [source |-> {[engine |-> TRUE, path |-> path]},
   form |-> [qualified |-> TRUE, bullet |-> FALSE, scope |-> {}],
   rva |-> rva, size |-> 10, name |-> rva,
   branches |-> {[at |-> 5, len |-> 5, target |-> to]}]

\* Functions in objects of their own; or the first also in an object that
\* owns definitions (objects of definitions are known by a normalised path).
Owning == [name |-> 1, slash |-> "\\"]
Other == [name |-> 4, slash |-> "\\"]
Modules ==
  {<<Function(Other, 0, 10), Function(Other, 10, 0)>>,
   <<Function(Owning, 0, 10), Function(Other, 0, 10), Function(Other, 10, 0)>>}

\* A run over an image whose three words hold the addresses of t, u and v.
Run(t, u, v, d, pad_rdata, s, strict, m) ==
  [exe |-> Image((1 :> Address(t)) @@ (11 :> Address(u)) @@ (36 :> Address(v))),
   data |-> d, reloc_manifest |-> s.manifest, directory |-> s.directory,
   rediscover |-> s.scan, bound |-> 4, overflow_checks |-> TRUE,
   functions |-> {0, 10}, constants |-> {24}, statics |-> {32, 40}, strings |-> (20 :> 3),
   symbol_name |-> Name, string_name |-> (20 :> 60),
   strict |-> strict, pad_rdata |-> pad_rdata, modules |-> m]

MCInputs ==
  {Run(t, u, v, d, FALSE, s, strict, m) :
     t \in {12, 21, 24, 33}, u \in {24, 36, 43}, v \in {10, 20, 26, 36, 40},
     d \in DataFiles, s \in Sources, strict \in BOOLEAN, m \in Modules}
  \cup {Run(t, 24, 26, d, TRUE, s, strict, m) :
          t \in {12, 21}, d \in PaddedFiles, s \in Sources, strict \in BOOLEAN, m \in Modules}
=============================================================================
