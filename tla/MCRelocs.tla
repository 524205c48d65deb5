------------------------------ MODULE MCRelocs ------------------------------
(***************************************************************************)
(* Images of 32 bytes, linked at 64, in a 256-address space (Radix 4):     *)
(* .text at 0..7, .rdata at 8..19, .data at 20..31.  The address of RVA r  *)
(* is the field <<r % 4, r \div 4 % 4, r \div 16, 1>>, so a row of ones is *)
(* the address of 21 at every offset and <<0, 1, 0, 1, ...>> the address   *)
(* of 4 at every second one.                                               *)
(***************************************************************************)
EXTENDS Relocs, TLC

MCText == [rva |-> 0, size |-> 8]
MCRdata == [rva |-> 8, size |-> 12]
MCData == [rva |-> 20, size |-> 12]

Address(rva) == <<rva % 4, (rva \div 4) % 4, rva \div 16, 1>>

\* No address of the image, at any offset.
Filler == <<3, 3, 3, 3>>

\* An address below the image base: the subtraction wraps.
Low == <<2, 0, 0, 0>>

\* An image of eight words.
Image(words) == [rva \in Rva |-> words[(rva \div 4) + 1][(rva % 4) + 1]]

NoStrings == EmptyMap

\* The definitions the manifests review: adjacent ones, and one of a word.
Reviewing ==
  {{}, {[rva |-> 8, size |-> 3], [rva |-> 11, size |-> 5], [rva |-> 20, size |-> 4]}}
-----------------------------------------------------------------------------
(* Images with a directory.                                                *)

Entry(highlow, offset) == [highlow |-> highlow, offset |-> offset]

Block(shape, from, list) == [shape |-> shape, page |-> from, entries |-> list]

\* Two blocks, a site listed twice, a padding entry; overlapping entries; a
\* walk ended early; a torn block; a site out of the image.
Directories ==
  {<<Block("whole", 0, <<Entry(TRUE, 0), Entry(FALSE, 0)>>),
     Block("whole", 8, <<Entry(TRUE, 8), Entry(TRUE, 12), Entry(TRUE, 8)>>)>>,
   <<Block("whole", 16, <<Entry(TRUE, 4), Entry(TRUE, 6)>>),
     Block("stop", 0, <<>>),
     Block("whole", 0, <<Entry(TRUE, 0)>>)>>,
   <<Block("whole", 0, <<Entry(TRUE, 16)>>), Block("torn", 0, <<>>)>>,
   <<Block("whole", 16, <<Entry(TRUE, 12), Entry(TRUE, 13)>>)>>,
   <<Block("whole", 250, <<Entry(TRUE, 6), Entry(TRUE, 22)>>)>>}

DirectoryTargets == {4, 9, 11, 13, 21, 24}

DirectoryInputs ==
  {[exe |-> Image(<<w1, Filler, Filler, Filler, w2, w3, Filler, Filler>>),
    functions |-> {4}, constants |-> {12}, statics |-> {24},
    strings |-> (9 :> 2), definitions |-> d, strict |-> strict,
    reloc |-> {b}, manifest |-> {}, rediscover |-> FALSE, bound |-> 0,
    overflow_checks |-> checks] :
     w1 \in {Address(2), Address(6)},
     w2 \in {Address(t) : t \in DirectoryTargets},
     w3 \in {Address(13), Address(21), Low},
     d \in Reviewing, strict \in BOOLEAN,
     b \in Directories, checks \in BOOLEAN}
-----------------------------------------------------------------------------
(* Stripped images.                                                        *)

Manifests == {{}, {<<16, 20>>}, {<<0, 2, 20>>}, {<<20, 30>>}, {<<20, 509>>}}

\* Symbols near their targets; and a string before, and short of, a target
\* whose nearest constant is far below, or absent.
Tables ==
  {[functions |-> {0}, constants |-> {12}, strings |-> (9 :> 2)],
   [functions |-> {4}, constants |-> {12}, strings |-> (9 :> 2)],
   [functions |-> {4}, constants |-> {8}, strings |-> (15 :> 1)],
   [functions |-> {4}, constants |-> {}, strings |-> (15 :> 1)]}

RecoveryInputs ==
  {[exe |-> Image(<<Filler, Filler, Filler, Filler, w1, w2, w3, Filler>>),
    functions |-> t.functions, constants |-> t.constants, statics |-> {21},
    strings |-> t.strings, definitions |-> d, strict |-> strict,
    reloc |-> {}, manifest |-> m, rediscover |-> r.scan, bound |-> r.bound,
    overflow_checks |-> TRUE] :
     w1 \in {Address(4), Address(10), Address(17), Address(21), Filler},
     w2 \in {Address(4), Address(21), Low}, w3 \in {Address(4), Filler},
     t \in Tables, d \in Reviewing, strict \in BOOLEAN,
     m \in Manifests,
     r \in {[scan |-> FALSE, bound |-> 0], [scan |-> TRUE, bound |-> 0],
            [scan |-> TRUE, bound |-> 4]}}

\* A manifest beside a directory, which the stage refuses.
RedundantInputs ==
  {[i EXCEPT !.reloc = {d}] :
     i \in {x \in RecoveryInputs : x.manifest = {<<16, 20>>} /\ x.bound = 4},
     d \in {<<>>}}

MCInputs == DirectoryInputs \cup RecoveryInputs \cup RedundantInputs
=============================================================================
