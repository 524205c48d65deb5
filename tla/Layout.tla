------------------------------- MODULE Layout -------------------------------
(***************************************************************************)
(* Where the reviewed definitions of a manifest lie in the sections of the *)
(* objects: the arithmetic of `ObjectFile::empty` and of                   *)
(* `add_data_definition` in src/src/object_files.rs, without the bytes.    *)
(*                                                                         *)
(* An order is a sequence of definitions, records with at least an object, *)
(* a storage, an alignment and a size.                                     *)
(***************************************************************************)
EXTENDS Naturals, Sequences

\* Mutant: the offset is rounded down.
AlignDown(offset, alignment) == (offset \div alignment) * alignment

AlignUp(offset, alignment) ==
  ((offset + alignment - 1) \div alignment) * alignment

\* What `ObjectFile::empty` puts in a section: with --pad-empty-rdata, four
\* bytes in .rdata.
Padding(section, pad_rdata) == IF section = "rdata" /\ pad_rdata THEN 4 ELSE 0

\* Where a section of an object ends, once the first m of an order are in.
SectionEnd(order, object, section, pad_rdata) ==
  LET end[m \in 0 .. Len(order)] ==
        IF m = 0 THEN Padding(section, pad_rdata)
        ELSE IF order[m].object = object /\ order[m].storage = section
             THEN AlignUp(end[m - 1], order[m].alignment) + order[m].size
             ELSE end[m - 1]
  IN  end

\* Where the n-th definition is put: at the end of its section, aligned.
PlacedAt(order, n, pad_rdata) ==
  AlignUp(SectionEnd(order, order[n].object, order[n].storage, pad_rdata)[n - 1],
          order[n].alignment)
=============================================================================
