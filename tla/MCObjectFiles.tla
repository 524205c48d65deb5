--------------------------- MODULE MCObjectFiles ---------------------------
(***************************************************************************)
(* Images of 52 bytes: .text at 0..23, .rdata at 24..35, .data at 36..51.  *)
(* Two functions of ten bytes, each an instruction with an absolute field  *)
(* at its second byte and a five-byte branch; strings at 24, a constant at *)
(* 28, a static at 36; pointers in .data.                                  *)
(***************************************************************************)
EXTENDS ObjectFiles, TLC

MCRdata == [rva |-> 24, size |-> 12]
MCData == [rva |-> 36, size |-> 16]

Constants == {28}
Statics == {36}
Strings == (24 :> 3)

Absolute(kind, base, target) ==
  [kind |-> kind, base |-> base, target |-> target, encoding |-> "Absolute"]

\* The relocation of a target, as the relocation stage classifies it.
Reloc(definitions, t) ==
  LET owners == {d \in definitions : d.rva <= t /\ t < d.rva + d.size}
  IN  CASE t < 24 -> Absolute("Function", The(Predecessor({0, 10}, t)), t)
        [] t >= 24 /\ owners # {} -> Absolute("ReviewedData", The(owners).rva, t)
        [] t \in 24 .. 26 /\ owners = {} -> Absolute("ConjuredString", 24, t)
        [] t \in 27 .. 35 /\ owners = {} ->
             Absolute("ConjuredConstant", The(Predecessor(Constants, t)), t)
        [] OTHER -> Absolute("ConjuredStatic", The(Predecessor(Statics, t)), t)

\* A constant and a static share a name; a string is named by its content, 60.
Name == [rva \in 0 .. 51 |-> IF rva = 28 THEN 36 ELSE rva]

Definition(object, storage, rva, size, alignment, offset) ==
  [object |-> object, storage |-> storage, rva |-> rva, size |-> size,
   alignment |-> alignment, section_offset |-> offset]

\* Reviewed: nothing; a word; an odd one before an aligned one, and bss; a
\* string in an object without functions.
Reviewed ==
  {<<>>,
   <<Definition("a", "data", 36, 4, 4, {0})>>,
   <<Definition("a", "rdata", 24, 3, 1, {0}), Definition("a", "rdata", 28, 4, 4, {}),
     Definition("b", "bss", 48, 4, 4, {0})>>,
   <<Definition("d", "data", 40, 8, 4, {})>>}

\* Definitions that are refused.
Refused ==
  {<<Definition("a", "data", 36, 4, 4, {8})>>,
   <<Definition("a", "rdata", 34, 4, 1, {})>>,
   <<Definition("a", "data", 44, 8, 4, {})>>,
   <<Definition("a", "bss", 40, 4, 4, {})>>,
   <<Definition("a", "data", 36, 4, 4, {}), Definition("a", "rdata", 28, 4, 4, {})>>}

\* Pointers in the data: none; a cycle of two; of one; a chain through .rdata
\* to a string; one out of the image.
Pointers ==
  {EmptyMap, (40 :> 44 @@ 44 :> 40), (40 :> 40), (40 :> 44 @@ 44 :> 32 @@ 32 :> 25)}

Branching(at, len, target) == [at |-> at, len |-> len, target |-> target]

\* Names without and with a qualification, a scope, and Bullet's.
Plain == [qualified |-> FALSE, bullet |-> FALSE, scope |-> {}]
Operator == [qualified |-> TRUE, bullet |-> FALSE, scope |-> {}]
Method == [qualified |-> TRUE, bullet |-> FALSE, scope |-> {"std"}]
Bullet == [qualified |-> TRUE, bullet |-> TRUE, scope |-> {"btVector"}]

In(path) == {[engine |-> TRUE, path |-> path]}
Elsewhere == {[engine |-> FALSE, path |-> "crt"]}

Function(source, form, rva, branches) ==
  [source |-> source, form |-> form, rva |-> rva, size |-> 10,
   branches |-> branches, name |-> rva]

\* The branch of each function: to the other, within, too short, or to no
\* function's start.
ToSecond == {Branching(5, 5, 10), Branching(0, 5, 7), Branching(0, 2, 10)}
ToFirst == {Branching(5, 5, 0), Branching(0, 5, 3)}

\* Modules: both functions in one object; the first folded into two objects
\* and met twice in one, the second of no file of the engine.
Modules ==
  {<<Function(In("a"), Method, 0, ToSecond), Function(In("a"), Method, 10, ToFirst)>>,
   <<Function(In("a"), Method, 0, ToSecond), Function(In("c"), Method, 0, ToSecond),
     Function(Elsewhere, Plain, 10, ToFirst), Function(In("a"), Method, 0, ToSecond)>>}

\* Functions without lines; and one that lies within another.
Unusual ==
  {<<Function({}, Plain, 0, ToSecond), Function({}, Method, 0, ToSecond),
     Function({}, Operator, 10, ToFirst), Function({}, Bullet, 10, ToFirst)>>,
   <<Function(In("a"), Method, 0, ToSecond),
     [Function(In("a"), Method, 4, {Branching(1, 5, 10)}) EXCEPT !.size = 6],
     Function(In("a"), Method, 0, ToSecond)>>}

\* A function holding a jump table that decodes to a branch below the base.
Below == Function(In("a"), Method, 0, ToSecond \cup {Branching(0, 5, -3)})

Input(definitions, pointers, targets, functions, public) ==
  LET range == {definitions[n] : n \in DOMAIN definitions}
      sites_to == pointers @@ targets
  IN  [definitions |-> definitions,
       relocs |-> [s \in DOMAIN sites_to |-> Reloc(range, sites_to[s])],
       functions |-> functions, public |-> public,
       symbol_name |-> Name, string_name |-> (24 :> 60),
       strings |-> Strings, pad_rdata |-> (definitions = <<>>), overflow_checks |-> TRUE]

MCInputs ==
  {Input(d, p, (1 :> t) @@ (11 :> u), f, public) :
     d \in Reviewed, p \in Pointers, t \in {10, 25, 36, 40}, u \in {25, 36, 40, 44},
     f \in Modules, public \in {{0, 10}, {10}}}
  \cup
  {Input(d, p, (1 :> t), f, {0, 10}) :
     d \in Refused, p \in {(40 :> 44 @@ 44 :> 40)}, t \in {40}, f \in Modules}
  \cup
  {Input(d, EmptyMap, (1 :> t), f, {0, 10}) :
     d \in {<<>>, <<Definition("a", "data", 36, 4, 4, {0})>>}, t \in {10, 36, 40},
     f \in Unusual}
  \cup
  \* A reviewed .rdata definition at the start of a padded section.
  {[Input(<<Definition("a", "rdata", 24, 3, 1, o)>>, EmptyMap, EmptyMap, f, {0, 10})
      EXCEPT !.pad_rdata = TRUE] : o \in {{}, {0}, {4}}, f \in Modules}
  \cup
  \* A false hit on a branch's field; a target at the end of the image; a
  \* function that reaches past it.
  {Input(<<>>, p, t, f, {0, 10}) :
     p \in {EmptyMap}, t \in {(6 :> 40), (6 :> 0), (1 :> 50)}, f \in Modules}
  \cup
  {[Input(<<>>, EmptyMap, (1 :> t), <<Below, Function(In("a"), Method, 10, ToFirst)>>, {0, 10})
      EXCEPT !.overflow_checks = checks] : t \in {10, 36}, checks \in BOOLEAN}
  \cup
  {Input(<<>>, EmptyMap, EmptyMap, <<[Function(In("a"), Method, 46, {}) EXCEPT !.size = 8]>>, {0})}
=============================================================================
