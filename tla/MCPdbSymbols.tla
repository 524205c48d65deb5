---------------------------- MODULE MCPdbSymbols ----------------------------
(***************************************************************************)
(* Two addresses in each section, mangled names and plain ones; global     *)
(* tables of up to three symbols in every order, modules of up to two.      *)
(***************************************************************************)
EXTENDS PdbSymbols

CONSTANTS mangled, other, plain, module_name

MCRva == [text |-> 0, rdata |-> 10, data |-> 20]

Sym(type, section, offset, name) ==
  [type |-> type, function |-> FALSE, section |-> section, offset |-> offset,
   name |-> name, literal |-> "no"]

Fun(section, offset, name) == [Sym("public", section, offset, name) EXCEPT !.function = TRUE]
Lit(offset, name, literal) == [Sym("public", "rdata", offset, name) EXCEPT !.literal = literal]

\* What the streams are put together from: public and plain names for one
\* address, a folded function, two constants of one address.
Globals ==
  {Sym("public", "data", 0, mangled), Sym("data", "data", 0, plain),
   Sym("data", "data", 0, other), Sym("public", "rdata", 0, mangled),
   Sym("public", "rdata", 0, other), Sym("data", "rdata", 0, plain),
   Lit(0, mangled, "string"), Fun("text", 0, mangled), Fun("text", 0, other)}

\* What stops a run, and what is passed over.
Oddities ==
  {Sym("public", "data", 0, other), Lit(0, other, "string"), Lit(0, other, "other"),
   Lit(0, other, "broken"),
   Fun("rdata", 0, other), Fun("none", 0, other), Sym("public", "text", 0, other),
   Sym("data", "text", 0, other), Sym("data", "none", 0, other), Sym("other", "data", 0, other)}

Modules ==
  {Sym("procedure", "text", 0, module_name), Sym("thunk", "text", 1, module_name),
   Sym("procedure", "text", 1, plain), Sym("data", "data", 0, module_name),
   Sym("data", "rdata", 0, module_name), Sym("data", "rdata", 0, plain),
   Sym("data", "text", 0, plain), Sym("other", "none", 0, plain),
   Sym("public", "data", 0, plain)}

\* Up to n of the symbols, in every order.
Streams(symbols, n) == UNION {SetToSeqs(s) : s \in {t \in SUBSET symbols : Cardinality(t) <= n}}

MCInputs ==
  {[global |-> g, modules |-> m] : g \in Streams(Globals, 3), m \in Streams(Modules, 1)}
  \cup
  {[global |-> g, modules |-> m] : g \in Streams(Globals, 1), m \in Streams(Modules, 2)}
  \cup
  {[global |-> Append(g, o), modules |-> <<>>] : g \in Streams(Globals, 2), o \in Oddities}
=============================================================================
