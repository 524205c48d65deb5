------------------------------ MODULE PdbSymbols ------------------------------
(***************************************************************************)
(* The name tables: src/src/pdb_symbols.rs.                                *)
(*                                                                         *)
(* A PDB names an address many times over: public symbols, mangled, in the *)
(* global table; data symbols beside them; procedures, thunks and data in  *)
(* each module.  Four tables by RVA are filled in passes with different    *)
(* rules: the global table's symbols in their order, then its data symbols *)
(* where nothing is yet, then the modules' symbols.                        *)
(***************************************************************************)
EXTENDS Naturals, Lookup, SequencesExt

CONSTANTS
  Rva,      \* section -> RVA, for "text", "rdata" and "data"
  Names,    \* the names of symbols
  Inputs    \* the symbol streams to consider

\* A symbol as `parse` gives it: a public one is a function or not; a literal
\* is a name that starts with `??_C@_`, which demangles to a string, to something
\* else, or not at all.
Symbol ==
  [type : {"public", "data", "procedure", "thunk", "other"}, function : BOOLEAN,
   section : {"text", "rdata", "data", "none"}, offset : Nat, name : Names,
   literal : {"no", "string", "other", "broken"}]

ASSUME InputsAssumption ==
  /\ Rva \in [{"text", "rdata", "data"} -> Nat]
  /\ \A i \in Inputs : i.global \in Seq(Symbol) /\ i.modules \in Seq(Symbol)

VARIABLES
  input,       \* the global table, and the symbols of all modules in order
  phase,       \* which loop is running, or how parsing ended
  todo,        \* the symbols it has not reached
  functions,   \* RVA -> the names of the functions folded there
  strings, constants, statics,   \* RVA -> name
  static_data_symbols, constant_data_symbols   \* deferred, in order

tables == <<functions, strings, constants, statics>>
deferred == <<static_data_symbols, constant_data_symbols>>
vars == <<input, phase, todo, tables, deferred>>

Failures == {"panic", "invalid name"}
-----------------------------------------------------------------------------
Init ==
  /\ input \in Inputs
  /\ phase = "global" /\ todo = input.global
  /\ functions = EmptyMap /\ strings = EmptyMap
  /\ constants = EmptyMap /\ statics = EmptyMap
  /\ static_data_symbols = <<>> /\ constant_data_symbols = <<>>

Take(loop) == phase = loop /\ todo # <<>> /\ todo' = Tail(todo) /\ UNCHANGED input

\* The address of a symbol in one of the three sections.
At(s) == Rva[s.section] + s.offset

Located(s) == s.section \in DOMAIN Rva

\* Mutant: an entry is not asked whether it is vacant.
InsertAny(map, key, value) == Insert(map, key, value)

\* `entry(key).or_insert(value)`, `entry(key)` if it is `Vacant`.
InsertVacant(map, key, value) == IF key \in DOMAIN map THEN map ELSE Insert(map, key, value)
-----------------------------------------------------------------------------
(* `iterate_symbol_table`                                                   *)

Public(s) == s.type = "public" /\ Located(s)

\* Mutant: a function folded with another takes its place.
AddFunctionAlone ==
  /\ Take("global")
  /\ LET s == Head(todo)
     IN  /\ Public(s) /\ s.function /\ s.section = "text"
         /\ functions' = Insert(functions, At(s), <<s.name>>)
  /\ UNCHANGED <<phase, strings, constants, statics, deferred>>

AddFunction ==
  /\ Take("global")
  /\ LET s == Head(todo)
         folded == IF At(s) \in DOMAIN functions THEN functions[At(s)] ELSE <<>>
     IN  /\ Public(s) /\ s.function /\ s.section = "text"
         /\ functions' = Insert(functions, At(s), Append(folded, s.name))
  /\ UNCHANGED <<phase, strings, constants, statics, deferred>>

\* `assert_eq!(offset.section, env.text.id)`
MisplacedFunction(s) == Public(s) /\ s.function /\ s.section # "text"

Literal(s) == Public(s) /\ ~s.function /\ s.section = "rdata" /\ s.literal # "no"

ConstantString(s) == Literal(s) /\ s.literal = "string"

AddString ==
  /\ Take("global")
  /\ LET s == Head(todo)
     IN  /\ ConstantString(s) /\ At(s) \notin DOMAIN strings
         /\ strings' = Insert(strings, At(s), s.name)
  /\ UNCHANGED <<phase, functions, constants, statics, deferred>>

Constant(s) == Public(s) /\ ~s.function /\ s.section = "rdata" /\ s.literal = "no"

\* "For now we simply keep one": the last.
AddConstant ==
  /\ Take("global")
  /\ LET s == Head(todo)
     IN  Constant(s) /\ constants' = Insert(constants, At(s), s.name)
  /\ UNCHANGED <<phase, functions, strings, statics, deferred>>

Static(s) == Public(s) /\ ~s.function /\ s.section = "data"

AddStatic ==
  /\ Take("global")
  /\ LET s == Head(todo)
     IN  /\ Static(s) /\ At(s) \notin DOMAIN statics
         /\ statics' = Insert(statics, At(s), s.name)
  /\ UNCHANGED <<phase, functions, strings, constants, deferred>>

\* Mutant: a constant cannot repeat either.
RepeatsAny(s) ==
  \/ ConstantString(s) /\ At(s) \in DOMAIN strings
  \/ Constant(s) /\ At(s) \in DOMAIN constants
  \/ Static(s) /\ At(s) \in DOMAIN statics

\* "Constant symbols cannot repeat", "Static symbols cannot repeat"
Repeats(s) ==
  \/ ConstantString(s) /\ At(s) \in DOMAIN strings
  \/ Static(s) /\ At(s) \in DOMAIN statics

\* `else { unreachable!() }`, of a name that demangles to something else.
NoString(s) == Literal(s) /\ s.literal = "other"

RefuseGlobal ==
  /\ Take("global")
  /\ \/ MisplacedFunction(Head(todo)) /\ phase' = "panic"
     \/ Repeats(Head(todo)) /\ phase' = "panic"
     \/ NoString(Head(todo)) /\ phase' = "panic"
     \/ Literal(Head(todo)) /\ Head(todo).literal = "broken" /\ phase' = "invalid name"
  /\ UNCHANGED <<tables, deferred>>

\* A data symbol waits until all public symbols are in.
Defer ==
  /\ Take("global")
  /\ LET s == Head(todo)
         entry == [rva |-> At(s), name |-> s.name]
     IN  /\ s.type = "data"
         /\ \/ /\ s.section = "rdata"
               /\ constant_data_symbols' = Append(constant_data_symbols, entry)
               /\ UNCHANGED static_data_symbols
            \/ /\ s.section = "data"
               /\ static_data_symbols' = Append(static_data_symbols, entry)
               /\ UNCHANGED constant_data_symbols
  /\ UNCHANGED <<phase, tables>>

Ignored(s) ==
  \/ s.type \notin {"public", "data"}
  \/ s.section = "none"
  \/ s.section = "text" /\ ~(Public(s) /\ s.function)

SkipGlobal == Take("global") /\ Ignored(Head(todo)) /\ UNCHANGED <<phase, tables, deferred>>

\* Where nothing is yet, a deferred data symbol is inserted: statics first.
AddDeferred ==
  /\ phase = "global" /\ todo = <<>>
  /\ \/ /\ static_data_symbols # <<>>
        /\ LET d == Head(static_data_symbols)
           IN  statics' = InsertVacant(statics, d.rva, d.name)
        /\ static_data_symbols' = Tail(static_data_symbols)
        /\ UNCHANGED <<constants, constant_data_symbols>>
     \/ /\ static_data_symbols = <<>> /\ constant_data_symbols # <<>>
        /\ LET d == Head(constant_data_symbols)
           IN  constants' = InsertVacant(constants, d.rva, d.name)
        /\ constant_data_symbols' = Tail(constant_data_symbols)
        /\ UNCHANGED <<statics, static_data_symbols>>
  /\ UNCHANGED <<input, phase, todo, functions, strings>>

StartModules ==
  /\ phase = "global" /\ todo = <<>>
  /\ static_data_symbols = <<>> /\ constant_data_symbols = <<>>
  /\ phase' = "modules" /\ todo' = input.modules
  /\ UNCHANGED <<input, tables, deferred>>
-----------------------------------------------------------------------------
(* `iterate_modules`                                                        *)

Procedure(s) == s.type \in {"procedure", "thunk"}

\* Mutant: a new address gets an empty group, as `or_default` makes it.
AddFunctionSymbolEmpty ==
  /\ Take("modules")
  /\ Procedure(Head(todo))
  /\ functions' = InsertVacant(functions, Rva["text"] + Head(todo).offset, <<>>)
  /\ UNCHANGED <<phase, strings, constants, statics, deferred>>

\* `add_function_symbol`: its section is not asked for.
AddFunctionSymbol ==
  /\ Take("modules")
  /\ LET s == Head(todo)
     IN  /\ Procedure(s)
         /\ functions' = InsertVacant(functions, Rva["text"] + s.offset, <<s.name>>)
  /\ UNCHANGED <<phase, strings, constants, statics, deferred>>

\* "Prefer symbol names from modules."
AddDataSymbol ==
  /\ Take("modules")
  /\ LET s == Head(todo)
     IN  /\ s.type = "data"
         /\ \/ /\ s.section = "rdata"
               /\ constants' = Insert(constants, At(s), s.name) /\ UNCHANGED statics
            \/ /\ s.section = "data"
               /\ statics' = Insert(statics, At(s), s.name) /\ UNCHANGED constants
  /\ UNCHANGED <<phase, functions, strings, deferred>>

\* `unreachable!()`
RefusePublic ==
  /\ Take("modules") /\ Head(todo).type = "public"
  /\ phase' = "panic" /\ UNCHANGED <<tables, deferred>>

SkipModule ==
  /\ Take("modules")
  /\ LET s == Head(todo)
     IN  s.type = "other" \/ (s.type = "data" /\ s.section \in {"text", "none"})
  /\ UNCHANGED <<phase, tables, deferred>>

Finish ==
  /\ phase = "modules" /\ todo = <<>>
  /\ phase' = "parsed" /\ UNCHANGED <<input, todo, tables, deferred>>

Over == phase \in {"parsed"} \cup Failures

Stop == Over /\ UNCHANGED vars

Next ==
  \/ AddFunction \/ AddString \/ AddConstant \/ AddStatic
  \/ RefuseGlobal \/ Defer \/ SkipGlobal \/ AddDeferred \/ StartModules
  \/ AddFunctionSymbol \/ AddDataSymbol \/ RefusePublic \/ SkipModule \/ Finish
  \/ Stop

Spec == Init /\ [][Next]_vars
-----------------------------------------------------------------------------
(* Properties: the streams are looked at as a whole, the loops are not.     *)

\* The type invariant.
TypeOK ==
  /\ phase \in {"global", "modules", "parsed"} \cup Failures
  /\ todo \in Seq(Symbol)
  /\ DOMAIN functions \subseteq Nat
  /\ \A rva \in DOMAIN functions : functions[rva] \in Seq(Names) \ {<<>>}
  /\ \A map \in {strings, constants, statics} :
       DOMAIN map \subseteq Nat /\ \A rva \in DOMAIN map : map[rva] \in Names
  /\ static_data_symbols \in Seq([rva : Nat, name : Names])
  /\ constant_data_symbols \in Seq([rva : Nat, name : Names])

\* The kinds of symbols, and the positions of a kind in a stream that name an RVA.
PublicFunctions == {s \in Symbol : Public(s) /\ s.function}
Constants == {s \in Symbol : Constant(s)}
Statics == {s \in Symbol : Static(s)}
DataOf(section) == {s \in Symbol : s.type = "data" /\ s.section = section}

Naming(stream, kind, rva) ==
  {n \in DOMAIN stream : stream[n] \in kind /\ At(stream[n]) = rva}

\* A procedure is taken to be in .text.
Procedures(stream, rva) ==
  {n \in DOMAIN stream : Procedure(stream[n]) /\ Rva["text"] + stream[n].offset = rva}

First(positions) == {n \in positions : \A m \in positions : n <= m}
Latest(positions) == {n \in positions : \A m \in positions : m <= n}

NamesOf(stream, positions) == {stream[n].name : n \in positions}

\* The name an address of a data section is to have: the last that a module
\* gives it, else its last public one, else its first in the global table.
Preferred(section, publics, rva) ==
  OrElse(NamesOf(input.modules, Latest(Naming(input.modules, DataOf(section), rva))),
         OrElse(NamesOf(input.global, Latest(Naming(input.global, publics, rva))),
                NamesOf(input.global, First(Naming(input.global, DataOf(section), rva)))))

Image(map, rva) == {map[k] : k \in {rva} \cap DOMAIN map}

Addresses == {Rva[x] + s.offset : x \in DOMAIN Rva, s \in ToSet(input.global) \cup ToSet(input.modules)}

\* Every address of .rdata and .data has the name the comments prefer, "public
\* symbols" over unmangled ones and "symbol names from modules" over both,
\* whatever the order of the passes' symbols; and only named ones are in the
\* tables.
DataNamesPreferred ==
  phase = "parsed" =>
    /\ DOMAIN constants \cup DOMAIN statics \subseteq Addresses
    /\ \A rva \in Addresses :
         /\ Image(constants, rva) = Preferred("rdata", Constants, rva)
         /\ Image(statics, rva) = Preferred("data", Statics, rva)

\* The names at some positions of a stream, in order.
Lists(names, stream, positions) ==
  /\ Len(names) = Cardinality(positions)
  /\ \A n \in positions : names[Cardinality({m \in positions : m <= n})] = stream[n].name

\* A folded function keeps all its public names, which the matcher chooses
\* from, and a name from a module, the first, only if it has none: the module's
\* name, not mangled, never joins a group.
FoldedNamesComplete ==
  phase = "parsed" =>
    /\ DOMAIN functions \subseteq Addresses
    /\ \A rva \in Addresses :
         LET publics == Naming(input.global, PublicFunctions, rva)
         IN  IF publics # {}
             THEN rva \in DOMAIN functions /\ Lists(functions[rva], input.global, publics)
             ELSE Image(functions, rva) =
                    {<<name>> : name \in NamesOf(input.modules,
                                                First(Procedures(input.modules, rva)))}

\* The asserts fire for what they say cannot repeat, and a constant, which may,
\* never stops the run; nor does a literal, unless its name is not a string's.
StopsForCause ==
  phase = "panic" =>
    \/ \E n \in DOMAIN input.global :
         MisplacedFunction(input.global[n]) \/ NoString(input.global[n])
    \/ \E n \in DOMAIN input.modules : input.modules[n].type = "public"
    \/ \E m, n \in DOMAIN input.global :
         LET s == input.global[m]
             t == input.global[n]
         IN  /\ m < n
             /\ (Static(s) /\ Static(t)) \/ (ConstantString(s) /\ ConstantString(t))
             /\ At(s) = At(t)
=============================================================================
