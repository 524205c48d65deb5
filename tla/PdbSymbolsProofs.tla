--------------------------- MODULE PdbSymbolsProofs ---------------------------
(***************************************************************************)
(* What the name tables hold, for every image and every stream of symbols. *)
(*                                                                         *)
(* The argument.  A pass takes its symbols in order, so that what it has   *)
(* read is a prefix, and the next symbol is later than all of it.  What an *)
(* address is named, or is to be named once the deferred symbols are in,   *)
(* is what the symbols read so far prefer: a pass changes both in the same *)
(* way.                                                                    *)
(***************************************************************************)
EXTENDS PdbSymbols, OrderProofs, FiniteSetTheorems

-----------------------------------------------------------------------------
(* Positions.                                                              *)

\* Of positions to which a later one is added, that one is the latest, and the
\* first if there was none.
LEMMA LaterPosition ==
  ASSUME NEW S \in SUBSET Nat, NEW k \in Nat, \A m \in S : m < k
  PROVE  /\ Latest(S \cup {k}) = {k}
         /\ First(S \cup {k}) = IF First(S) = {} THEN {k} ELSE First(S)
         /\ First(S) = {} <=> S = {}
<1>1. Latest(S \cup {k}) = {k}
  <2>1. \A m \in S : m \in Nat /\ ~(k <= m)
    OBVIOUS
  <2>2. \A m \in S \cup {k} : m <= k
    OBVIOUS
  <2> QED BY <2>1, <2>2 DEF Latest
<1>2. CASE S = {}
  <2>1. First(S) = {} /\ First(S \cup {k}) = {k}
    BY <1>2 DEF First
  <2> QED BY <1>1, <1>2, <2>1
<1>3. CASE S # {}
  <2>1. PICK m \in S : \A n \in S : m <= n
    BY <1>3, LeastExists
  <2>2. m \in First(S)
    BY <2>1 DEF First
  <2>3. First(S \cup {k}) = First(S)
    <3>1. \A n \in First(S \cup {k}) : n \in First(S)
      BY <2>1 DEF First
    <3>2. \A n \in First(S) : n \in First(S \cup {k})
      BY DEF First
    <3> QED BY <3>1, <3>2
  <2> QED BY <1>1, <1>3, <2>2, <2>3
<1> QED BY <1>2, <1>3

\* There is one first position at most.
LEMMA OneFirst ==
  ASSUME NEW S \in SUBSET Nat, NEW m \in First(S)
  PROVE  First(S) = {m}
<1>1. \A n \in First(S) : n \in Nat /\ m \in Nat /\ n <= m /\ m <= n
  BY DEF First
<1>2. \A n \in First(S) : n = m
  BY <1>1
<1> QED BY <1>2

-----------------------------------------------------------------------------
(* The inductive invariant.                                                *)

\* The symbols the loop has left are those after the ones it has read.
Left(stream) ==
  /\ Len(todo) <= Len(stream)
  /\ \A n \in DOMAIN todo : todo[n] = stream[(Len(stream) - Len(todo)) + n]

\* The positions read of the global table.
GlobalRead ==
  IF phase = "global" THEN 1 .. Len(input.global) - Len(todo) ELSE DOMAIN input.global

\* The positions read of the modules.
ModulesRead ==
  IF phase = "modules" THEN 1 .. Len(input.modules) - Len(todo)
  ELSE IF phase = "parsed" THEN DOMAIN input.modules ELSE {}

\* The loops walk the streams, and the deferred symbols before the modules.
Walking ==
  /\ phase = "global" => Left(input.global)
  /\ phase = "modules" => Left(input.modules)
  /\ phase \in {"modules", "parsed"} =>
       static_data_symbols = <<>> /\ constant_data_symbols = <<>>

\* The type invariant, and what it says of the streams being walked.
Typed ==
  /\ TypeOK /\ Walking
  /\ input.global \in Seq(Symbol) /\ input.modules \in Seq(Symbol)

\* Only addresses that a symbol names are in the tables.
OnlyNamed ==
  /\ DOMAIN functions \cup DOMAIN constants \cup DOMAIN statics \subseteq Addresses
  /\ \A n \in DOMAIN static_data_symbols : static_data_symbols[n].rva \in Addresses
  /\ \A n \in DOMAIN constant_data_symbols : constant_data_symbols[n].rva \in Addresses

\* The name that a deferred symbol is to give an address.
Waiting(pending, rva) ==
  NamesOf(pending, First({n \in DOMAIN pending : pending[n].rva = rva}))

\* The name an address has, or is to have.
Named(map, pending, rva) == OrElse(Image(map, rva), Waiting(pending, rva))

\* The name that what has been read prefers.
Best(section, publics, rva) ==
  OrElse(NamesOf(input.modules,
                 Latest(Naming(input.modules, DataOf(section), rva) \cap ModulesRead)),
         OrElse(NamesOf(input.global, Latest(Naming(input.global, publics, rva) \cap GlobalRead)),
                NamesOf(input.global,
                        First(Naming(input.global, DataOf(section), rva) \cap GlobalRead))))

\* In .rdata they are the same.
ConstantNamed(rva) ==
  Named(constants, constant_data_symbols, rva) = Best("rdata", Constants, rva)

\* In .data too.
StaticNamed(rva) == Named(statics, static_data_symbols, rva) = Best("data", Statics, rva)

\* While a run goes on, every address of data is named so.
DataNamed ==
  phase \notin Failures => \A rva \in Addresses : ConstantNamed(rva) /\ StaticNamed(rva)

\* The positions read of the public functions at an address.
PublicsRead(rva) == Naming(input.global, PublicFunctions, rva) \cap GlobalRead

\* The positions read of the modules' procedures at an address.
ProceduresRead(rva) == Procedures(input.modules, rva) \cap ModulesRead

\* A function has the public names read, else the first name of a module's.
FunctionNamed(rva) ==
  IF PublicsRead(rva) # {}
  THEN rva \in DOMAIN functions /\ Lists(functions[rva], input.global, PublicsRead(rva))
  ELSE Image(functions, rva) =
         {<<name>> : name \in NamesOf(input.modules, First(ProceduresRead(rva)))}

\* While a run goes on, every address of code is named so.
FunctionsNamed == phase \notin Failures => \A rva \in Addresses : FunctionNamed(rva)

\* While there are public symbols to come, what a table has came from one.
PublicFirst ==
  phase = "global" /\ todo # <<>> =>
    /\ \A rva \in DOMAIN strings :
         \E n \in GlobalRead : ConstantString(input.global[n]) /\ At(input.global[n]) = rva
    /\ \A rva \in DOMAIN statics :
         \E n \in GlobalRead : Static(input.global[n]) /\ At(input.global[n]) = rva

\* The inductive invariant.
IInv ==
  /\ Typed /\ OnlyNamed /\ DataNamed /\ FunctionsNamed
  /\ PublicFirst /\ StopsForCause

-----------------------------------------------------------------------------
(* Reading.                                                                *)

\* A symbol of a stream has a type, and its address is of the streams.
LEMMA SymbolFacts ==
  ASSUME Typed
  PROVE  /\ \A n \in DOMAIN input.global : input.global[n] \in Symbol
         /\ \A n \in DOMAIN input.modules : input.modules[n] \in Symbol
         /\ \A s \in Symbol : /\ s.offset \in Nat /\ s.name \in Names
                              /\ Located(s) => At(s) \in Nat
                              /\ Rva["text"] + s.offset \in Nat
         /\ \A n \in DOMAIN input.global :
              Located(input.global[n]) => At(input.global[n]) \in Addresses
         /\ \A n \in DOMAIN input.modules :
              /\ Located(input.modules[n]) => At(input.modules[n]) \in Addresses
              /\ Rva["text"] + input.modules[n].offset \in Addresses
<1>1. /\ \A n \in DOMAIN input.global : input.global[n] \in Symbol
      /\ \A n \in DOMAIN input.modules : input.modules[n] \in Symbol
  BY DEF Typed
<1>2. Rva \in [{"text", "rdata", "data"} -> Nat]
  BY InputsAssumption
<1>3. \A s \in Symbol : /\ s.offset \in Nat /\ s.name \in Names
                        /\ Located(s) => At(s) \in Nat
                        /\ Rva["text"] + s.offset \in Nat
  BY <1>2 DEF Symbol, Located, At
<1>4. /\ \A n \in DOMAIN input.global : input.global[n] \in ToSet(input.global)
      /\ \A n \in DOMAIN input.modules : input.modules[n] \in ToSet(input.modules)
  BY DEF ToSet
<1>5. \A n \in DOMAIN input.global :
        Located(input.global[n]) => At(input.global[n]) \in Addresses
  BY <1>4 DEF Addresses, Located, At
<1>6. \A n \in DOMAIN input.modules :
        /\ Located(input.modules[n]) => At(input.modules[n]) \in Addresses
        /\ Rva["text"] + input.modules[n].offset \in Addresses
  BY <1>2, <1>4 DEF Addresses, Located, At
<1> QED BY <1>1, <1>3, <1>5, <1>6

\* The next symbol of a stream comes after those read.
LEMMA NextOf ==
  ASSUME NEW stream, stream \in Seq(Symbol), todo \in Seq(Symbol), Left(stream), todo # <<>>,
         todo' = Tail(todo)
  PROVE  \E k : /\ k \in DOMAIN stream /\ k \in Nat /\ Head(todo) = stream[k]
                /\ k = (Len(stream) - Len(todo)) + 1
                /\ 1 .. Len(stream) - Len(todo') = (1 .. Len(stream) - Len(todo)) \cup {k}
                /\ \A n \in 1 .. Len(stream) - Len(todo) : n < k
                /\ todo' \in Seq(Symbol)
                /\ Len(todo') <= Len(stream)
                /\ \A n \in DOMAIN todo' : todo'[n] = stream[(Len(stream) - Len(todo')) + n]
<1>1. PICK rest : rest = todo'
  OBVIOUS
<1>2. /\ Head(todo) = todo[1] /\ 1 \in DOMAIN todo /\ rest \in Seq(Symbol)
      /\ DOMAIN todo = 1 .. Len(todo) /\ Len(todo) \in Nat
      /\ \A n \in DOMAIN rest : n \in Nat /\ n + 1 \in DOMAIN todo /\ rest[n] = todo[n + 1]
  BY <1>1, TailFacts
<1>3. Len(rest) = Len(todo) - 1 /\ Len(todo) > 0
  BY <1>1
<1>4. PICK l, g : l = Len(todo) /\ g = Len(stream)
  OBVIOUS
<1>5. l \in Nat /\ l > 0 /\ g \in Nat /\ l <= g /\ DOMAIN stream = 1 .. g /\ Len(rest) = l - 1
  BY <1>2, <1>3, <1>4 DEF Left
<1>6. PICK k : k = (g - l) + 1
  OBVIOUS
<1>7. /\ k \in 1 .. g /\ k \in Nat /\ 1 .. g - (l - 1) = (1 .. g - l) \cup {k}
      /\ \A n \in 1 .. g - l : n < k
  BY <1>5, <1>6
<1>8. Head(todo) = stream[k]
  BY <1>2, <1>4, <1>6 DEF Left
<1>9. \A n \in DOMAIN rest : rest[n] = stream[(g - (l - 1)) + n]
  <2> TAKE n \in DOMAIN rest
  <2>1. rest[n] = stream[(g - l) + (n + 1)]
    BY <1>2, <1>4 DEF Left
  <2>2. (g - l) + (n + 1) = (g - (l - 1)) + n
    BY <1>2, <1>5
  <2> QED BY <2>1, <2>2
<1>10. l - 1 <= g
  BY <1>5
<1> QED BY <1>1, <1>2, <1>4, <1>5, <1>6, <1>7, <1>8, <1>9, <1>10

\* A step that reads a symbol of the global table.
ReadsGlobal(k) ==
  /\ phase = "global" /\ todo # <<>> /\ UNCHANGED input /\ todo' = Tail(todo)
  /\ k \in DOMAIN input.global /\ k \in Nat /\ Head(todo) = input.global[k]
  /\ input.global[k] \in Symbol
  /\ GlobalRead \subseteq DOMAIN input.global /\ \A n \in GlobalRead : n \in Nat /\ n < k
  /\ ModulesRead = {}
  /\ phase' = phase => /\ GlobalRead' = GlobalRead \cup {k} /\ ModulesRead' = {}
                       /\ Left(input.global)'
  /\ todo' \in Seq(Symbol)

\* Every symbol the first loop takes is read so.
LEMMA GlobalTaken ==
  ASSUME Typed, Take("global")
  PROVE  \E k : ReadsGlobal(k)
<1>1. /\ phase = "global" /\ todo # <<>> /\ UNCHANGED input /\ todo' = Tail(todo)
      /\ input.global \in Seq(Symbol) /\ todo \in Seq(Symbol) /\ Left(input.global)
  BY DEF Take, Typed, TypeOK, Walking
<1>2. PICK g : g = input.global
  OBVIOUS
<1>3. PICK k : /\ k \in DOMAIN g /\ k \in Nat /\ Head(todo) = g[k]
               /\ k = (Len(g) - Len(todo)) + 1
               /\ 1 .. Len(g) - Len(todo') = (1 .. Len(g) - Len(todo)) \cup {k}
               /\ \A n \in 1 .. Len(g) - Len(todo) : n < k
               /\ todo' \in Seq(Symbol)
               /\ Len(todo') <= Len(g)
               /\ \A n \in DOMAIN todo' : todo'[n] = g[(Len(g) - Len(todo')) + n]
  BY <1>1, <1>2, NextOf
<1>4. g[k] \in Symbol /\ Len(g) \in Nat /\ DOMAIN g = 1 .. Len(g) /\ Len(todo) \in Nat
  BY <1>1, <1>2, <1>3
<1>5. /\ GlobalRead = 1 .. Len(g) - Len(todo) /\ ModulesRead = {}
      /\ phase' = phase => GlobalRead' = 1 .. Len(g) - Len(todo') /\ ModulesRead' = {}
  BY <1>1, <1>2 DEF GlobalRead, ModulesRead
<1>6. GlobalRead \subseteq DOMAIN input.global /\ \A n \in GlobalRead : n \in Nat /\ n < k
  BY <1>2, <1>3, <1>4, <1>5
<1>7. Left(input.global)'
  BY <1>1, <1>2, <1>3 DEF Left
<1> QED BY <1>1, <1>2, <1>3, <1>4, <1>5, <1>6, <1>7 DEF ReadsGlobal

\* A step that reads a symbol of a module.
ReadsModule(k) ==
  /\ phase = "modules" /\ UNCHANGED input
  /\ k \in DOMAIN input.modules /\ k \in Nat /\ Head(todo) = input.modules[k]
  /\ input.modules[k] \in Symbol
  /\ \A n \in ModulesRead : n \in Nat /\ n < k
  /\ phase' = phase => /\ ModulesRead' = ModulesRead \cup {k} /\ GlobalRead' = GlobalRead
                       /\ Left(input.modules)'
  /\ todo' \in Seq(Symbol)

\* Every symbol the second loop takes is read so.
LEMMA ModuleTaken ==
  ASSUME Typed, Take("modules")
  PROVE  \E k : ReadsModule(k)
<1>1. /\ phase = "modules" /\ todo # <<>> /\ UNCHANGED input /\ todo' = Tail(todo)
      /\ input.modules \in Seq(Symbol) /\ todo \in Seq(Symbol) /\ Left(input.modules)
  BY DEF Take, Typed, TypeOK, Walking
<1>2. PICK g : g = input.modules
  OBVIOUS
<1>3. PICK k : /\ k \in DOMAIN g /\ k \in Nat /\ Head(todo) = g[k]
               /\ k = (Len(g) - Len(todo)) + 1
               /\ 1 .. Len(g) - Len(todo') = (1 .. Len(g) - Len(todo)) \cup {k}
               /\ \A n \in 1 .. Len(g) - Len(todo) : n < k
               /\ todo' \in Seq(Symbol)
               /\ Len(todo') <= Len(g)
               /\ \A n \in DOMAIN todo' : todo'[n] = g[(Len(g) - Len(todo')) + n]
  BY <1>1, <1>2, NextOf
<1>4. g[k] \in Symbol
  BY <1>1, <1>2, <1>3
<1>5. /\ ModulesRead = 1 .. Len(g) - Len(todo) /\ GlobalRead = DOMAIN input.global
      /\ phase' = phase =>
           ModulesRead' = 1 .. Len(g) - Len(todo') /\ GlobalRead' = DOMAIN input.global
  BY <1>1, <1>2 DEF GlobalRead, ModulesRead
<1>6. \A n \in ModulesRead : n \in Nat /\ n < k
  BY <1>3, <1>5
<1>7. Left(input.modules)'
  BY <1>1, <1>2, <1>3 DEF Left
<1> QED BY <1>1, <1>2, <1>3, <1>4, <1>5, <1>6, <1>7 DEF ReadsModule

\* A step that reads none, at the end of a stream.
Settles == UNCHANGED <<input, GlobalRead, ModulesRead>>

\* The steps that take no symbol leave what has been read.
LEMMA SettledSteps ==
  ASSUME Typed, AddDeferred \/ StartModules \/ Finish \/ UNCHANGED vars
  PROVE  Settles /\ (phase = "global" /\ phase' = phase => UNCHANGED todo)
<1>1. input.global \in Seq(Symbol) /\ input.modules \in Seq(Symbol)
  BY DEF Typed
<1>2. /\ 1 .. Len(input.global) - 0 = DOMAIN input.global
      /\ 1 .. Len(input.modules) - 0 = DOMAIN input.modules
      /\ 1 .. Len(input.modules) - Len(input.modules) = {}
  BY <1>1
<1>3. CASE AddDeferred \/ UNCHANGED vars
  BY <1>3 DEF AddDeferred, vars, tables, deferred, Settles, GlobalRead, ModulesRead
<1>4. Len(<<>>) = 0
  OBVIOUS
<1>5. CASE StartModules
  BY <1>2, <1>4, <1>5 DEF StartModules, tables, deferred, Settles, GlobalRead, ModulesRead
<1>6. CASE Finish
  BY <1>2, <1>4, <1>6 DEF Finish, tables, deferred, Settles, GlobalRead, ModulesRead
<1> QED BY <1>3, <1>5, <1>6

-----------------------------------------------------------------------------
(* What is preferred.                                                      *)

\* The kinds exclude each other.
LEMMA KindsApart ==
  /\ \A s \in Constants : s \notin DataOf("rdata") /\ s \notin DataOf("data") /\ s \notin Statics
  /\ \A s \in Statics : s \notin DataOf("rdata") /\ s \notin DataOf("data") /\ s \notin Constants
  /\ \A s \in DataOf("rdata") : s \notin Constants /\ s \notin Statics /\ s \notin DataOf("data")
  /\ \A s \in DataOf("data") : s \notin Constants /\ s \notin Statics /\ s \notin DataOf("rdata")
BY DEF Constants, Statics, DataOf, Constant, Static, Public

\* The positions read are what they were, and the one just read if it counts.
LEMMA NamingRead ==
  ASSUME NEW stream, NEW kind, NEW rva, NEW read, NEW k \in DOMAIN stream
  PROVE  Naming(stream, kind, rva) \cap (read \cup {k}) =
           (Naming(stream, kind, rva) \cap read) \cup
             (IF stream[k] \in kind /\ At(stream[k]) = rva THEN {k} ELSE {})
BY DEF Naming

\* A public symbol is preferred to all before it.
LEMMA BestPublic ==
  ASSUME NEW k, ReadsGlobal(k), phase' = phase, NEW section, NEW publics, NEW rva,
         input.global[k] \in publics, input.global[k] \notin DataOf(section),
         At(input.global[k]) = rva
  PROVE  Best(section, publics, rva)' = {input.global[k].name}
<1>1. PICK g, m : g = input.global /\ m = input.modules
  OBVIOUS
<1>2. PICK P : P = Naming(g, publics, rva) \cap GlobalRead
  OBVIOUS
<1>3. /\ k \in DOMAIN g /\ k \in Nat /\ input' = input /\ ModulesRead' = {}
      /\ GlobalRead' = GlobalRead \cup {k} /\ P \in SUBSET Nat /\ \A n \in P : n < k
  BY <1>1, <1>2 DEF ReadsGlobal
<1>4. Naming(g, publics, rva) \cap (GlobalRead \cup {k}) = P \cup {k}
  BY <1>1, <1>2, <1>3, NamingRead
<1>5. Latest(P \cup {k}) = {k}
  BY <1>3, LaterPosition
<1>6. Best(section, publics, rva)' =
        OrElse(NamesOf(m, Latest(Naming(m, DataOf(section), rva) \cap {})),
               OrElse(NamesOf(g, {k}),
                      NamesOf(g, First(Naming(g, DataOf(section), rva) \cap (GlobalRead \cup {k})))))
  BY <1>1, <1>3, <1>4, <1>5 DEF Best
<1>7. NamesOf(m, Latest(Naming(m, DataOf(section), rva) \cap {})) = {}
  BY DEF NamesOf, Latest
<1> QED BY <1>1, <1>6, <1>7 DEF OrElse, NamesOf

\* A data symbol of the global table is preferred to nothing.
LEMMA BestData ==
  ASSUME NEW k, ReadsGlobal(k), phase' = phase, NEW section, NEW publics, NEW rva,
         input.global[k] \notin publics, input.global[k] \in DataOf(section),
         At(input.global[k]) = rva
  PROVE  Best(section, publics, rva)' =
           OrElse(Best(section, publics, rva), {input.global[k].name})
<1>1. PICK g, m : g = input.global /\ m = input.modules
  OBVIOUS
<1>2. PICK P, D : /\ P = Naming(g, publics, rva) \cap GlobalRead
                  /\ D = Naming(g, DataOf(section), rva) \cap GlobalRead
  OBVIOUS
<1>3. /\ k \in DOMAIN g /\ k \in Nat /\ input' = input /\ ModulesRead = {} /\ ModulesRead' = {}
      /\ GlobalRead' = GlobalRead \cup {k} /\ D \in SUBSET Nat /\ \A n \in D : n < k
  BY <1>1, <1>2 DEF ReadsGlobal
<1>4. /\ Naming(g, publics, rva) \cap (GlobalRead \cup {k}) = P
      /\ Naming(g, DataOf(section), rva) \cap (GlobalRead \cup {k}) = D \cup {k}
  BY <1>1, <1>2, <1>3, NamingRead
<1>5. /\ First(D \cup {k}) = IF First(D) = {} THEN {k} ELSE First(D)
  BY <1>3, LaterPosition
<1>6. NamesOf(m, Latest(Naming(m, DataOf(section), rva) \cap {})) = {}
  BY DEF NamesOf, Latest
<1>7. Best(section, publics, rva)' =
        OrElse(NamesOf(g, Latest(P)), NamesOf(g, First(D \cup {k})))
  BY <1>1, <1>3, <1>4, <1>6 DEF Best, OrElse
<1>8. Best(section, publics, rva) = OrElse(NamesOf(g, Latest(P)), NamesOf(g, First(D)))
  BY <1>1, <1>2, <1>3, <1>6 DEF Best, OrElse
<1>9. NamesOf(g, First(D \cup {k})) = OrElse(NamesOf(g, First(D)), {g[k].name})
  BY <1>5 DEF NamesOf, OrElse
<1> QED BY <1>1, <1>7, <1>8, <1>9 DEF OrElse

\* Another symbol of the global table changes nothing.
LEMMA BestOther ==
  ASSUME NEW k, ReadsGlobal(k), phase' = phase, NEW section, NEW publics, NEW rva,
         \/ input.global[k] \notin publics /\ input.global[k] \notin DataOf(section)
         \/ At(input.global[k]) # rva
  PROVE  Best(section, publics, rva)' = Best(section, publics, rva)
<1>1. PICK g : g = input.global
  OBVIOUS
<1>2. /\ k \in DOMAIN g /\ input' = input /\ ModulesRead = {} /\ ModulesRead' = {}
      /\ GlobalRead' = GlobalRead \cup {k}
  BY <1>1 DEF ReadsGlobal
<1>3. /\ Naming(g, publics, rva) \cap (GlobalRead \cup {k}) = Naming(g, publics, rva) \cap GlobalRead
      /\ Naming(g, DataOf(section), rva) \cap (GlobalRead \cup {k}) =
           Naming(g, DataOf(section), rva) \cap GlobalRead
  BY <1>1, <1>2, NamingRead
<1> QED BY <1>1, <1>2, <1>3 DEF Best

\* A data symbol of a module is preferred to all before it, another is not.
LEMMA BestModule ==
  ASSUME NEW k, ReadsModule(k), phase' = phase, NEW section, NEW publics, NEW rva
  PROVE  IF input.modules[k] \in DataOf(section) /\ At(input.modules[k]) = rva
         THEN Best(section, publics, rva)' = {input.modules[k].name}
         ELSE Best(section, publics, rva)' = Best(section, publics, rva)
<1>1. PICK m : m = input.modules
  OBVIOUS
<1>2. PICK D : D = Naming(m, DataOf(section), rva) \cap ModulesRead
  OBVIOUS
<1>3. /\ k \in DOMAIN m /\ k \in Nat /\ input' = input /\ GlobalRead' = GlobalRead
      /\ ModulesRead' = ModulesRead \cup {k} /\ D \in SUBSET Nat /\ \A n \in D : n < k
  BY <1>1, <1>2 DEF ReadsModule
<1>4. CASE m[k] \in DataOf(section) /\ At(m[k]) = rva
  <2>1. Naming(m, DataOf(section), rva) \cap (ModulesRead \cup {k}) = D \cup {k}
    BY <1>2, <1>3, <1>4, NamingRead
  <2>2. Latest(D \cup {k}) = {k}
    BY <1>3, LaterPosition
  <2>3. NamesOf(m, {k}) = {m[k].name}
    BY DEF NamesOf
  <2> QED BY <1>1, <1>3, <1>4, <2>1, <2>2, <2>3 DEF Best, OrElse
<1>5. CASE ~(m[k] \in DataOf(section) /\ At(m[k]) = rva)
  <2>1. Naming(m, DataOf(section), rva) \cap (ModulesRead \cup {k}) = D
    BY <1>2, <1>3, <1>5, NamingRead
  <2> QED BY <1>1, <1>2, <1>3, <1>5, <2>1 DEF Best
<1> QED BY <1>1, <1>4, <1>5

-----------------------------------------------------------------------------
(* What is named.                                                          *)

\* Inserting names an address, whatever waits.
LEMMA NamedByInsert ==
  ASSUME NEW map, NEW pending, NEW at, NEW name, NEW rva
  PROVE  Named(Insert(map, at, name), pending, rva) =
           IF at = rva THEN {name} ELSE Named(map, pending, rva)
<1>1. Image(Insert(map, at, name), rva) = IF at = rva THEN {name} ELSE Image(map, rva)
  BY DEF Image, Insert
<1> QED BY <1>1 DEF Named, OrElse

\* Deferring a symbol.
Defers(pending, entry, longer) == longer = Append(pending, entry)

\* The names there are, or else the deferred one.
OrDeferred(names, entry, rva) ==
  IF entry.rva = rva THEN OrElse(names, {entry.name}) ELSE names

\* A deferred symbol is to name an address, if nothing else does.
LEMMA NamedByDeferring ==
  ASSUME NEW R, NEW map, NEW pending \in Seq(R), NEW entry,
         NEW longer, Defers(pending, entry, longer), NEW rva
  PROVE  Named(map, longer, rva) = OrDeferred(Named(map, pending, rva), entry, rva)
<1>1. PICK at, name : at = entry.rva /\ name = entry.name
  OBVIOUS
<1>2. longer = Append(pending, entry)
  BY DEF Defers
<1>3. PICK k : k = Len(pending) + 1
  OBVIOUS
<1>4. /\ DOMAIN pending = 1 .. Len(pending) /\ Len(pending) \in Nat
      /\ DOMAIN longer = 1 .. Len(pending) + 1
      /\ \A n \in 1 .. Len(pending) : longer[n] = pending[n]
      /\ longer[k] = entry
  BY <1>1, <1>2, <1>3
<1>5. PICK W : W = {n \in DOMAIN pending : pending[n].rva = rva}
  OBVIOUS
<1>6. W \in SUBSET Nat /\ k \in Nat /\ \A n \in W : n < k /\ longer[n] = pending[n]
  BY <1>3, <1>4, <1>5
<1>7. {n \in DOMAIN longer : longer[n].rva = rva} = W \cup (IF at = rva THEN {k} ELSE {})
  BY <1>1, <1>3, <1>4, <1>5
<1>8. First(W) \subseteq W
  BY DEF First
<1>9. NamesOf(longer, First(W)) = NamesOf(pending, First(W))
  BY <1>6, <1>8 DEF NamesOf
<1>10. CASE at = rva
  <2>1. First(W \cup {k}) = IF First(W) = {} THEN {k} ELSE First(W)
    BY <1>6, LaterPosition
  <2>2. /\ Waiting(longer, rva) = NamesOf(longer, First(W \cup {k}))
        /\ Waiting(pending, rva) = NamesOf(pending, First(W))
    BY <1>5, <1>7, <1>10 DEF Waiting
  <2>3. NamesOf(longer, {k}) = {name}
    BY <1>1, <1>4 DEF NamesOf
  <2>4. First(W) = {} => NamesOf(pending, First(W)) = {}
    BY DEF NamesOf
  <2>5. First(W) # {} => NamesOf(pending, First(W)) # {}
    BY DEF NamesOf
  <2>6. Waiting(longer, rva) = OrElse(Waiting(pending, rva), {name})
    BY <1>9, <2>1, <2>2, <2>3, <2>4, <2>5 DEF OrElse
  <2> QED BY <1>1, <1>2, <1>10, <2>6 DEF Named, OrElse, OrDeferred
<1>11. CASE at # rva
  <2>1. Waiting(longer, rva) = Waiting(pending, rva)
    BY <1>5, <1>7, <1>9, <1>11 DEF Waiting
  <2> QED BY <1>1, <1>2, <1>11, <2>1 DEF Named, OrDeferred
<1> QED BY <1>10, <1>11

\* A deferred symbol comes to name what it was to name.
LEMMA NamedByDeferred ==
  ASSUME NEW map, NEW pending, pending \in Seq([rva : Nat, name : Names]), pending # <<>>,
         NEW rva
  PROVE  Named(InsertVacant(map, Head(pending).rva, Head(pending).name), Tail(pending), rva)
           = Named(map, pending, rva)
<1>1. PICK rest, d : rest = Tail(pending) /\ d = Head(pending)
  OBVIOUS
<1>2. /\ d = pending[1] /\ 1 \in DOMAIN pending
      /\ DOMAIN pending = 1 .. Len(pending) /\ Len(pending) \in Nat
      /\ \A n \in DOMAIN rest : n \in Nat /\ n + 1 \in DOMAIN pending /\ rest[n] = pending[n + 1]
      /\ \A n \in DOMAIN pending \ {1} : n - 1 \in DOMAIN rest /\ rest[n - 1] = pending[n]
  BY <1>1, TailFacts
<1>3. PICK W, V : /\ W = {n \in DOMAIN pending : pending[n].rva = rva}
                  /\ V = {n \in DOMAIN rest : rest[n].rva = rva}
  OBVIOUS
<1>4. W \in SUBSET Nat /\ V \in SUBSET Nat /\ \A n \in W : 1 <= n
  BY <1>2, <1>3
<1>5. /\ Waiting(pending, rva) = NamesOf(pending, First(W))
      /\ Waiting(rest, rva) = NamesOf(rest, First(V))
  BY <1>3 DEF Waiting
<1>6. PICK map2 : map2 = InsertVacant(map, d.rva, d.name)
  OBVIOUS
<1>7. CASE d.rva = rva
  <2>1. 1 \in First(W)
    BY <1>2, <1>3, <1>4, <1>7 DEF First
  <2>2. First(W) = {1}
    BY <1>4, <2>1, OneFirst
  <2>3. Waiting(pending, rva) = {d.name}
    BY <1>2, <1>5, <2>2 DEF NamesOf
  <2>4. Image(map2, rva) = OrElse(Image(map, rva), {d.name})
    BY <1>6, <1>7 DEF Image, InsertVacant, Insert, OrElse
  <2> QED BY <1>1, <1>6, <2>3, <2>4 DEF Named, OrElse
<1>8. CASE d.rva # rva
  <2>1. Image(map2, rva) = Image(map, rva)
    BY <1>6, <1>8 DEF Image, InsertVacant, Insert
  <2>2. \A n \in V : n + 1 \in W /\ rest[n] = pending[n + 1]
    BY <1>2, <1>3
  <2>3. \A n \in W : n - 1 \in V /\ rest[n - 1] = pending[n] /\ n \in Nat
    <3> TAKE n \in W
    <3>1. n # 1
      BY <1>2, <1>3, <1>8
    <3> QED BY <1>2, <1>3, <3>1
  <2>4. \A n \in First(V) : n + 1 \in First(W)
    <3> TAKE n \in First(V)
    <3>1. n \in V /\ n \in Nat /\ \A i \in V : n <= i
      BY <1>4 DEF First
    <3>2. \A i \in W : n + 1 <= i
      BY <2>3, <3>1
    <3> QED BY <2>2, <3>1, <3>2 DEF First
  <2>5. \A n \in First(W) : n - 1 \in First(V)
    <3> TAKE n \in First(W)
    <3>1. n \in W /\ n \in Nat /\ \A i \in W : n <= i
      BY <1>4 DEF First
    <3>2. \A i \in V : i \in Nat /\ n <= i + 1
      BY <1>4, <2>2, <3>1
    <3>3. \A i \in V : n - 1 <= i
      BY <3>1, <3>2
    <3> QED BY <2>3, <3>1, <3>3 DEF First
  <2>6. \A x \in NamesOf(rest, First(V)) : x \in NamesOf(pending, First(W))
    BY <2>2, <2>4 DEF NamesOf, First
  <2>7. \A x \in NamesOf(pending, First(W)) : x \in NamesOf(rest, First(V))
    BY <2>3, <2>5 DEF NamesOf, First
  <2>8. NamesOf(rest, First(V)) = NamesOf(pending, First(W))
    BY <2>6, <2>7
  <2>9. Waiting(rest, rva) = Waiting(pending, rva)
    BY <1>5, <2>8
  <2> QED BY <1>1, <1>6, <2>1, <2>9 DEF Named
<1> QED BY <1>7, <1>8

-----------------------------------------------------------------------------
(* Types.                                                                  *)

\* A table of values by RVA.
Table(map, S) == DOMAIN map \subseteq Nat /\ \A rva \in DOMAIN map : map[rva] \in S

\* The type invariant, table by table.
LEMMA TypeParts ==
  TypeOK <=> /\ phase \in {"global", "modules", "parsed"} \cup Failures
             /\ todo \in Seq(Symbol)
             /\ Table(functions, Seq(Names) \ {<<>>})
             /\ Table(strings, Names) /\ Table(constants, Names) /\ Table(statics, Names)
             /\ static_data_symbols \in Seq([rva : Nat, name : Names])
             /\ constant_data_symbols \in Seq([rva : Nat, name : Names])
BY DEF TypeOK, Table

\* A table stays one when a value is inserted.
LEMMA InsertTyped ==
  ASSUME NEW S, NEW map, Table(map, S), NEW at \in Nat, NEW value \in S
  PROVE  Table(Insert(map, at, value), S) /\ Table(InsertVacant(map, at, value), S)
BY DEF Table, Insert, InsertVacant

\* The type invariant is kept.
LEMMA TypedStep ==
  ASSUME Typed, [Next]_vars
  PROVE  Typed'
<1>1. /\ phase \in {"global", "modules", "parsed"} \cup Failures
      /\ todo \in Seq(Symbol)
      /\ Table(functions, Seq(Names) \ {<<>>})
      /\ Table(strings, Names) /\ Table(constants, Names) /\ Table(statics, Names)
      /\ static_data_symbols \in Seq([rva : Nat, name : Names])
      /\ constant_data_symbols \in Seq([rva : Nat, name : Names])
  BY TypeParts DEF Typed
<1>2. Walking /\ input.global \in Seq(Symbol) /\ input.modules \in Seq(Symbol)
  BY DEF Typed
<1>3. SUFFICES
        /\ input' = input
        /\ phase' \in {"global", "modules", "parsed"} \cup Failures
        /\ todo' \in Seq(Symbol)
        /\ Table(functions', Seq(Names) \ {<<>>})
        /\ Table(strings', Names) /\ Table(constants', Names) /\ Table(statics', Names)
        /\ static_data_symbols' \in Seq([rva : Nat, name : Names])
        /\ constant_data_symbols' \in Seq([rva : Nat, name : Names])
        /\ Walking'
  <2>1. TypeOK'
    BY <1>3 DEF TypeOK, Table
  <2> QED BY <1>2, <1>3, <2>1 DEF Typed
<1>4. \A s \in Symbol : /\ s.offset \in Nat /\ s.name \in Names
                        /\ Located(s) => At(s) \in Nat
                        /\ Rva["text"] + s.offset \in Nat
  BY SymbolFacts
<1>5. "text" \in DOMAIN Rva /\ "rdata" \in DOMAIN Rva /\ "data" \in DOMAIN Rva
  BY InputsAssumption
<1>6. ASSUME Take("global"), phase' = phase \/ phase' \in Failures
      PROVE  /\ input' = input /\ todo' \in Seq(Symbol) /\ Head(todo) \in Symbol
             /\ phase' \in {"global", "modules", "parsed"} \cup Failures
             /\ Walking'
  <2>1. PICK k : ReadsGlobal(k)
    BY <1>6, GlobalTaken
  <2>2. /\ input' = input /\ todo' \in Seq(Symbol) /\ Head(todo) \in Symbol /\ phase = "global"
        /\ phase' = phase => Left(input.global)'
    BY <2>1 DEF ReadsGlobal
  <2> QED BY <1>6, <2>2 DEF Walking, Failures
<1>7. ASSUME Take("modules"), phase' = phase \/ phase' \in Failures, UNCHANGED deferred
      PROVE  /\ input' = input /\ todo' \in Seq(Symbol) /\ Head(todo) \in Symbol
             /\ phase' \in {"global", "modules", "parsed"} \cup Failures
             /\ Walking'
  <2>1. PICK k : ReadsModule(k)
    BY <1>7, ModuleTaken
  <2>2. /\ input' = input /\ todo' \in Seq(Symbol) /\ Head(todo) \in Symbol /\ phase = "modules"
        /\ phase' = phase => Left(input.modules)'
    BY <2>1 DEF ReadsModule
  <2> QED BY <1>2, <1>7, <2>2 DEF Walking, Failures, deferred
<1>8. CASE AddFunction
  <2>1. PICK s : s = Head(todo)
    OBVIOUS
  <2>2. /\ Take("global") /\ phase' = phase /\ Public(s)
        /\ functions' = Insert(functions, At(s),
                               Append(IF At(s) \in DOMAIN functions THEN functions[At(s)] ELSE <<>>,
                                      s.name))
        /\ UNCHANGED <<strings, constants, statics, static_data_symbols, constant_data_symbols>>
    BY <1>8, <2>1 DEF AddFunction, deferred
  <2>3. s \in Symbol
    BY <1>6, <2>1, <2>2
  <2>4. At(s) \in Nat /\ s.name \in Names
    BY <1>4, <2>2, <2>3 DEF Public
  <2>5. PICK folded : folded = IF At(s) \in DOMAIN functions THEN functions[At(s)] ELSE <<>>
    OBVIOUS
  <2>6. folded \in Seq(Names)
    BY <1>1, <2>5 DEF Table
  <2>7. Append(folded, s.name) \in Seq(Names) \ {<<>>}
    BY <2>4, <2>6
  <2>8. Table(functions', Seq(Names) \ {<<>>})
    BY <1>1, <2>2, <2>4, <2>5, <2>7, InsertTyped
  <2> QED BY <1>1, <1>6, <2>2, <2>8
<1>9. CASE AddString \/ AddConstant \/ AddStatic
  <2>1. PICK s : s = Head(todo)
    OBVIOUS
  <2>2. /\ Take("global") /\ phase' = phase /\ Public(s)
        /\ \/ strings' = Insert(strings, At(s), s.name) /\ UNCHANGED <<constants, statics>>
           \/ constants' = Insert(constants, At(s), s.name) /\ UNCHANGED <<strings, statics>>
           \/ statics' = Insert(statics, At(s), s.name) /\ UNCHANGED <<strings, constants>>
        /\ UNCHANGED <<functions, static_data_symbols, constant_data_symbols>>
    BY <1>9, <2>1 DEF AddString, AddConstant, AddStatic, Literal, ConstantString, Constant, Static,
           deferred
  <2>3. s \in Symbol
    BY <1>6, <2>1, <2>2
  <2>4. At(s) \in Nat /\ s.name \in Names
    BY <1>4, <2>2, <2>3 DEF Public
  <2>5. Table(strings', Names) /\ Table(constants', Names) /\ Table(statics', Names)
    BY <1>1, <2>2, <2>4, InsertTyped
  <2> QED BY <1>1, <1>6, <2>2, <2>5
<1>10. CASE Defer
  <2>1. PICK s : s = Head(todo)
    OBVIOUS
  <2>2. PICK entry : entry = [rva |-> At(s), name |-> s.name]
    OBVIOUS
  <2>3. /\ Take("global") /\ phase' = phase /\ s.section \in {"rdata", "data"}
        /\ \/ /\ constant_data_symbols' = Append(constant_data_symbols, entry)
              /\ UNCHANGED static_data_symbols
           \/ /\ static_data_symbols' = Append(static_data_symbols, entry)
              /\ UNCHANGED constant_data_symbols
        /\ UNCHANGED <<functions, strings, constants, statics>>
    BY <1>10, <2>1, <2>2 DEF Defer, tables
  <2>4. s \in Symbol
    BY <1>6, <2>1, <2>3
  <2>5. entry \in [rva : Nat, name : Names]
    BY <1>4, <1>5, <2>2, <2>3, <2>4 DEF Located
  <2>6. PICK R : R = [rva : Nat, name : Names]
    OBVIOUS
  <2>7. /\ static_data_symbols \in Seq(R) /\ constant_data_symbols \in Seq(R) /\ entry \in R
    BY <1>1, <2>5, <2>6
  <2>8. \A seq \in Seq(R) : Append(seq, entry) \in Seq(R)
    BY <2>7
  <2>9. static_data_symbols' \in Seq(R) /\ constant_data_symbols' \in Seq(R)
    BY <2>3, <2>7, <2>8
  <2> QED BY <1>1, <1>6, <2>3, <2>6, <2>9
<1>11. CASE RefuseGlobal \/ SkipGlobal
  <2>1. /\ Take("global") /\ (phase' = phase \/ phase' \in Failures)
        /\ UNCHANGED <<functions, strings, constants, statics,
                       static_data_symbols, constant_data_symbols>>
    BY <1>11 DEF RefuseGlobal, SkipGlobal, tables, deferred, Failures
  <2> QED BY <1>1, <1>6, <2>1
<1>12. CASE AddDeferred
  <2>1. /\ UNCHANGED <<input, phase, todo, functions, strings>> /\ phase = "global"
        /\ \/ /\ static_data_symbols # <<>>
              /\ statics' = InsertVacant(statics, Head(static_data_symbols).rva,
                                         Head(static_data_symbols).name)
              /\ static_data_symbols' = Tail(static_data_symbols)
              /\ UNCHANGED <<constants, constant_data_symbols>>
           \/ /\ constant_data_symbols # <<>>
              /\ constants' = InsertVacant(constants, Head(constant_data_symbols).rva,
                                           Head(constant_data_symbols).name)
              /\ constant_data_symbols' = Tail(constant_data_symbols)
              /\ UNCHANGED <<statics, static_data_symbols>>
    BY <1>12 DEF AddDeferred
  <2>2. \A pending \in Seq([rva : Nat, name : Names]) :
          pending # <<>> => /\ Head(pending) \in [rva : Nat, name : Names]
                            /\ Tail(pending) \in Seq([rva : Nat, name : Names])
    BY TailFacts
  <2>3. /\ static_data_symbols' \in Seq([rva : Nat, name : Names])
        /\ constant_data_symbols' \in Seq([rva : Nat, name : Names])
    BY <1>1, <2>1, <2>2
  <2>4. \A entry \in [rva : Nat, name : Names] : entry.rva \in Nat /\ entry.name \in Names
    OBVIOUS
  <2>5. \A pending \in Seq([rva : Nat, name : Names]) : \A map :
          pending # <<>> /\ Table(map, Names) =>
            Table(InsertVacant(map, Head(pending).rva, Head(pending).name), Names)
    BY <2>2, <2>4, InsertTyped
  <2>6. Table(constants', Names) /\ Table(statics', Names)
    BY <1>1, <2>1, <2>5
  <2>7. Walking'
    BY <1>2, <2>1 DEF Walking, Left
  <2> QED BY <1>1, <2>1, <2>3, <2>6, <2>7
<1>13. CASE StartModules
  <2>1. /\ phase' = "modules" /\ todo' = input.modules /\ UNCHANGED <<input, tables, deferred>>
        /\ static_data_symbols = <<>> /\ constant_data_symbols = <<>>
    BY <1>13 DEF StartModules
  <2>2. Left(input.modules)'
    BY <1>2, <2>1 DEF Left
  <2>3. Walking'
    BY <2>1, <2>2 DEF Walking, deferred
  <2> QED BY <1>1, <1>2, <2>1, <2>3 DEF tables, deferred
<1>14. CASE AddFunctionSymbol
  <2>1. PICK s : s = Head(todo)
    OBVIOUS
  <2>2. /\ Take("modules") /\ phase' = phase /\ UNCHANGED deferred
        /\ functions' = InsertVacant(functions, Rva["text"] + s.offset, <<s.name>>)
        /\ UNCHANGED <<strings, constants, statics, static_data_symbols, constant_data_symbols>>
    BY <1>14, <2>1 DEF AddFunctionSymbol, deferred
  <2>3. s \in Symbol
    BY <1>7, <2>1, <2>2
  <2>4. Rva["text"] + s.offset \in Nat /\ <<s.name>> \in Seq(Names) \ {<<>>}
    BY <1>4, <2>3
  <2>5. Table(functions', Seq(Names) \ {<<>>})
    BY <1>1, <2>2, <2>4, InsertTyped
  <2> QED BY <1>1, <1>7, <2>2, <2>5
<1>15. CASE AddDataSymbol
  <2>1. PICK s : s = Head(todo)
    OBVIOUS
  <2>2. /\ Take("modules") /\ phase' = phase /\ UNCHANGED deferred
        /\ s.section \in {"rdata", "data"}
        /\ \/ constants' = Insert(constants, At(s), s.name) /\ UNCHANGED statics
           \/ statics' = Insert(statics, At(s), s.name) /\ UNCHANGED constants
        /\ UNCHANGED <<functions, strings, static_data_symbols, constant_data_symbols>>
    BY <1>15, <2>1 DEF AddDataSymbol, deferred
  <2>3. s \in Symbol
    BY <1>7, <2>1, <2>2
  <2>4. At(s) \in Nat /\ s.name \in Names
    BY <1>4, <1>5, <2>2, <2>3 DEF Located
  <2>5. Table(constants', Names) /\ Table(statics', Names)
    BY <1>1, <2>2, <2>4, InsertTyped
  <2> QED BY <1>1, <1>7, <2>2, <2>5
<1>16. CASE RefusePublic \/ SkipModule
  <2>1. /\ Take("modules") /\ (phase' = phase \/ phase' \in Failures) /\ UNCHANGED deferred
        /\ UNCHANGED <<functions, strings, constants, statics,
                       static_data_symbols, constant_data_symbols>>
    BY <1>16 DEF RefusePublic, SkipModule, tables, deferred, Failures
  <2> QED BY <1>1, <1>7, <2>1
<1>17. CASE Finish
  <2>1. /\ phase = "modules" /\ phase' = "parsed" /\ UNCHANGED <<input, todo, tables, deferred>>
    BY <1>17 DEF Finish
  <2>2. Walking'
    BY <1>2, <2>1 DEF Walking, deferred
  <2> QED BY <1>1, <2>1, <2>2 DEF tables, deferred
<1>18. CASE Stop \/ UNCHANGED vars
  <2>1. UNCHANGED <<input, phase, todo, tables, deferred>>
    BY <1>18 DEF Stop, vars
  <2>2. Walking'
    BY <1>2, <2>1 DEF Walking, Left, deferred
  <2> QED BY <1>1, <2>1, <2>2 DEF tables, deferred
<1> QED BY <1>8, <1>9, <1>10, <1>11, <1>12, <1>13, <1>14, <1>15, <1>16, <1>17, <1>18 DEF Next

-----------------------------------------------------------------------------
(* The tables hold addresses that a symbol names.                          *)

\* Only named addresses are in the tables, after a step too.
LEMMA OnlyNamedStep ==
  ASSUME Typed, OnlyNamed, [Next]_vars
  PROVE  OnlyNamed'
<1>1. /\ DOMAIN functions \subseteq Addresses /\ DOMAIN constants \subseteq Addresses
      /\ DOMAIN statics \subseteq Addresses
      /\ \A n \in DOMAIN static_data_symbols : static_data_symbols[n].rva \in Addresses
      /\ \A n \in DOMAIN constant_data_symbols : constant_data_symbols[n].rva \in Addresses
  BY DEF OnlyNamed
<1>2. /\ static_data_symbols \in Seq([rva : Nat, name : Names])
      /\ constant_data_symbols \in Seq([rva : Nat, name : Names])
  BY DEF Typed, TypeOK
<1>3. input' = input /\ Addresses' = Addresses
  <2>1. input' = input
    BY DEF Next, AddFunction, AddString, AddConstant, AddStatic, RefuseGlobal, Defer, SkipGlobal,
           AddDeferred, StartModules, AddFunctionSymbol, AddDataSymbol, RefusePublic, SkipModule,
           Finish, Stop, Take, vars
  <2> QED BY <2>1 DEF Addresses
<1>4. SUFFICES
        /\ DOMAIN functions' \subseteq Addresses /\ DOMAIN constants' \subseteq Addresses
        /\ DOMAIN statics' \subseteq Addresses
        /\ \A n \in DOMAIN static_data_symbols' : static_data_symbols'[n].rva \in Addresses
        /\ \A n \in DOMAIN constant_data_symbols' : constant_data_symbols'[n].rva \in Addresses
  BY <1>3 DEF OnlyNamed
<1>5. "text" \in DOMAIN Rva /\ "rdata" \in DOMAIN Rva /\ "data" \in DOMAIN Rva
  BY InputsAssumption
<1>6. ASSUME Take("global")
      PROVE  Located(Head(todo)) => At(Head(todo)) \in Addresses
  <2>1. PICK k : ReadsGlobal(k)
    BY <1>6, GlobalTaken
  <2> QED BY <2>1, SymbolFacts DEF ReadsGlobal
<1>7. ASSUME Take("modules")
      PROVE  /\ Located(Head(todo)) => At(Head(todo)) \in Addresses
             /\ Rva["text"] + Head(todo).offset \in Addresses
  <2>1. PICK k : ReadsModule(k)
    BY <1>7, ModuleTaken
  <2> QED BY <2>1, SymbolFacts DEF ReadsModule
<1>8. \A map, at, value :
         DOMAIN map \subseteq Addresses /\ at \in Addresses =>
           /\ DOMAIN Insert(map, at, value) \subseteq Addresses
           /\ DOMAIN InsertVacant(map, at, value) \subseteq Addresses
  BY DEF Insert, InsertVacant
<1>9. PICK R : R = [rva : Nat, name : Names]
  OBVIOUS
<1>10. static_data_symbols \in Seq(R) /\ constant_data_symbols \in Seq(R)
  BY <1>2, <1>9
<1>11. CASE AddFunction
  <2>1. /\ Take("global") /\ Public(Head(todo))
        /\ \E names : functions' = Insert(functions, At(Head(todo)), names)
        /\ UNCHANGED <<constants, statics, static_data_symbols, constant_data_symbols>>
    BY <1>11 DEF AddFunction, deferred
  <2>2. DOMAIN functions' \subseteq Addresses
    BY <1>1, <1>6, <2>1, <1>8 DEF Public
  <2> QED BY <1>1, <2>1, <2>2
<1>12. CASE AddString \/ AddConstant \/ AddStatic
  <2>1. /\ Take("global") /\ Public(Head(todo))
        /\ \/ UNCHANGED <<constants, statics>>
           \/ (\E name : constants' = Insert(constants, At(Head(todo)), name)) /\ UNCHANGED statics
           \/ (\E name : statics' = Insert(statics, At(Head(todo)), name)) /\ UNCHANGED constants
        /\ UNCHANGED <<functions, static_data_symbols, constant_data_symbols>>
    BY <1>12 DEF AddString, AddConstant, AddStatic, Literal, ConstantString, Constant, Static,
           deferred
  <2>2. DOMAIN constants' \subseteq Addresses /\ DOMAIN statics' \subseteq Addresses
    BY <1>1, <1>6, <2>1, <1>8 DEF Public
  <2> QED BY <1>1, <2>1, <2>2
<1>13. CASE Defer
  <2>1. PICK entry : entry = [rva |-> At(Head(todo)), name |-> Head(todo).name]
    OBVIOUS
  <2>2. /\ Take("global") /\ Head(todo).section \in {"rdata", "data"}
        /\ \/ /\ constant_data_symbols' = Append(constant_data_symbols, entry)
              /\ UNCHANGED static_data_symbols
           \/ /\ static_data_symbols' = Append(static_data_symbols, entry)
              /\ UNCHANGED constant_data_symbols
        /\ UNCHANGED <<functions, constants, statics>>
    BY <1>13, <2>1 DEF Defer, tables
  <2>3. entry.rva \in Addresses
    BY <1>5, <1>6, <2>1, <2>2 DEF Located
  <2>4. \A pending \in Seq(R) :
          (\A n \in DOMAIN pending : pending[n].rva \in Addresses) =>
            \A n \in DOMAIN Append(pending, entry) : Append(pending, entry)[n].rva \in Addresses
    <3> TAKE pending \in Seq(R)
    <3>1. \A n \in DOMAIN Append(pending, entry) :
            \/ Append(pending, entry)[n] = entry
            \/ n \in DOMAIN pending /\ Append(pending, entry)[n] = pending[n]
      OBVIOUS
    <3> QED BY <2>3, <3>1
  <2>5. /\ \A n \in DOMAIN static_data_symbols' : static_data_symbols'[n].rva \in Addresses
        /\ \A n \in DOMAIN constant_data_symbols' : constant_data_symbols'[n].rva \in Addresses
    BY <1>1, <1>10, <2>2, <2>4
  <2> QED BY <1>1, <2>2, <2>5
<1>14. CASE RefuseGlobal \/ SkipGlobal \/ StartModules \/ RefusePublic \/ SkipModule \/ Finish
  BY <1>1, <1>14 DEF RefuseGlobal, SkipGlobal, StartModules, RefusePublic, SkipModule, Finish,
                     tables, deferred
<1>15. CASE AddDeferred
  <2>1. \A pending \in Seq(R) :
          pending # <<>> /\ (\A n \in DOMAIN pending : pending[n].rva \in Addresses) =>
            /\ Head(pending).rva \in Addresses
            /\ \A n \in DOMAIN Tail(pending) : Tail(pending)[n].rva \in Addresses
    BY TailFacts
  <2>2. /\ UNCHANGED functions
        /\ \/ /\ static_data_symbols # <<>>
              /\ \E name : statics' = InsertVacant(statics, Head(static_data_symbols).rva, name)
              /\ static_data_symbols' = Tail(static_data_symbols)
              /\ UNCHANGED <<constants, constant_data_symbols>>
           \/ /\ constant_data_symbols # <<>>
              /\ \E name : constants' = InsertVacant(constants, Head(constant_data_symbols).rva, name)
              /\ constant_data_symbols' = Tail(constant_data_symbols)
              /\ UNCHANGED <<statics, static_data_symbols>>
    BY <1>15 DEF AddDeferred
  <2>3. /\ \A n \in DOMAIN static_data_symbols' : static_data_symbols'[n].rva \in Addresses
        /\ \A n \in DOMAIN constant_data_symbols' : constant_data_symbols'[n].rva \in Addresses
    BY <1>1, <1>10, <2>1, <2>2
  <2>4. DOMAIN constants' \subseteq Addresses /\ DOMAIN statics' \subseteq Addresses
    BY <1>1, <1>10, <2>1, <2>2, <1>8
  <2> QED BY <1>1, <2>2, <2>3, <2>4
<1>16. CASE AddFunctionSymbol
  <2>1. /\ Take("modules")
        /\ \E names : functions' = InsertVacant(functions, Rva["text"] + Head(todo).offset, names)
        /\ UNCHANGED <<constants, statics, static_data_symbols, constant_data_symbols>>
    BY <1>16 DEF AddFunctionSymbol, deferred
  <2>2. DOMAIN functions' \subseteq Addresses
    BY <1>1, <1>7, <2>1, <1>8
  <2> QED BY <1>1, <2>1, <2>2
<1>17. CASE AddDataSymbol
  <2>1. /\ Take("modules") /\ Head(todo).section \in {"rdata", "data"}
        /\ \/ (\E name : constants' = Insert(constants, At(Head(todo)), name)) /\ UNCHANGED statics
           \/ (\E name : statics' = Insert(statics, At(Head(todo)), name)) /\ UNCHANGED constants
        /\ UNCHANGED <<functions, static_data_symbols, constant_data_symbols>>
    BY <1>17 DEF AddDataSymbol, deferred
  <2>2. DOMAIN constants' \subseteq Addresses /\ DOMAIN statics' \subseteq Addresses
    BY <1>1, <1>5, <1>7, <2>1, <1>8 DEF Located
  <2> QED BY <1>1, <2>1, <2>2
<1>18. CASE Stop \/ UNCHANGED vars
  BY <1>1, <1>18 DEF Stop, vars, tables, deferred
<1> QED BY <1>11, <1>12, <1>13, <1>14, <1>15, <1>16, <1>17, <1>18 DEF Next

-----------------------------------------------------------------------------
(* The names of data.                                                      *)

\* A symbol of none of the four kinds leaves all names.
LEMMA DataUnnamed ==
  ASSUME NEW k, ReadsGlobal(k), phase' = phase, NEW rva, ConstantNamed(rva), StaticNamed(rva),
         UNCHANGED <<constants, statics, deferred>>,
         input.global[k] \notin Constants \cup Statics \cup DataOf("rdata") \cup DataOf("data")
  PROVE  ConstantNamed(rva)' /\ StaticNamed(rva)'
<1>1. /\ input.global[k] \notin Constants /\ input.global[k] \notin DataOf("rdata")
      /\ input.global[k] \notin Statics /\ input.global[k] \notin DataOf("data")
  OBVIOUS
<1>2. Best("rdata", Constants, rva)' = Best("rdata", Constants, rva)
  BY <1>1, BestOther
<1>3. Best("data", Statics, rva)' = Best("data", Statics, rva)
  BY <1>1, BestOther
<1>4. UNCHANGED <<constants, statics, constant_data_symbols, static_data_symbols>>
  BY DEF deferred
<1> QED BY <1>2, <1>3, <1>4 DEF ConstantNamed, StaticNamed

\* A symbol of a module that is not data leaves all names.
LEMMA DataUnnamedInModule ==
  ASSUME NEW k, ReadsModule(k), phase' = phase, NEW rva, ConstantNamed(rva), StaticNamed(rva),
         UNCHANGED <<constants, statics, deferred>>,
         input.modules[k] \notin DataOf("rdata") \cup DataOf("data")
  PROVE  ConstantNamed(rva)' /\ StaticNamed(rva)'
<1>1. input.modules[k] \notin DataOf("rdata") /\ input.modules[k] \notin DataOf("data")
  OBVIOUS
<1>2. Best("rdata", Constants, rva)' = Best("rdata", Constants, rva)
  BY <1>1, BestModule
<1>3. Best("data", Statics, rva)' = Best("data", Statics, rva)
  BY <1>1, BestModule
<1>4. UNCHANGED <<constants, statics, constant_data_symbols, static_data_symbols>>
  BY DEF deferred
<1> QED BY <1>2, <1>3, <1>4 DEF ConstantNamed, StaticNamed

\* The names of data are the preferred ones of what has been read, after a step too.
LEMMA DataNamedStep ==
  ASSUME Typed, DataNamed, [Next]_vars
  PROVE  DataNamed'
<1>1. input' = input /\ Addresses' = Addresses
  <2>1. input' = input
    BY DEF Next, AddFunction, AddString, AddConstant, AddStatic, RefuseGlobal, Defer, SkipGlobal,
           AddDeferred, StartModules, AddFunctionSymbol, AddDataSymbol, RefusePublic, SkipModule,
           Finish, Stop, Take, vars
  <2> QED BY <2>1 DEF Addresses
<1>2. SUFFICES ASSUME phase' \notin Failures, NEW rva \in Addresses
               PROVE  ConstantNamed(rva)' /\ StaticNamed(rva)'
  BY <1>1 DEF DataNamed, Failures
<1>3. phase \notin Failures
  BY <1>2 DEF Next, AddFunction, AddString, AddConstant, AddStatic, RefuseGlobal, Defer,
     SkipGlobal, AddDeferred, StartModules, AddFunctionSymbol, AddDataSymbol, RefusePublic,
     SkipModule, Finish, Stop, Take, vars, Failures
<1>4. ConstantNamed(rva) /\ StaticNamed(rva)
  BY <1>2, <1>3 DEF DataNamed
<1>5. /\ constant_data_symbols \in Seq([rva : Nat, name : Names])
      /\ static_data_symbols \in Seq([rva : Nat, name : Names])
  BY DEF Typed, TypeOK
<1>6. CASE AddFunction \/ AddString \/ SkipGlobal
  <2>1. Take("global") /\ phase' = phase /\ UNCHANGED <<constants, statics, deferred>>
    BY <1>6 DEF AddFunction, AddString, SkipGlobal, tables
  <2>2. PICK k : ReadsGlobal(k)
    BY <2>1, GlobalTaken
  <2>3. Head(todo) \notin Constants \cup Statics \cup DataOf("rdata") \cup DataOf("data")
    BY <1>6 DEF AddFunction, AddString, SkipGlobal, Ignored, Constants, Statics, DataOf,
                Constant, Static, Literal, ConstantString, Public
  <2>4. input.global[k] = Head(todo)
    BY <2>2 DEF ReadsGlobal
  <2> QED BY <1>4, <2>1, <2>2, <2>3, <2>4, DataUnnamed
<1>7. CASE AddConstant
  <2>1. /\ Take("global") /\ phase' = phase
        /\ Constant(Head(todo)) /\ constants' = Insert(constants, At(Head(todo)), Head(todo).name)
        /\ UNCHANGED <<statics, constant_data_symbols, static_data_symbols>>
    BY <1>7 DEF AddConstant, deferred
  <2>2. PICK k : ReadsGlobal(k)
    BY <2>1, GlobalTaken
  <2>3. input.global[k] = Head(todo) /\ input.global[k] \in Symbol
    BY <2>2 DEF ReadsGlobal
  <2>4. input.global[k] \in Constants
    BY <2>1, <2>3 DEF Constants
  <2>5. /\ input.global[k] \notin DataOf("rdata") /\ input.global[k] \notin DataOf("data")
        /\ input.global[k] \notin Statics
    BY <2>4, KindsApart
  <2>6. StaticNamed(rva)'
    <3>1. Best("data", Statics, rva)' = Best("data", Statics, rva)
      BY <2>1, <2>2, <2>5, BestOther
    <3> QED BY <1>4, <2>1, <3>1 DEF StaticNamed
  <2>7. ConstantNamed(rva)'
    <3>1. Named(constants', constant_data_symbols, rva) =
            IF At(Head(todo)) = rva THEN {Head(todo).name}
            ELSE Named(constants, constant_data_symbols, rva)
      BY <2>1, NamedByInsert
    <3>2. CASE At(Head(todo)) = rva
      <4>1. Best("rdata", Constants, rva)' = {input.global[k].name}
        BY <2>1, <2>2, <2>3, <2>4, <2>5, <3>2, BestPublic
      <4> QED BY <2>1, <2>3, <3>1, <3>2, <4>1 DEF ConstantNamed
    <3>3. CASE At(Head(todo)) # rva
      <4>1. Best("rdata", Constants, rva)' = Best("rdata", Constants, rva)
        BY <2>1, <2>2, <2>3, <3>3, BestOther
      <4> QED BY <1>4, <2>1, <3>1, <3>3, <4>1 DEF ConstantNamed
    <3> QED BY <3>2, <3>3
  <2> QED BY <2>6, <2>7
<1>8. CASE AddStatic
  <2>1. /\ Take("global") /\ phase' = phase
        /\ Static(Head(todo)) /\ statics' = Insert(statics, At(Head(todo)), Head(todo).name)
        /\ UNCHANGED <<constants, constant_data_symbols, static_data_symbols>>
    BY <1>8 DEF AddStatic, deferred
  <2>2. PICK k : ReadsGlobal(k)
    BY <2>1, GlobalTaken
  <2>3. input.global[k] = Head(todo) /\ input.global[k] \in Symbol
    BY <2>2 DEF ReadsGlobal
  <2>4. input.global[k] \in Statics
    BY <2>1, <2>3 DEF Statics
  <2>5. /\ input.global[k] \notin DataOf("rdata") /\ input.global[k] \notin DataOf("data")
        /\ input.global[k] \notin Constants
    BY <2>4, KindsApart
  <2>6. ConstantNamed(rva)'
    <3>1. Best("rdata", Constants, rva)' = Best("rdata", Constants, rva)
      BY <2>1, <2>2, <2>5, BestOther
    <3> QED BY <1>4, <2>1, <3>1 DEF ConstantNamed
  <2>7. StaticNamed(rva)'
    <3>1. Named(statics', static_data_symbols, rva) =
            IF At(Head(todo)) = rva THEN {Head(todo).name}
            ELSE Named(statics, static_data_symbols, rva)
      BY <2>1, NamedByInsert
    <3>2. CASE At(Head(todo)) = rva
      <4>1. Best("data", Statics, rva)' = {input.global[k].name}
        BY <2>1, <2>2, <2>3, <2>4, <2>5, <3>2, BestPublic
      <4> QED BY <2>1, <2>3, <3>1, <3>2, <4>1 DEF StaticNamed
    <3>3. CASE At(Head(todo)) # rva
      <4>1. Best("data", Statics, rva)' = Best("data", Statics, rva)
        BY <2>1, <2>2, <2>3, <3>3, BestOther
      <4> QED BY <1>4, <2>1, <3>1, <3>3, <4>1 DEF StaticNamed
    <3> QED BY <3>2, <3>3
  <2> QED BY <2>6, <2>7
<1>9. CASE Defer
  <2>1. PICK entry : entry = [rva |-> At(Head(todo)), name |-> Head(todo).name]
    OBVIOUS
  <2>2. /\ Take("global") /\ phase' = phase /\ Head(todo).type = "data"
        /\ \/ /\ Head(todo).section = "rdata"
              /\ constant_data_symbols' = Append(constant_data_symbols, entry)
              /\ UNCHANGED static_data_symbols
           \/ /\ Head(todo).section = "data"
              /\ static_data_symbols' = Append(static_data_symbols, entry)
              /\ UNCHANGED constant_data_symbols
        /\ UNCHANGED <<constants, statics>>
    BY <1>9, <2>1 DEF Defer, tables
  <2>3. PICK k : ReadsGlobal(k)
    BY <2>2, GlobalTaken
  <2>4. input.global[k] = Head(todo) /\ input.global[k] \in Symbol
    BY <2>3 DEF ReadsGlobal
  <2>5. "rdata" \in DOMAIN Rva /\ "data" \in DOMAIN Rva
    BY InputsAssumption
  <2>6. At(Head(todo)) \in Nat /\ Head(todo).name \in Names
    BY <2>2, <2>4, <2>5, SymbolFacts DEF Located
  <2>7. CASE Head(todo).section = "rdata"
    <3>1. input.global[k] \in DataOf("rdata")
      BY <2>2, <2>4, <2>7 DEF DataOf
    <3>2. /\ input.global[k] \notin DataOf("data") /\ input.global[k] \notin Constants
          /\ input.global[k] \notin Statics
      BY <3>1, KindsApart
    <3>3. /\ constant_data_symbols' = Append(constant_data_symbols, entry)
          /\ UNCHANGED <<static_data_symbols, statics, constants>>
      BY <2>2, <2>7
    <3>4. Best("data", Statics, rva)' = Best("data", Statics, rva)
      BY <2>2, <2>3, <3>2, BestOther
    <3>5. StaticNamed(rva)'
      BY <1>4, <3>3, <3>4 DEF StaticNamed
    <3>6. Named(constants, constant_data_symbols', rva) =
            IF At(Head(todo)) = rva
            THEN OrElse(Named(constants, constant_data_symbols, rva), {Head(todo).name})
            ELSE Named(constants, constant_data_symbols, rva)
      <4>1. entry.rva = At(Head(todo)) /\ entry.name = Head(todo).name
        BY <2>1
      <4>2. Defers(constant_data_symbols, entry, constant_data_symbols')
        BY <3>3 DEF Defers
      <4>3. Named(constants, constant_data_symbols', rva) =
              OrDeferred(Named(constants, constant_data_symbols, rva), entry, rva)
        BY <1>5, <4>2, NamedByDeferring
      <4> QED BY <4>1, <4>3 DEF OrDeferred
    <3>7. CASE At(Head(todo)) = rva
      <4>1. Best("rdata", Constants, rva)' =
              OrElse(Best("rdata", Constants, rva), {input.global[k].name})
        BY <2>2, <2>3, <2>4, <3>1, <3>2, <3>7, BestData
      <4> QED BY <1>4, <2>4, <3>3, <3>5, <3>6, <3>7, <4>1 DEF ConstantNamed
    <3>8. CASE At(Head(todo)) # rva
      <4>1. Best("rdata", Constants, rva)' = Best("rdata", Constants, rva)
        BY <2>2, <2>3, <2>4, <3>8, BestOther
      <4> QED BY <1>4, <3>3, <3>5, <3>6, <3>8, <4>1 DEF ConstantNamed
    <3> QED BY <3>7, <3>8
  <2>8. CASE Head(todo).section = "data"
    <3>1. input.global[k] \in DataOf("data")
      BY <2>2, <2>4, <2>8 DEF DataOf
    <3>2. /\ input.global[k] \notin DataOf("rdata") /\ input.global[k] \notin Constants
          /\ input.global[k] \notin Statics
      BY <3>1, KindsApart
    <3>3. /\ static_data_symbols' = Append(static_data_symbols, entry)
          /\ UNCHANGED <<constant_data_symbols, statics, constants>>
      BY <2>2, <2>8
    <3>4. Best("rdata", Constants, rva)' = Best("rdata", Constants, rva)
      BY <2>2, <2>3, <3>2, BestOther
    <3>5. ConstantNamed(rva)'
      BY <1>4, <3>3, <3>4 DEF ConstantNamed
    <3>6. Named(statics, static_data_symbols', rva) =
            IF At(Head(todo)) = rva
            THEN OrElse(Named(statics, static_data_symbols, rva), {Head(todo).name})
            ELSE Named(statics, static_data_symbols, rva)
      <4>1. entry.rva = At(Head(todo)) /\ entry.name = Head(todo).name
        BY <2>1
      <4>2. Defers(static_data_symbols, entry, static_data_symbols')
        BY <3>3 DEF Defers
      <4>3. Named(statics, static_data_symbols', rva) =
              OrDeferred(Named(statics, static_data_symbols, rva), entry, rva)
        BY <1>5, <4>2, NamedByDeferring
      <4> QED BY <4>1, <4>3 DEF OrDeferred
    <3>7. CASE At(Head(todo)) = rva
      <4>1. Best("data", Statics, rva)' =
              OrElse(Best("data", Statics, rva), {input.global[k].name})
        BY <2>2, <2>3, <2>4, <3>1, <3>2, <3>7, BestData
      <4> QED BY <1>4, <2>4, <3>3, <3>5, <3>6, <3>7, <4>1 DEF StaticNamed
    <3>8. CASE At(Head(todo)) # rva
      <4>1. Best("data", Statics, rva)' = Best("data", Statics, rva)
        BY <2>2, <2>3, <2>4, <3>8, BestOther
      <4> QED BY <1>4, <3>3, <3>5, <3>6, <3>8, <4>1 DEF StaticNamed
    <3> QED BY <3>7, <3>8
  <2> QED BY <2>2, <2>7, <2>8
<1>10. CASE AddDeferred \/ StartModules \/ Finish \/ UNCHANGED vars
  <2>1. Settles
    BY <1>10, SettledSteps
  <2>2. /\ Best("rdata", Constants, rva)' = Best("rdata", Constants, rva)
        /\ Best("data", Statics, rva)' = Best("data", Statics, rva)
    BY <2>1 DEF Settles, Best
  <2>3. /\ Named(constants', constant_data_symbols', rva) =
             Named(constants, constant_data_symbols, rva)
        /\ Named(statics', static_data_symbols', rva) = Named(statics, static_data_symbols, rva)
    <3>1. CASE AddDeferred
      <4>1. \/ /\ static_data_symbols # <<>>
               /\ statics' = InsertVacant(statics, Head(static_data_symbols).rva,
                                          Head(static_data_symbols).name)
               /\ static_data_symbols' = Tail(static_data_symbols)
               /\ constants' = constants /\ constant_data_symbols' = constant_data_symbols
            \/ /\ constant_data_symbols # <<>>
               /\ constants' = InsertVacant(constants, Head(constant_data_symbols).rva,
                                            Head(constant_data_symbols).name)
               /\ constant_data_symbols' = Tail(constant_data_symbols)
               /\ statics' = statics /\ static_data_symbols' = static_data_symbols
        BY <3>1 DEF AddDeferred
      <4> QED BY <1>5, <4>1, NamedByDeferred, ZenonT(40)
    <3>2. CASE StartModules \/ Finish \/ UNCHANGED vars
      BY <3>2 DEF StartModules, Finish, vars, tables, deferred
    <3> QED BY <1>10, <3>1, <3>2
  <2> QED BY <1>4, <2>2, <2>3 DEF ConstantNamed, StaticNamed
<1>11. CASE AddFunctionSymbol \/ SkipModule
  <2>1. Take("modules") /\ phase' = phase /\ UNCHANGED <<constants, statics, deferred>>
    BY <1>11 DEF AddFunctionSymbol, SkipModule, tables
  <2>2. PICK k : ReadsModule(k)
    BY <2>1, ModuleTaken
  <2>3. Head(todo) \notin DataOf("rdata") \cup DataOf("data")
    BY <1>11 DEF AddFunctionSymbol, SkipModule, DataOf, Procedure
  <2>4. input.modules[k] = Head(todo)
    BY <2>2 DEF ReadsModule
  <2> QED BY <1>4, <2>1, <2>2, <2>3, <2>4, DataUnnamedInModule
<1>12. CASE AddDataSymbol
  <2>1. PICK s : s = Head(todo)
    OBVIOUS
  <2>2. /\ Take("modules") /\ phase' = phase /\ s.type = "data"
        /\ \/ /\ s.section = "rdata"
              /\ constants' = Insert(constants, At(s), s.name) /\ statics' = statics
           \/ /\ s.section = "data"
              /\ statics' = Insert(statics, At(s), s.name) /\ constants' = constants
        /\ UNCHANGED <<constant_data_symbols, static_data_symbols>>
    BY <1>12, <2>1 DEF AddDataSymbol, deferred
  <2>3. PICK k : ReadsModule(k)
    BY <2>2, ModuleTaken
  <2>4. input.modules[k] = s /\ s \in Symbol
    BY <2>1, <2>3 DEF ReadsModule
  <2>5. /\ s \in DataOf("rdata") <=> s.section = "rdata"
        /\ s \in DataOf("data") <=> s.section = "data"
    BY <2>2, <2>4 DEF DataOf
  <2>6. /\ Best("rdata", Constants, rva)' =
             IF s \in DataOf("rdata") /\ At(s) = rva THEN {s.name}
             ELSE Best("rdata", Constants, rva)
        /\ Best("data", Statics, rva)' =
             IF s \in DataOf("data") /\ At(s) = rva THEN {s.name} ELSE Best("data", Statics, rva)
    BY <2>2, <2>3, <2>4, BestModule
  <2>7. /\ Named(Insert(constants, At(s), s.name), constant_data_symbols, rva) =
             IF At(s) = rva THEN {s.name} ELSE Named(constants, constant_data_symbols, rva)
        /\ Named(Insert(statics, At(s), s.name), static_data_symbols, rva) =
             IF At(s) = rva THEN {s.name} ELSE Named(statics, static_data_symbols, rva)
    <3>1. PICK at, name : at = At(s) /\ name = s.name
      OBVIOUS
    <3>2. Named(Insert(constants, at, name), constant_data_symbols, rva) =
            IF at = rva THEN {name} ELSE Named(constants, constant_data_symbols, rva)
      BY NamedByInsert
    <3>3. Named(Insert(statics, at, name), static_data_symbols, rva) =
            IF at = rva THEN {name} ELSE Named(statics, static_data_symbols, rva)
      BY NamedByInsert
    <3> QED BY <3>1, <3>2, <3>3
  <2>8. CASE s.section = "rdata"
    <3>1. s \in DataOf("rdata") /\ s \notin DataOf("data")
      BY <2>5, <2>8
    <3> QED BY <1>4, <2>2, <2>6, <2>7, <2>8, <3>1 DEF ConstantNamed, StaticNamed
  <2>9. CASE s.section = "data"
    <3>1. s \in DataOf("data") /\ s \notin DataOf("rdata")
      BY <2>5, <2>9
    <3> QED BY <1>4, <2>2, <2>6, <2>7, <2>9, <3>1 DEF ConstantNamed, StaticNamed
  <2> QED BY <2>2, <2>8, <2>9
<1>13. CASE RefuseGlobal \/ RefusePublic
  BY <1>2, <1>13 DEF RefuseGlobal, RefusePublic, Failures
<1>14. CASE Stop
  <2>1. UNCHANGED vars
    BY <1>14 DEF Stop
  <2> QED BY <1>10, <2>1
<1> QED BY <1>6, <1>7, <1>8, <1>9, <1>10, <1>11, <1>12, <1>13, <1>14 DEF Next

-----------------------------------------------------------------------------
(* The names of functions.                                                 *)

\* A name put at the end of a list is that of the latest position.
LEMMA ListsLater ==
  ASSUME NEW stream \in Seq(Symbol), NEW P \in SUBSET DOMAIN stream, NEW k \in DOMAIN stream,
         \A n \in P : n < k, NEW names \in Seq(Names), Lists(names, stream, P),
         NEW longer, longer = Append(names, stream[k].name)
  PROVE  Lists(longer, stream, P \cup {k})
<1>1. /\ P \subseteq 1 .. Len(stream) /\ Len(stream) \in Nat /\ DOMAIN stream = 1 .. Len(stream)
      /\ k \in Nat /\ \A n \in P : n \in Nat /\ n < k
  OBVIOUS
<1>2. IsFiniteSet(P)
  <2>1. IsFiniteSet(1 .. Len(stream))
    BY <1>1, FS_Interval
  <2> QED BY <1>1, <2>1, FS_Subset
<1>3. k \notin P
  BY <1>1
<1>4. Cardinality(P) \in Nat /\ Cardinality(P \cup {k}) = Cardinality(P) + 1
  BY <1>2, <1>3, FS_CardinalityType, FS_AddElement
<1>5. Len(names) = Cardinality(P) /\ Len(names) \in Nat
  BY DEF Lists
<1>6. /\ Len(longer) = Len(names) + 1 /\ longer[Len(names) + 1] = stream[k].name
      /\ \A i \in 1 .. Len(names) : longer[i] = names[i]
  OBVIOUS
<1>7. Len(longer) = Cardinality(P \cup {k})
  BY <1>4, <1>5, <1>6
<1>8. ASSUME NEW n \in P
      PROVE  longer[Cardinality({m \in P \cup {k} : m <= n})] = stream[n].name
  <2>1. PICK B : B = {m \in P : m <= n}
    OBVIOUS
  <2>2. {m \in P \cup {k} : m <= n} = B
    BY <1>1, <2>1
  <2>3. B \subseteq P /\ n \in B
    BY <1>1, <2>1
  <2>4. IsFiniteSet(B) /\ Cardinality(B) <= Cardinality(P) /\ Cardinality(B) \in Nat
    BY <1>2, <2>3, FS_Subset, FS_CardinalityType
  <2>5. Cardinality(B) # 0
    BY <2>3, <2>4, FS_EmptySet
  <2>6. Cardinality(B) \in 1 .. Len(names)
    BY <1>4, <1>5, <2>4, <2>5
  <2>7. names[Cardinality(B)] = stream[n].name
    BY <2>1 DEF Lists
  <2> QED BY <1>6, <2>2, <2>6, <2>7
<1>9. longer[Cardinality({m \in P \cup {k} : m <= k})] = stream[k].name
  <2>1. {m \in P \cup {k} : m <= k} = P \cup {k}
    BY <1>1
  <2> QED BY <1>4, <1>5, <1>6, <2>1
<1>10. \A n \in P \cup {k} : longer[Cardinality({m \in P \cup {k} : m <= n})] = stream[n].name
  BY <1>8, <1>9
<1> QED BY <1>7, <1>10 DEF Lists

\* No names are the list of no positions.
LEMMA ListsNone ==
  ASSUME NEW stream
  PROVE  Lists(<<>>, stream, {})
<1>1. Cardinality({}) = 0
  BY FS_EmptySet
<1> QED BY <1>1 DEF Lists

\* The name of a function stays what it should be when nothing of it changes.
LEMMA FunctionUntouched ==
  ASSUME NEW rva, FunctionNamed(rva), UNCHANGED input,
         PublicsRead(rva)' = PublicsRead(rva), ProceduresRead(rva)' = ProceduresRead(rva),
         rva \in DOMAIN functions' <=> rva \in DOMAIN functions,
         rva \in DOMAIN functions => functions'[rva] = functions[rva]
  PROVE  FunctionNamed(rva)'
<1>1. Image(functions', rva) = Image(functions, rva)
  BY DEF Image
<1>2. CASE PublicsRead(rva) # {}
  BY <1>2 DEF FunctionNamed
<1>3. CASE PublicsRead(rva) = {}
  BY <1>1, <1>3 DEF FunctionNamed
<1> QED BY <1>2, <1>3

\* The names of functions are those of what has been read, after a step too.
LEMMA FunctionsNamedStep ==
  ASSUME Typed, FunctionsNamed, [Next]_vars
  PROVE  FunctionsNamed'
<1>1. input' = input /\ Addresses' = Addresses
  <2>1. input' = input
    BY DEF Next, AddFunction, AddString, AddConstant, AddStatic, RefuseGlobal, Defer, SkipGlobal,
           AddDeferred, StartModules, AddFunctionSymbol, AddDataSymbol, RefusePublic, SkipModule,
           Finish, Stop, Take, vars
  <2> QED BY <2>1 DEF Addresses
<1>2. SUFFICES ASSUME phase' \notin Failures, NEW rva \in Addresses
               PROVE  FunctionNamed(rva)'
  BY <1>1 DEF FunctionsNamed, Failures
<1>3. phase \notin Failures
  BY <1>2 DEF Next, AddFunction, AddString, AddConstant, AddStatic, RefuseGlobal, Defer,
     SkipGlobal, AddDeferred, StartModules, AddFunctionSymbol, AddDataSymbol, RefusePublic,
     SkipModule, Finish, Stop, Take, vars, Failures
<1>4. FunctionNamed(rva)
  BY <1>2, <1>3 DEF FunctionsNamed
<1>5. PICK g, m : g = input.global /\ m = input.modules
  OBVIOUS
<1>6. g \in Seq(Symbol) /\ m \in Seq(Symbol)
  BY <1>5 DEF Typed
<1>7. CASE AddFunction
  <2>1. PICK s : s = Head(todo)
    OBVIOUS
  <2>2. PICK folded : folded = IF At(s) \in DOMAIN functions THEN functions[At(s)] ELSE <<>>
    OBVIOUS
  <2>3. /\ Take("global") /\ phase' = phase /\ Public(s) /\ s.function
        /\ functions' = Insert(functions, At(s), Append(folded, s.name))
    BY <1>7, <2>1, <2>2 DEF AddFunction
  <2>4. PICK k : ReadsGlobal(k)
    BY <2>3, GlobalTaken
  <2>5. /\ g[k] = s /\ s \in Symbol /\ s \in PublicFunctions /\ k \in DOMAIN g /\ k \in Nat
        /\ GlobalRead' = GlobalRead \cup {k} /\ ModulesRead = {} /\ ModulesRead' = {}
        /\ GlobalRead \subseteq DOMAIN g /\ \A n \in GlobalRead : n < k
    BY <1>5, <2>1, <2>3, <2>4 DEF ReadsGlobal, PublicFunctions
  <2>6. PublicsRead(rva)' = PublicsRead(rva) \cup (IF At(s) = rva THEN {k} ELSE {})
    <3>1. Naming(g, PublicFunctions, rva) \cap (GlobalRead \cup {k}) =
            (Naming(g, PublicFunctions, rva) \cap GlobalRead) \cup
              (IF At(s) = rva THEN {k} ELSE {})
      BY <2>5, NamingRead
    <3> QED BY <1>1, <1>5, <2>5, <3>1 DEF PublicsRead
  <2>7. ProceduresRead(rva) = {} /\ ProceduresRead(rva)' = {}
    BY <2>5 DEF ProceduresRead
  <2>8. CASE At(s) = rva
    <3>1. PICK P : P = PublicsRead(rva)
      OBVIOUS
    <3>2. P \in SUBSET DOMAIN g /\ \A n \in P : n < k
      BY <2>5, <3>1 DEF PublicsRead
    <3>3. folded \in Seq(Names) /\ Lists(folded, g, P)
      <4>1. CASE P # {}
        BY <1>4, <1>5, <2>2, <2>8, <3>1, <4>1 DEF FunctionNamed, Typed, TypeOK
      <4>2. CASE P = {}
        <5>1. Image(functions, rva) = {}
          BY <1>4, <2>7, <3>1, <4>2 DEF FunctionNamed, NamesOf, First
        <5>2. folded = <<>>
          BY <2>2, <2>8, <5>1 DEF Image
        <5> QED BY <4>2, <5>2, ListsNone
      <4> QED BY <4>1, <4>2
    <3>4. PICK longer : longer = Append(folded, s.name)
      OBVIOUS
    <3>5. Lists(longer, g, P \cup {k})
      BY <1>6, <2>5, <3>2, <3>3, <3>4, ListsLater
    <3>6. rva \in DOMAIN functions' /\ functions'[rva] = longer
      BY <2>3, <2>8, <3>4 DEF Insert
    <3>7. PublicsRead(rva)' = P \cup {k}
      BY <2>6, <2>8, <3>1
    <3> QED BY <1>1, <1>5, <3>5, <3>6, <3>7 DEF FunctionNamed
  <2>9. CASE At(s) # rva
    <3>1. /\ rva \in DOMAIN functions' <=> rva \in DOMAIN functions
          /\ rva \in DOMAIN functions => functions'[rva] = functions[rva]
      BY <2>3, <2>9 DEF Insert
    <3>2. PublicsRead(rva)' = PublicsRead(rva)
      BY <2>6, <2>9
    <3> QED BY <1>1, <1>4, <2>7, <3>1, <3>2, FunctionUntouched
  <2> QED BY <2>8, <2>9
<1>8. CASE AddString \/ AddConstant \/ AddStatic \/ Defer \/ SkipGlobal
  <2>1. Take("global") /\ phase' = phase /\ functions' = functions
    BY <1>8 DEF AddString, AddConstant, AddStatic, Defer, SkipGlobal, tables
  <2>2. PICK k : ReadsGlobal(k)
    BY <2>1, GlobalTaken
  <2>3. Head(todo) \notin PublicFunctions
    BY <1>8, InputsAssumption
       DEF AddString, AddConstant, AddStatic, Defer, SkipGlobal, Literal, ConstantString, Constant, Static,
           Ignored, Public, Located, PublicFunctions
  <2>4. /\ g[k] = Head(todo) /\ k \in DOMAIN g /\ GlobalRead' = GlobalRead \cup {k}
        /\ ModulesRead = {} /\ ModulesRead' = {}
    BY <1>5, <2>1, <2>2 DEF ReadsGlobal
  <2>5. Naming(g, PublicFunctions, rva) \cap (GlobalRead \cup {k}) =
          Naming(g, PublicFunctions, rva) \cap GlobalRead
    BY <2>3, <2>4, NamingRead
  <2>6. PublicsRead(rva)' = PublicsRead(rva) /\ ProceduresRead(rva)' = ProceduresRead(rva)
    BY <1>1, <1>5, <2>4, <2>5 DEF PublicsRead, ProceduresRead
  <2> QED BY <1>1, <1>4, <2>1, <2>6, FunctionUntouched
<1>9. CASE AddDeferred \/ StartModules \/ Finish \/ UNCHANGED vars
  <2>1. Settles
    BY <1>9, SettledSteps
  <2>2. PublicsRead(rva)' = PublicsRead(rva) /\ ProceduresRead(rva)' = ProceduresRead(rva)
    BY <2>1 DEF Settles, PublicsRead, ProceduresRead
  <2>3. functions' = functions
    BY <1>9 DEF AddDeferred, StartModules, Finish, vars, tables
  <2> QED BY <1>1, <1>4, <2>2, <2>3, FunctionUntouched
<1>10. CASE AddFunctionSymbol
  <2>1. PICK s : s = Head(todo)
    OBVIOUS
  <2>2. PICK a : a = Rva["text"] + s.offset
    OBVIOUS
  <2>3. /\ Take("modules") /\ phase' = phase /\ Procedure(s)
        /\ functions' = InsertVacant(functions, a, <<s.name>>)
    BY <1>10, <2>1, <2>2 DEF AddFunctionSymbol
  <2>4. PICK k : ReadsModule(k)
    BY <2>3, ModuleTaken
  <2>5. /\ m[k] = s /\ k \in DOMAIN m /\ k \in Nat /\ GlobalRead' = GlobalRead
        /\ ModulesRead' = ModulesRead \cup {k} /\ \A n \in ModulesRead : n \in Nat /\ n < k
    BY <1>5, <2>1, <2>3, <2>4 DEF ReadsModule
  <2>6. PublicsRead(rva)' = PublicsRead(rva)
    BY <1>1, <2>5 DEF PublicsRead
  <2>7. ProceduresRead(rva)' = ProceduresRead(rva) \cup (IF a = rva THEN {k} ELSE {})
    <3>1. Procedures(m, rva) \cap (ModulesRead \cup {k}) =
            (Procedures(m, rva) \cap ModulesRead) \cup (IF a = rva THEN {k} ELSE {})
      BY <2>2, <2>3, <2>5 DEF Procedures
    <3> QED BY <1>1, <1>5, <2>5, <3>1 DEF ProceduresRead
  <2>8. CASE a = rva /\ PublicsRead(rva) = {} /\ rva \notin DOMAIN functions
    <3>1. PICK R : R = ProceduresRead(rva)
      OBVIOUS
    <3>2. R \in SUBSET Nat /\ \A n \in R : n < k
      BY <2>5, <3>1 DEF ProceduresRead
    <3>3. {<<name>> : name \in NamesOf(m, First(R))} = {}
      BY <1>4, <1>5, <2>8, <3>1 DEF FunctionNamed, Image
    <3>4. First(R) = {}
      BY <3>3 DEF NamesOf
    <3>5. First(R \cup {k}) = {k}
      BY <2>5, <3>2, <3>4, LaterPosition
    <3>6. Image(functions', rva) = {<<s.name>>}
      BY <2>3, <2>8 DEF Image, InsertVacant, Insert
    <3>7. {<<name>> : name \in NamesOf(m, {k})} = {<<s.name>>}
      BY <2>5 DEF NamesOf
    <3>8. ProceduresRead(rva)' = R \cup {k}
      BY <2>7, <2>8, <3>1
    <3> QED BY <1>1, <1>5, <2>6, <2>8, <3>5, <3>6, <3>7, <3>8 DEF FunctionNamed
  <2>9. CASE a = rva /\ PublicsRead(rva) = {} /\ rva \in DOMAIN functions
    <3>1. PICK R : R = ProceduresRead(rva)
      OBVIOUS
    <3>2. R \in SUBSET Nat /\ \A n \in R : n < k
      BY <2>5, <3>1 DEF ProceduresRead
    <3>3. {<<name>> : name \in NamesOf(m, First(R))} # {}
      BY <1>4, <1>5, <2>9, <3>1 DEF FunctionNamed, Image
    <3>4. First(R) # {}
      BY <3>3 DEF NamesOf
    <3>5. First(R \cup {k}) = First(R)
      BY <2>5, <3>2, <3>4, LaterPosition
    <3>6. functions' = functions
      BY <2>3, <2>9 DEF InsertVacant
    <3>7. ProceduresRead(rva)' = R \cup {k}
      BY <2>7, <2>9, <3>1
    <3> QED BY <1>1, <1>4, <1>5, <2>6, <2>9, <3>1, <3>5, <3>6, <3>7 DEF FunctionNamed
  <2>10. CASE a = rva /\ PublicsRead(rva) # {}
    <3>1. functions' = functions
      BY <1>4, <2>3, <2>10 DEF FunctionNamed, InsertVacant
    <3> QED BY <1>1, <1>4, <2>6, <2>10, <3>1 DEF FunctionNamed
  <2>11. CASE a # rva
    <3>1. /\ rva \in DOMAIN functions' <=> rva \in DOMAIN functions
          /\ rva \in DOMAIN functions => functions'[rva] = functions[rva]
      BY <2>3, <2>11 DEF InsertVacant, Insert
    <3>2. ProceduresRead(rva)' = ProceduresRead(rva)
      BY <2>7, <2>11
    <3> QED BY <1>1, <1>4, <2>6, <3>1, <3>2, FunctionUntouched
  <2> QED BY <2>8, <2>9, <2>10, <2>11
<1>11. CASE AddDataSymbol \/ SkipModule
  <2>1. Take("modules") /\ phase' = phase /\ functions' = functions
    BY <1>11 DEF AddDataSymbol, SkipModule, tables
  <2>2. PICK k : ReadsModule(k)
    BY <2>1, ModuleTaken
  <2>3. ~Procedure(Head(todo))
    BY <1>11 DEF AddDataSymbol, SkipModule, Procedure
  <2>4. /\ m[k] = Head(todo) /\ k \in DOMAIN m /\ GlobalRead' = GlobalRead
        /\ ModulesRead' = ModulesRead \cup {k}
    BY <1>5, <2>1, <2>2 DEF ReadsModule
  <2>5. Procedures(m, rva) \cap (ModulesRead \cup {k}) = Procedures(m, rva) \cap ModulesRead
    BY <2>3, <2>4 DEF Procedures
  <2>6. PublicsRead(rva)' = PublicsRead(rva) /\ ProceduresRead(rva)' = ProceduresRead(rva)
    BY <1>1, <1>5, <2>4, <2>5 DEF PublicsRead, ProceduresRead
  <2> QED BY <1>1, <1>4, <2>1, <2>6, FunctionUntouched
<1>12. CASE RefuseGlobal \/ RefusePublic
  BY <1>2, <1>12 DEF RefuseGlobal, RefusePublic, Failures
<1>13. CASE Stop
  <2>1. UNCHANGED vars
    BY <1>13 DEF Stop
  <2> QED BY <1>9, <2>1
<1> QED BY <1>7, <1>8, <1>9, <1>10, <1>11, <1>12, <1>13 DEF Next

-----------------------------------------------------------------------------
(* What stops a run.                                                       *)

\* What strings and statics hold comes from public symbols, after a step too.
LEMMA PublicFirstStep ==
  ASSUME Typed, PublicFirst, [Next]_vars
  PROVE  PublicFirst'
<1>1. SUFFICES ASSUME phase' = "global", todo' # <<>>
               PROVE  /\ \A rva \in DOMAIN strings' :
                           \E n \in GlobalRead' : /\ ConstantString(input'.global[n])
                                                  /\ At(input'.global[n]) = rva
                      /\ \A rva \in DOMAIN statics' :
                           \E n \in GlobalRead' : /\ Static(input'.global[n])
                                                  /\ At(input'.global[n]) = rva
  BY DEF PublicFirst, ConstantString, Literal, Static, Public, Located, At
<1>2. CASE UNCHANGED vars
  BY <1>1, <1>2 DEF vars, tables, PublicFirst, GlobalRead
<1>3. CASE Take("global") /\ phase' = phase
  <2>1. PICK k : ReadsGlobal(k)
    BY <1>3, GlobalTaken
  <2>2. PICK g : g = input.global
    OBVIOUS
  <2>3. /\ input' = input /\ GlobalRead' = GlobalRead \cup {k} /\ g[k] = Head(todo)
        /\ phase = "global" /\ todo # <<>>
    BY <1>3, <2>1, <2>2 DEF ReadsGlobal
  <2>4. /\ \A rva \in DOMAIN strings : \E n \in GlobalRead : ConstantString(g[n]) /\ At(g[n]) = rva
        /\ \A rva \in DOMAIN statics : \E n \in GlobalRead : Static(g[n]) /\ At(g[n]) = rva
    BY <2>2, <2>3 DEF PublicFirst
  <2>5. /\ \/ strings' = strings
           \/ /\ ConstantString(Head(todo))
              /\ \E name : strings' = Insert(strings, At(Head(todo)), name)
        /\ \/ statics' = statics
           \/ /\ Static(Head(todo))
              /\ \E name : statics' = Insert(statics, At(Head(todo)), name)
    BY <1>3 DEF Next, AddFunction, AddString, AddConstant, AddStatic, RefuseGlobal, Defer,
       SkipGlobal, AddDeferred, StartModules, AddFunctionSymbol, AddDataSymbol, RefusePublic,
       SkipModule, Finish, Stop, Take, vars, tables
  <2>6. /\ DOMAIN strings' = DOMAIN strings \/
             (ConstantString(g[k]) /\ DOMAIN strings' = DOMAIN strings \cup {At(g[k])})
        /\ DOMAIN statics' = DOMAIN statics \/
             (Static(g[k]) /\ DOMAIN statics' = DOMAIN statics \cup {At(g[k])})
    BY <2>3, <2>5 DEF Insert
  <2>7. /\ \A rva \in DOMAIN strings' : \E n \in GlobalRead' : ConstantString(g[n]) /\ At(g[n]) = rva
        /\ \A rva \in DOMAIN statics' : \E n \in GlobalRead' : Static(g[n]) /\ At(g[n]) = rva
    BY <2>3, <2>4, <2>6
  <2> QED BY <2>2, <2>3, <2>7
<1>4. CASE ~(UNCHANGED vars) /\ ~(Take("global") /\ phase' = phase)
  BY <1>1, <1>4 DEF Next, AddFunction, AddString, AddConstant, AddStatic, RefuseGlobal, Defer,
     SkipGlobal, AddDeferred, StartModules, AddFunctionSymbol, AddDataSymbol, RefusePublic,
     SkipModule, Finish, Stop, Take, Failures
<1> QED BY <1>2, <1>3, <1>4

\* A run that stops has a cause to, after a step too.
LEMMA StopsForCauseStep ==
  ASSUME Typed, PublicFirst, StopsForCause, [Next]_vars
  PROVE  StopsForCause'
<1>1. SUFFICES ASSUME phase' = "panic" PROVE StopsForCause'
  BY DEF StopsForCause
<1>2. input' = input
  BY DEF Next, AddFunction, AddString, AddConstant, AddStatic, RefuseGlobal, Defer, SkipGlobal,
         AddDeferred, StartModules, AddFunctionSymbol, AddDataSymbol, RefusePublic, SkipModule,
         Finish, Stop, Take, vars
<1>3. CASE phase = "panic"
  BY <1>2, <1>3 DEF StopsForCause, MisplacedFunction, NoString, ConstantString, Static, Literal,
     Public, Located, At
<1>4. CASE RefusePublic
  <2>1. PICK k : ReadsModule(k)
    BY <1>4, ModuleTaken DEF RefusePublic
  <2>2. k \in DOMAIN input.modules /\ input.modules[k].type = "public"
    BY <1>4, <2>1 DEF RefusePublic, ReadsModule
  <2> QED BY <1>2, <2>2 DEF StopsForCause
<1>5. CASE RefuseGlobal
  <2>1. PICK k : ReadsGlobal(k)
    BY <1>5, GlobalTaken DEF RefuseGlobal
  <2>2. PICK g : g = input.global
    OBVIOUS
  <2>3. /\ k \in DOMAIN g /\ k \in Nat /\ g[k] = Head(todo) /\ phase = "global" /\ todo # <<>>
        /\ GlobalRead \subseteq DOMAIN g /\ \A n \in GlobalRead : n < k
    BY <2>1, <2>2 DEF ReadsGlobal
  <2>4. MisplacedFunction(g[k]) \/ NoString(g[k]) \/ Repeats(g[k])
    BY <1>1, <1>5, <2>3 DEF RefuseGlobal
  <2>5. CASE MisplacedFunction(g[k]) \/ NoString(g[k])
    BY <1>2, <2>2, <2>3, <2>5
       DEF StopsForCause, MisplacedFunction, NoString, Literal, Public, Located
  <2>6. CASE Repeats(g[k])
    <3>1. PICK n \in GlobalRead : /\ At(g[n]) = At(g[k])
                                  /\ \/ Static(g[n]) /\ Static(g[k])
                                     \/ ConstantString(g[n]) /\ ConstantString(g[k])
      BY <2>2, <2>3, <2>6 DEF Repeats, PublicFirst
    <3>2. n \in DOMAIN g /\ n < k
      BY <2>3, <3>1
    <3>3. \E i, j \in DOMAIN g :
            /\ i < j
            /\ (Static(g[i]) /\ Static(g[j])) \/ (ConstantString(g[i]) /\ ConstantString(g[j]))
            /\ At(g[i]) = At(g[j])
      BY <2>3, <3>1, <3>2
    <3> QED BY <1>2, <2>2, <3>3 DEF StopsForCause
  <2> QED BY <2>4, <2>5, <2>6
<1>6. CASE phase # "panic" /\ ~RefusePublic /\ ~RefuseGlobal
  BY <1>1, <1>6 DEF Next, AddFunction, AddString, AddConstant, AddStatic, Defer, SkipGlobal,
     AddDeferred, StartModules, AddFunctionSymbol, AddDataSymbol, SkipModule, Finish, Stop,
     Take, vars
<1> QED BY <1>3, <1>4, <1>5, <1>6

-----------------------------------------------------------------------------
(* Theorems.                                                               *)

\* An image's streams, and nothing read of them.
LEMMA InitIInv ==
  ASSUME Init
  PROVE  IInv
<1>1. /\ input \in Inputs /\ phase = "global" /\ todo = input.global
      /\ functions = EmptyMap /\ strings = EmptyMap
      /\ constants = EmptyMap /\ statics = EmptyMap
      /\ static_data_symbols = <<>> /\ constant_data_symbols = <<>>
  BY DEF Init
<1>2. input.global \in Seq(Symbol) /\ input.modules \in Seq(Symbol)
  BY <1>1, InputsAssumption
<1>3. DOMAIN EmptyMap = {}
  BY DEF EmptyMap
<1>4. Typed
  <2>1. TypeOK
    BY <1>1, <1>2, <1>3 DEF TypeOK
  <2>2. Left(input.global)
    BY <1>1, <1>2 DEF Left
  <2> QED BY <1>1, <1>2, <2>1, <2>2 DEF Typed, Walking
<1>5. OnlyNamed
  BY <1>1, <1>3 DEF OnlyNamed
<1>6. GlobalRead = {} /\ ModulesRead = {}
  <2>1. 1 .. Len(input.global) - Len(input.global) = {}
    BY <1>2
  <2> QED BY <1>1, <2>1 DEF GlobalRead, ModulesRead
<1>7. \A rva : Image(EmptyMap, rva) = {}
  BY <1>3 DEF Image
<1>8. \A rva : Named(EmptyMap, <<>>, rva) = {}
  BY <1>7 DEF Named, OrElse, Waiting, NamesOf, First
<1>9. \A section, publics, rva : Best(section, publics, rva) = {}
  <2>1. \A stream : NamesOf(stream, First({})) = {} /\ NamesOf(stream, Latest({})) = {}
    BY DEF NamesOf, First, Latest
  <2>2. \A S : S \cap GlobalRead = {} /\ S \cap ModulesRead = {}
    BY <1>6
  <2> QED BY <2>1, <2>2 DEF Best, OrElse
<1>10. DataNamed
  BY <1>1, <1>8, <1>9 DEF DataNamed, ConstantNamed, StaticNamed
<1>11. FunctionsNamed
  <2> SUFFICES ASSUME NEW rva PROVE FunctionNamed(rva)
    BY DEF FunctionsNamed
  <2>1. PublicsRead(rva) = {} /\ ProceduresRead(rva) = {}
    BY <1>6 DEF PublicsRead, ProceduresRead
  <2>2. {<<name>> : name \in NamesOf(input.modules, First({}))} = {}
    BY DEF NamesOf, First
  <2> QED BY <1>1, <1>7, <2>1, <2>2 DEF FunctionNamed
<1>12. PublicFirst
  BY <1>1, <1>3 DEF PublicFirst
<1>13. StopsForCause
  BY <1>1 DEF StopsForCause
<1> QED BY <1>4, <1>5, <1>10, <1>11, <1>12, <1>13 DEF IInv

\* The parts hold together, whatever the streams: the passes read symbols in
\* order and rename what the new symbol is preferred at.
THEOREM ParsingInductive == Spec => []IInv
<1>1. Init => IInv
  BY InitIInv
<1>2. IInv /\ [Next]_vars => IInv'
  <2> SUFFICES ASSUME IInv, [Next]_vars PROVE IInv'
    OBVIOUS
  <2>1. /\ Typed /\ OnlyNamed /\ DataNamed /\ FunctionsNamed
        /\ PublicFirst /\ StopsForCause
    BY DEF IInv
  <2> QED BY <2>1, TypedStep, OnlyNamedStep, DataNamedStep, FunctionsNamedStep,
             PublicFirstStep, StopsForCauseStep DEF IInv
<1> QED BY <1>1, <1>2, PTL DEF Spec

\* The loops of `parse` keep their tables typed: a folded group is never empty.
THEOREM ParsingTypeCorrect == Spec => []TypeOK
<1>1. IInv => TypeOK
  BY DEF IInv, Typed
<1> QED BY <1>1, ParsingInductive, PTL

\* When parsing is over, everything is read and nothing waits.
LEMMA ParsedRead ==
  ASSUME IInv, phase = "parsed"
  PROVE  /\ GlobalRead = DOMAIN input.global /\ ModulesRead = DOMAIN input.modules
         /\ static_data_symbols = <<>> /\ constant_data_symbols = <<>>
         /\ phase \notin Failures
BY DEF IInv, Typed, Walking, GlobalRead, ModulesRead, Failures

\* Once `parse` returns, each address of .rdata and .data has the name the
\* comments prefer, whatever the order of the symbols in the passes' streams.
THEOREM DataNamesPreferredHolds == Spec => []DataNamesPreferred
<1>1. IInv => DataNamesPreferred
  <2> SUFFICES ASSUME IInv, phase = "parsed"
               PROVE  /\ DOMAIN constants \cup DOMAIN statics \subseteq Addresses
                      /\ \A rva \in Addresses :
                           /\ Image(constants, rva) = Preferred("rdata", Constants, rva)
                           /\ Image(statics, rva) = Preferred("data", Statics, rva)
    BY DEF DataNamesPreferred
  <2>1. /\ GlobalRead = DOMAIN input.global /\ ModulesRead = DOMAIN input.modules
        /\ static_data_symbols = <<>> /\ constant_data_symbols = <<>>
        /\ phase \notin Failures
    BY ParsedRead
  <2>2. DOMAIN constants \cup DOMAIN statics \subseteq Addresses
    BY DEF IInv, OnlyNamed
  <2>3. ASSUME NEW rva \in Addresses
        PROVE  /\ Image(constants, rva) = Preferred("rdata", Constants, rva)
               /\ Image(statics, rva) = Preferred("data", Statics, rva)
    <3>1. \A kind : /\ Naming(input.global, kind, rva) \cap GlobalRead
                         = Naming(input.global, kind, rva)
                    /\ Naming(input.modules, kind, rva) \cap ModulesRead
                         = Naming(input.modules, kind, rva)
      BY <2>1 DEF Naming
    <3>2. \A section, publics : Best(section, publics, rva) = Preferred(section, publics, rva)
      BY <3>1 DEF Best, Preferred
    <3>3. Waiting(<<>>, rva) = {}
      BY DEF Waiting, NamesOf, First
    <3>4. \A map : Named(map, <<>>, rva) = Image(map, rva)
      BY <3>3 DEF Named, OrElse
    <3>5. ConstantNamed(rva) /\ StaticNamed(rva)
      BY <2>1 DEF IInv, DataNamed
    <3> QED BY <2>1, <3>2, <3>4, <3>5 DEF ConstantNamed, StaticNamed
  <2> QED BY <2>2, <2>3
<1> QED BY <1>1, ParsingInductive, PTL

\* Once `parse` returns, a folded function has all its public names, in order,
\* and a function without any has the first name a module gives its address.
THEOREM FoldedNamesCompleteHolds == Spec => []FoldedNamesComplete
<1>1. IInv => FoldedNamesComplete
  <2> SUFFICES ASSUME IInv, phase = "parsed" PROVE FoldedNamesComplete
    BY DEF FoldedNamesComplete
  <2>1. /\ GlobalRead = DOMAIN input.global /\ ModulesRead = DOMAIN input.modules
        /\ phase \notin Failures
    BY ParsedRead
  <2>2. DOMAIN functions \subseteq Addresses
    BY DEF IInv, OnlyNamed
  <2>3. ASSUME NEW rva \in Addresses
        PROVE  IF Naming(input.global, PublicFunctions, rva) # {}
               THEN /\ rva \in DOMAIN functions
                    /\ Lists(functions[rva], input.global,
                             Naming(input.global, PublicFunctions, rva))
               ELSE Image(functions, rva) =
                      {<<name>> : name \in NamesOf(input.modules,
                                                  First(Procedures(input.modules, rva)))}
    <3>1. /\ PublicsRead(rva) = Naming(input.global, PublicFunctions, rva)
          /\ ProceduresRead(rva) = Procedures(input.modules, rva)
      BY <2>1 DEF PublicsRead, ProceduresRead, Naming, Procedures
    <3>2. FunctionNamed(rva)
      BY <2>1 DEF IInv, FunctionsNamed
    <3> QED BY <3>1, <3>2 DEF FunctionNamed
  <2> QED BY <2>2, <2>3 DEF FoldedNamesComplete
<1> QED BY <1>1, ParsingInductive, PTL

\* The asserts of `iterate_symbol_table`, its `unreachable!` and the one of
\* `iterate_modules` fire for what they name: a constant never stops a run.
THEOREM StopsForCauseHolds == Spec => []StopsForCause
<1>1. IInv => StopsForCause
  BY DEF IInv
<1> QED BY <1>1, ParsingInductive, PTL
=============================================================================
