-------------------------- MODULE ObjectFilesProofs --------------------------
(***************************************************************************)
(* What building the objects establishes, for every image, every list of   *)
(* definitions and functions, and every map of relocations.                *)
(*                                                                         *)
(* The argument.  An object only grows: symbols and relocations are        *)
(* appended, allocations start at or past the end of their section.  So a  *)
(* relocation is in one allocation, a new allocation has none, and the     *)
(* place of a site gets its relocation when, and only when, the loops come *)
(* to the site; what they have yet to come to is read off todo, sites and  *)
(* call.                                                                   *)
(***************************************************************************)
EXTENDS ObjectFiles, OrderProofs, FiniteSetTheorems

-----------------------------------------------------------------------------
(* Lists and alignment.                                                    *)

\* A sequence over any set is a list.
LEMMA IsListFacts ==
  ASSUME NEW S, NEW s \in Seq(S)
  PROVE  /\ IsList(s) /\ DOMAIN s = 1 .. Len(s) /\ Len(s) \in Nat
         /\ \A n \in DOMAIN s : s[n] \in S
<1> DEFINE T == {s[n] : n \in DOMAIN s}
<1>1. /\ DOMAIN s = 1 .. Len(s) /\ Len(s) \in Nat /\ \A n \in DOMAIN s : s[n] \in S
      /\ s = [n \in 1 .. Len(s) |-> s[n]]
  OBVIOUS
<1>2. s \in [1 .. Len(s) -> T]
  BY <1>1
<1>3. s \in Seq(T)
  <2> HIDE DEF T
  <2> QED BY <1>1, <1>2
<1> QED BY <1>1, <1>3 DEF IsList

\* The domain of a list.
LEMMA ListDomain ==
  ASSUME NEW s, IsList(s)
  PROVE  DOMAIN s = 1 .. Len(s) /\ Len(s) \in Nat
<1>1. s \in Seq({s[n] : n \in DOMAIN s})
  BY DEF IsList
<1> QED BY <1>1, IsListFacts

\* What is appended comes last, and the rest stays.
LEMMA AppendFacts ==
  ASSUME NEW s, IsList(s), NEW x
  PROVE  /\ IsList(Append(s, x))
         /\ Len(s) \in Nat /\ DOMAIN s = 1 .. Len(s) /\ Len(Append(s, x)) = Len(s) + 1
         /\ DOMAIN Append(s, x) = DOMAIN s \cup {Len(s) + 1}
         /\ Len(s) + 1 \notin DOMAIN s
         /\ \A n \in DOMAIN s : Append(s, x)[n] = s[n]
         /\ Append(s, x)[Len(s) + 1] = x
<1> DEFINE T == {s[n] : n \in DOMAIN s} \cup {x}
<1>1. s \in Seq({s[n] : n \in DOMAIN s})
  BY DEF IsList
<1>2. DOMAIN s = 1 .. Len(s) /\ Len(s) \in Nat
  BY ListDomain
<1>3. s \in [1 .. Len(s) -> T]
  BY <1>1, <1>2
<1>4. s \in Seq(T) /\ x \in T
  <2> HIDE DEF T
  <2>1. s \in Seq(T)
    BY <1>2, <1>3
  <2> QED BY <2>1 DEF T
<1>5. /\ Append(s, x) \in Seq(T) /\ Len(Append(s, x)) = Len(s) + 1
      /\ \A n \in 1 .. Len(s) : Append(s, x)[n] = s[n]
      /\ Append(s, x)[Len(s) + 1] = x
  <2> HIDE DEF T
  <2> QED BY <1>4
<1>6. IsList(Append(s, x)) /\ DOMAIN Append(s, x) = 1 .. Len(s) + 1
  <2> HIDE DEF T
  <2> QED BY <1>5, IsListFacts
<1>7. 1 .. Len(s) + 1 = 1 .. Len(s) \cup {Len(s) + 1} /\ Len(s) + 1 \notin 1 .. Len(s)
  BY <1>2
<1> QED BY <1>2, <1>5, <1>6, <1>7

\* The rest of a list.
LEMMA TailOfList ==
  ASSUME NEW s, IsList(s), s # <<>>
  PROVE  /\ IsList(Tail(s)) /\ 1 \in DOMAIN s /\ Head(s) = s[1]
         /\ \A n \in DOMAIN Tail(s) : n + 1 \in DOMAIN s /\ n + 1 # 1 /\ Tail(s)[n] = s[n + 1]
         /\ \A n \in DOMAIN s \ {1} : n - 1 \in DOMAIN Tail(s) /\ Tail(s)[n - 1] = s[n]
         /\ \A m, n \in DOMAIN Tail(s) : m + 1 = n + 1 => m = n
<1> DEFINE T == {s[n] : n \in DOMAIN s}
<1>1. s \in Seq(T)
  BY DEF IsList
<1> HIDE DEF T
<1>2. /\ Head(s) = s[1] /\ 1 \in DOMAIN s /\ Tail(s) \in Seq(T) /\ DOMAIN s = 1 .. Len(s)
      /\ \A n \in DOMAIN Tail(s) : n \in Nat /\ n + 1 \in DOMAIN s /\ Tail(s)[n] = s[n + 1]
      /\ \A n \in DOMAIN s \ {1} : n - 1 \in DOMAIN Tail(s) /\ Tail(s)[n - 1] = s[n]
  BY <1>1, TailFacts
<1>3. DOMAIN Tail(s) \subseteq Nat \ {0} /\ IsList(Tail(s))
  <2>1. IsList(Tail(s)) /\ DOMAIN Tail(s) = 1 .. Len(Tail(s)) /\ Len(Tail(s)) \in Nat
    BY <1>2, IsListFacts
  <2> QED BY <2>1
<1>4. \A n \in DOMAIN Tail(s) : n + 1 # 1
  BY <1>3
<1>5. \A m, n \in DOMAIN Tail(s) : m + 1 = n + 1 => m = n
  BY <1>3
<1> QED BY <1>2, <1>3, <1>4, <1>5

-----------------------------------------------------------------------------
(* What becomes of an object.                                              *)

\* A record with the fields of an object, in whose table an undefined symbol
\* has the name it is found under.
WellFormed(o) ==
  /\ o = [size |-> o.size, symbols |-> o.symbols, undefined |-> o.undefined,
          relocs |-> o.relocs, allocs |-> o.allocs]
  /\ ObjectType(o)
  /\ \A name \in DOMAIN o.undefined : o.symbols[o.undefined[name]].name = name

\* What is in the object stays there.
Grows(o, e) ==
  /\ \A n \in DOMAIN o.symbols : n \in DOMAIN e.symbols /\ e.symbols[n] = o.symbols[n]
  /\ \A n \in DOMAIN o.relocs : n \in DOMAIN e.relocs /\ e.relocs[n] = o.relocs[n]
  /\ o.allocs \subseteq e.allocs
  /\ \A s \in Sections : o.size[s] <= e.size[s]

\* An allocation is added, at or past the end of its section.
Places(o, e, a) ==
  /\ e.allocs = o.allocs \cup {a}
  /\ PlaceType(a) /\ a.rva \in Nat /\ a.size \in Nat
  /\ o.size[a.section] <= a.offset /\ a.offset + a.size <= e.size[a.section]

\* A relocation is added, at a place and against a symbol of a name.
Relocates(o, e, at, name) ==
  \E new :
    /\ new \notin DOMAIN o.relocs /\ DOMAIN e.relocs = DOMAIN o.relocs \cup {new}
    /\ e.relocs[new].section = at.section /\ e.relocs[new].offset = at.offset
    /\ e.symbols[e.relocs[new].symbol].name = name

\* A symbol is added.
Defines(o, e, name, section, value) ==
  \E new :
    /\ new \notin DOMAIN o.symbols /\ DOMAIN e.symbols = DOMAIN o.symbols \cup {new}
    /\ e.symbols[new] = [name |-> name, section |-> section, value |-> value]

\* The symbols added are undefined.
OnlyUndefined(o, e) ==
  \A n \in DOMAIN e.symbols \ DOMAIN o.symbols : e.symbols[n].section = "undefined"

\* Nothing becomes of an object that is left alone.
LEMMA GrowsSelf ==
  ASSUME NEW o, WellFormed(o)
  PROVE  Grows(o, o)
BY DEF Grows, WellFormed, ObjectType

\* An object that grows twice has grown.
LEMMA GrowsOn ==
  ASSUME NEW o, NEW e, NEW f, WellFormed(o), WellFormed(e), WellFormed(f),
         Grows(o, e), Grows(e, f)
  PROVE  Grows(o, f)
<1>1. \A s \in Sections : o.size[s] <= f.size[s]
  <2> TAKE s \in Sections
  <2>1. o.size[s] \in Nat /\ e.size[s] \in Nat /\ f.size[s] \in Nat
    BY DEF WellFormed, ObjectType
  <2>2. o.size[s] <= e.size[s] /\ e.size[s] <= f.size[s]
    BY DEF Grows
  <2> QED BY <2>1, <2>2
<1> QED BY <1>1 DEF Grows

\* An empty object.
LEMMA EmptyFacts ==
  ASSUME IsInput(input)
  PROVE  /\ WellFormed(Empty) /\ Empty.allocs = {} /\ Empty.symbols = <<>>
         /\ Empty.relocs = <<>> /\ DOMAIN Empty.symbols = {} /\ DOMAIN Empty.relocs = {}
<1>1. Empty.size \in [Sections -> Nat]
  BY DEF Empty, Padding
<1>2. IsList(<<>>) /\ DOMAIN <<>> = {}
  <2>1. <<>> \in Seq({}) /\ Len(<<>>) = 0
    OBVIOUS
  <2>2. IsList(<<>>) /\ DOMAIN <<>> = 1 .. Len(<<>>)
    BY <2>1, IsListFacts
  <2> QED BY <2>1, <2>2
<1>3. /\ Empty.symbols = <<>> /\ Empty.relocs = <<>> /\ Empty.allocs = {}
      /\ DOMAIN Empty.undefined = {}
  BY DEF Empty, EmptyMap
<1>4. Empty = [size |-> Empty.size, symbols |-> Empty.symbols,
               undefined |-> Empty.undefined, relocs |-> Empty.relocs,
               allocs |-> Empty.allocs]
  BY DEF Empty
<1>5. ObjectType(Empty)
  BY <1>1, <1>2, <1>3 DEF ObjectType
<1> QED BY <1>2, <1>3, <1>4, <1>5 DEF WellFormed

\* An object with other symbols, field by field.
LEMMA WithSymbols ==
  ASSUME NEW size, NEW symbols, NEW undefined, NEW relocs, NEW allocs, NEW new
  PROVE  [[size |-> size, symbols |-> symbols, undefined |-> undefined,
           relocs |-> relocs, allocs |-> allocs] EXCEPT !.symbols = new]
           = [size |-> size, symbols |-> new, undefined |-> undefined,
              relocs |-> relocs, allocs |-> allocs]
OBVIOUS

\* An object with other relocations, field by field.
LEMMA WithRelocs ==
  ASSUME NEW size, NEW symbols, NEW undefined, NEW relocs, NEW allocs, NEW new
  PROVE  [[size |-> size, symbols |-> symbols, undefined |-> undefined,
           relocs |-> relocs, allocs |-> allocs] EXCEPT !.relocs = new]
           = [size |-> size, symbols |-> symbols, undefined |-> undefined,
              relocs |-> new, allocs |-> allocs]
OBVIOUS

\* The fields of an object with a symbol more.
LEMMA AddSymbolFacts ==
  ASSUME NEW o, WellFormed(o), NEW name, NEW section, section \in Sections \cup {"undefined"},
         NEW value, value \in Nat
  PROVE  LET e == AddSymbol(o, name, section, value)
             new == Len(o.symbols) + 1
         IN  /\ WellFormed(e) /\ Grows(o, e)
             /\ e.size = o.size /\ e.undefined = o.undefined
             /\ e.relocs = o.relocs /\ e.allocs = o.allocs
             /\ new \notin DOMAIN o.symbols /\ DOMAIN e.symbols = DOMAIN o.symbols \cup {new}
             /\ e.symbols[new] = [name |-> name, section |-> section, value |-> value]
             /\ Len(e.symbols) = new
<1> DEFINE e == AddSymbol(o, name, section, value)
           new == Len(o.symbols) + 1
           x == [name |-> name, section |-> section, value |-> value]
<1>1. e = [size |-> o.size, symbols |-> Append(o.symbols, x), undefined |-> o.undefined,
           relocs |-> o.relocs, allocs |-> o.allocs]
  <2>1. PICK a, b, c, d, f : o = [size |-> a, symbols |-> b, undefined |-> c,
                                  relocs |-> d, allocs |-> f]
    BY DEF WellFormed
  <2>2. e = [[size |-> a, symbols |-> b, undefined |-> c, relocs |-> d, allocs |-> f]
               EXCEPT !.symbols = Append(o.symbols, x)]
    BY <2>1 DEF AddSymbol
  <2>3. /\ o.size = a /\ o.undefined = c /\ o.relocs = d /\ o.allocs = f
    BY <2>1
  <2> HIDE DEF x, e
  <2> QED BY <2>2, <2>3, WithSymbols
<1>2. /\ e.size = o.size /\ e.undefined = o.undefined
      /\ e.relocs = o.relocs /\ e.allocs = o.allocs /\ e.symbols = Append(o.symbols, x)
  BY <1>1
<1>3. IsList(o.symbols)
  BY DEF WellFormed, ObjectType
<1>4. /\ IsList(e.symbols) /\ DOMAIN e.symbols = DOMAIN o.symbols \cup {new}
      /\ new \notin DOMAIN o.symbols
      /\ \A n \in DOMAIN o.symbols : e.symbols[n] = o.symbols[n]
      /\ e.symbols[new] = x /\ Len(e.symbols) = new
  <2> HIDE DEF x, e
  <2> QED BY <1>2, <1>3, AppendFacts
<1> HIDE DEF e, new
<1>5. Grows(o, e)
  BY <1>2, <1>4, GrowsSelf DEF Grows
<1>6. ObjectType(e)
  <2>1. \A n \in DOMAIN e.symbols :
          e.symbols[n].section \in Sections \cup {"undefined"} /\ e.symbols[n].value \in Nat
    BY <1>4 DEF WellFormed, ObjectType
  <2> QED BY <1>2, <1>4, <2>1 DEF WellFormed, ObjectType
<1>7. \A m \in DOMAIN e.undefined : e.symbols[e.undefined[m]].name = m
  BY <1>2, <1>4 DEF WellFormed, ObjectType
<1>8. WellFormed(e)
  BY <1>1, <1>2, <1>6, <1>7 DEF WellFormed
<1> QED BY <1>2, <1>4, <1>5, <1>8 DEF e, new

\* The same, of a symbol that is the last.
LEMMA DefinesFacts ==
  ASSUME NEW o, WellFormed(o), NEW name, NEW section, section \in Sections \cup {"undefined"},
         NEW value, value \in Nat, NEW e, e = AddSymbol(o, name, section, value)
  PROVE  /\ WellFormed(e) /\ Grows(o, e)
         /\ e.size = o.size /\ e.relocs = o.relocs /\ e.allocs = o.allocs
         /\ Defines(o, e, name, section, value)
         /\ Len(e.symbols) \in DOMAIN e.symbols /\ e.symbols[Len(e.symbols)].name = name
<1> DEFINE f == AddSymbol(o, name, section, value)
           new == Len(o.symbols) + 1
<1>1. /\ WellFormed(f) /\ Grows(o, f)
      /\ f.size = o.size /\ f.relocs = o.relocs /\ f.allocs = o.allocs
      /\ new \notin DOMAIN o.symbols /\ DOMAIN f.symbols = DOMAIN o.symbols \cup {new}
      /\ f.symbols[new] = [name |-> name, section |-> section, value |-> value]
      /\ Len(f.symbols) = new
  BY AddSymbolFacts
<1>2. e = f
  OBVIOUS
<1> HIDE DEF f, new
<1> QED BY <1>1, <1>2 DEF Defines

\* The fields of an object with bytes more.
LEMMA AllocateFacts ==
  ASSUME NEW o, WellFormed(o), NEW a, NEW end \in Nat,
         PlaceType(a), a.rva \in Nat, a.size \in Nat,
         o.size[a.section] <= a.offset, a.offset + a.size <= end
  PROVE  LET e == Allocate(o, a, end)
         IN  /\ WellFormed(e) /\ Grows(o, e) /\ Places(o, e, a)
             /\ e.symbols = o.symbols /\ e.undefined = o.undefined /\ e.relocs = o.relocs
             /\ e.size = [o.size EXCEPT ![a.section] = end]
<1> DEFINE e == Allocate(o, a, end)
<1>1. e = [size |-> [o.size EXCEPT ![a.section] = end], symbols |-> o.symbols,
           undefined |-> o.undefined, relocs |-> o.relocs, allocs |-> o.allocs \cup {a}]
  <2> DEFINE l == Lengthen(o, a.section, end)
  <2>1. l = [size |-> [o.size EXCEPT ![a.section] = end], symbols |-> o.symbols,
             undefined |-> o.undefined, relocs |-> o.relocs, allocs |-> o.allocs]
    BY DEF WellFormed, Lengthen
  <2>2. e = [l EXCEPT !.allocs = @ \cup {a}]
    BY DEF Allocate
  <2> HIDE DEF l, e
  <2> QED BY <2>1, <2>2
<1>2. /\ e.size = [o.size EXCEPT ![a.section] = end] /\ e.symbols = o.symbols
      /\ e.undefined = o.undefined /\ e.relocs = o.relocs /\ e.allocs = o.allocs \cup {a}
  BY <1>1
<1> HIDE DEF e
<1>3. /\ o.size \in [Sections -> Nat] /\ a.section \in Sections /\ a.offset \in Nat
      /\ e.size \in [Sections -> Nat] /\ e.size[a.section] = end
      /\ \A s \in Sections \ {a.section} : e.size[s] = o.size[s]
  BY <1>2 DEF WellFormed, ObjectType, PlaceType
<1>4. \A s \in Sections : o.size[s] <= e.size[s]
  <2> TAKE s \in Sections
  <2>1. o.size[s] \in Nat /\ o.size[a.section] \in Nat
    BY <1>3
  <2>2. CASE s = a.section
    BY <1>3, <2>1, <2>2
  <2>3. CASE s # a.section
    BY <1>3, <2>1, <2>3
  <2> QED BY <2>2, <2>3
<1>5. Grows(o, e) /\ Places(o, e, a)
  BY <1>2, <1>3, <1>4 DEF Grows, Places
<1>6. ObjectType(e)
  BY <1>2, <1>3 DEF WellFormed, ObjectType
<1>7. WellFormed(e)
  BY <1>1, <1>2, <1>6 DEF WellFormed
<1> QED BY <1>2, <1>5, <1>7 DEF e

\* An allocation as `append_with_padding` makes it.
Appended(o, section, what, rva, size, cleared) ==
  [section |-> section, offset |-> o.size[section], what |-> what,
   rva |-> rva, size |-> size, cleared |-> cleared]

\* What `append_with_padding` leaves of an object.
LEMMA PaddedFacts ==
  ASSUME NEW o, WellFormed(o), NEW section \in Sections, NEW what, NEW rva \in Nat,
         NEW size \in Nat, NEW cleared
  PROVE  LET e == Padded(o, section, what, rva, size, cleared)
             a == Appended(o, section, what, rva, size, cleared)
         IN  /\ WellFormed(e) /\ Grows(o, e) /\ Places(o, e, a)
             /\ e.symbols = o.symbols /\ e.undefined = o.undefined /\ e.relocs = o.relocs
<1> DEFINE a == Appended(o, section, what, rva, size, cleared)
           end == o.size[section] + AlignUp(size, 4)
           e == Padded(o, section, what, rva, size, cleared)
<1>1. o.size[section] \in Nat
  BY DEF WellFormed, ObjectType
<1>2. AlignUp(size, 4) \in Nat /\ size <= AlignUp(size, 4)
  BY AlignUpFacts
<1>3. /\ a.section = section /\ a.offset = o.size[section] /\ a.rva = rva /\ a.size = size
      /\ PlaceType(a)
  BY <1>1 DEF Appended, PlaceType
<1>4. end \in Nat /\ a.offset + a.size <= end /\ o.size[a.section] <= a.offset
  BY <1>1, <1>2, <1>3
<1>5. e = Allocate(o, a, end)
  BY DEF Padded, Appended
<1> HIDE DEF a, end, e
<1>6. a.rva \in Nat /\ a.size \in Nat
  BY <1>3
<1>7. /\ WellFormed(e) /\ Grows(o, e) /\ Places(o, e, a)
      /\ e.symbols = o.symbols /\ e.undefined = o.undefined /\ e.relocs = o.relocs
  <2>1. /\ WellFormed(Allocate(o, a, end)) /\ Grows(o, Allocate(o, a, end))
        /\ Places(o, Allocate(o, a, end), a)
        /\ Allocate(o, a, end).symbols = o.symbols
        /\ Allocate(o, a, end).undefined = o.undefined
        /\ Allocate(o, a, end).relocs = o.relocs
        /\ Allocate(o, a, end).size = [o.size EXCEPT ![a.section] = end]
    BY <1>3, <1>4, <1>6, AllocateFacts
  <2> QED BY <1>5, <2>1
<1> QED BY <1>7 DEF a, e

\* What `symbol_id` finds is a defined symbol of the name, and it finds one
\* wherever there is one.
LEMMA SymbolIdFacts ==
  ASSUME NEW o, WellFormed(o), NEW name
  PROVE  /\ \A n \in SymbolId(o, name) :
              /\ n \in DOMAIN o.symbols /\ o.symbols[n].name = name
              /\ o.symbols[n].section # "undefined"
         /\ \A n \in DOMAIN o.symbols :
              o.symbols[n].name = name /\ o.symbols[n].section # "undefined" =>
                SymbolId(o, name) # {}
<1> DEFINE S == {n \in DOMAIN o.symbols :
                   o.symbols[n].name = name /\ o.symbols[n].section # "undefined"}
<1>1. DOMAIN o.symbols = 1 .. Len(o.symbols) /\ Len(o.symbols) \in Nat
  BY ListDomain DEF WellFormed, ObjectType
<1>2. S \in SUBSET Nat /\ \A n \in S : n <= Len(o.symbols)
  BY <1>1
<1>3. ASSUME S # {} PROVE SymbolId(o, name) # {}
  <2>1. PICK m \in S : \A n \in S : n <= m
    <3> HIDE DEF S
    <3> QED BY <1>1, <1>2, <1>3, GreatestExists
  <2> QED BY <2>1 DEF SymbolId
<1> QED BY <1>3 DEF SymbolId

\* The symbol for an `Extern` location is of the object, and has the name.
LEMMA WithExternFacts ==
  ASSUME NEW o, WellFormed(o), NEW name
  PROVE  LET e == WithExtern(o, name)
             n == The(OrElse(SymbolId(e, name), Undefined(e, name)))
         IN  /\ WellFormed(e) /\ Grows(o, e) /\ OnlyUndefined(o, e)
             /\ e.size = o.size /\ e.relocs = o.relocs /\ e.allocs = o.allocs
             /\ n \in DOMAIN e.symbols /\ e.symbols[n].name = name
<1> DEFINE e == WithExtern(o, name)
           known(f) == OrElse(SymbolId(f, name), Undefined(f, name))
<1>1. ASSUME NEW f, WellFormed(f), known(f) # {}
      PROVE  The(known(f)) \in DOMAIN f.symbols /\ f.symbols[The(known(f))].name = name
  <2>1. The(known(f)) \in known(f)
    BY <1>1 DEF The
  <2>2. known(f) \subseteq SymbolId(f, name) \cup Undefined(f, name)
    BY DEF OrElse
  <2>3. \A n \in Undefined(f, name) : n \in DOMAIN f.symbols /\ f.symbols[n].name = name
    BY <1>1 DEF Undefined, WellFormed, ObjectType
  <2>4. \A n \in SymbolId(f, name) : n \in DOMAIN f.symbols /\ f.symbols[n].name = name
    BY <1>1, SymbolIdFacts
  <2> HIDE DEF known
  <2> QED BY <2>1, <2>2, <2>3, <2>4
<1>2. CASE SymbolId(o, name) \cup Undefined(o, name) # {}
  <2>1. e = o
    BY <1>2 DEF WithExtern
  <2>2. known(e) # {}
    BY <1>2, <2>1 DEF OrElse
  <2>3. OnlyUndefined(o, o)
    BY DEF OnlyUndefined
  <2> HIDE DEF e
  <2> QED BY <1>1, <2>1, <2>2, <2>3, GrowsSelf DEF e
<1>3. CASE SymbolId(o, name) \cup Undefined(o, name) = {}
  <2> DEFINE a == AddSymbol(o, name, "undefined", 0)
             new == Len(o.symbols) + 1
  <2>1. e = [a EXCEPT !.undefined = Insert(@, name, new)]
    BY <1>3 DEF WithExtern
  <2>2. /\ WellFormed(a) /\ Grows(o, a)
        /\ a.size = o.size /\ a.undefined = o.undefined
        /\ a.relocs = o.relocs /\ a.allocs = o.allocs
        /\ new \notin DOMAIN o.symbols /\ DOMAIN a.symbols = DOMAIN o.symbols \cup {new}
        /\ a.symbols[new] = [name |-> name, section |-> "undefined", value |-> 0]
    BY AddSymbolFacts
  <2> HIDE DEF e, a, new
  <2>3. e = [size |-> a.size, symbols |-> a.symbols,
             undefined |-> Insert(a.undefined, name, new),
             relocs |-> a.relocs, allocs |-> a.allocs]
    BY <2>1, <2>2 DEF WellFormed
  <2>4. /\ e.size = a.size /\ e.symbols = a.symbols /\ e.relocs = a.relocs
        /\ e.allocs = a.allocs /\ e.undefined = Insert(a.undefined, name, new)
    BY <2>3
  <2>5. /\ DOMAIN e.undefined = DOMAIN a.undefined \cup {name} /\ e.undefined[name] = new
        /\ \A m \in DOMAIN a.undefined \ {name} : e.undefined[m] = a.undefined[m]
    BY <2>4 DEF Insert
  <2>6. ObjectType(e) /\ \A m \in DOMAIN e.undefined : e.symbols[e.undefined[m]].name = m
    BY <2>2, <2>4, <2>5 DEF WellFormed, ObjectType
  <2>7. WellFormed(e)
    BY <2>3, <2>4, <2>6 DEF WellFormed
  <2>8. Grows(o, e) /\ OnlyUndefined(o, e)
    BY <2>2, <2>4 DEF Grows, OnlyUndefined
  <2>9. known(e) # {}
    BY <2>5 DEF OrElse, Undefined
  <2> HIDE DEF known
  <2> QED BY <1>1, <2>2, <2>4, <2>7, <2>8, <2>9 DEF e, known
<1> QED BY <1>2, <1>3

\* The fields of an object with a relocation more.
LEMMA AddRelocationFacts ==
  ASSUME NEW o, WellFormed(o), NEW symbol \in DOMAIN o.symbols, NEW at, PlaceType(at),
         NEW encoding \in Encodings
  PROVE  LET e == AddRelocation(o, symbol, at, encoding)
         IN  /\ WellFormed(e) /\ Grows(o, e)
             /\ Relocates(o, e, at, o.symbols[symbol].name)
             /\ e.size = o.size /\ e.symbols = o.symbols /\ e.allocs = o.allocs
<1> DEFINE x == [section |-> at.section, offset |-> at.offset,
                 symbol |-> symbol, encoding |-> encoding]
           e == AddRelocation(o, symbol, at, encoding)
           new == Len(o.relocs) + 1
<1>1. e = [size |-> o.size, symbols |-> o.symbols, undefined |-> o.undefined,
           relocs |-> Append(o.relocs, x), allocs |-> o.allocs]
  <2>1. PICK a, b, c, d, f : o = [size |-> a, symbols |-> b, undefined |-> c,
                                  relocs |-> d, allocs |-> f]
    BY DEF WellFormed
  <2>2. e = [[size |-> a, symbols |-> b, undefined |-> c, relocs |-> d, allocs |-> f]
               EXCEPT !.relocs = Append(o.relocs, x)]
    BY <2>1 DEF AddRelocation
  <2>3. /\ o.size = a /\ o.symbols = b /\ o.undefined = c /\ o.allocs = f
    BY <2>1
  <2> HIDE DEF x, e
  <2> QED BY <2>2, <2>3, WithRelocs
<1>2. /\ e.size = o.size /\ e.symbols = o.symbols /\ e.undefined = o.undefined
      /\ e.relocs = Append(o.relocs, x) /\ e.allocs = o.allocs
  BY <1>1
<1>3. /\ x.section = at.section /\ x.offset = at.offset /\ x.symbol = symbol
      /\ x.encoding = encoding /\ PlaceType(x)
  BY DEF PlaceType
<1> HIDE DEF x, e
<1>4. /\ IsList(e.relocs) /\ DOMAIN e.relocs = DOMAIN o.relocs \cup {new}
      /\ new \notin DOMAIN o.relocs
      /\ \A n \in DOMAIN o.relocs : e.relocs[n] = o.relocs[n]
      /\ e.relocs[new] = x
  BY <1>2, AppendFacts DEF WellFormed, ObjectType
<1> HIDE DEF new
<1>5. Grows(o, e) /\ Relocates(o, e, at, o.symbols[symbol].name)
  BY <1>2, <1>3, <1>4, GrowsSelf DEF Grows, Relocates
<1>6. ObjectType(e)
  <2>1. \A n \in DOMAIN e.relocs :
          /\ PlaceType(e.relocs[n]) /\ e.relocs[n].encoding \in Encodings
          /\ e.relocs[n].symbol \in DOMAIN e.symbols
    BY <1>2, <1>3, <1>4 DEF WellFormed, ObjectType
  <2> QED BY <1>2, <1>4, <2>1 DEF WellFormed, ObjectType
<1>7. WellFormed(e)
  BY <1>1, <1>2, <1>6 DEF WellFormed
<1> QED BY <1>2, <1>5, <1>7 DEF e

\* A reference by name: a relocation, and perhaps an undefined symbol.
LEMMA ReferFacts ==
  ASSUME NEW o, WellFormed(o), NEW name, NEW at, PlaceType(at), NEW encoding \in Encodings
  PROVE  LET e == Refer(o, name, at, encoding)
         IN  /\ WellFormed(e) /\ Grows(o, e) /\ Relocates(o, e, at, name)
             /\ OnlyUndefined(o, e) /\ e.size = o.size /\ e.allocs = o.allocs
<1> DEFINE w == WithExtern(o, name)
           n == The(OrElse(SymbolId(w, name), Undefined(w, name)))
           e == Refer(o, name, at, encoding)
<1>1. /\ WellFormed(w) /\ Grows(o, w) /\ OnlyUndefined(o, w)
      /\ w.size = o.size /\ w.relocs = o.relocs /\ w.allocs = o.allocs
      /\ n \in DOMAIN w.symbols /\ w.symbols[n].name = name
  BY WithExternFacts
<1>2. e = AddRelocation(w, n, at, encoding)
  BY DEF Refer
<1> HIDE DEF w, n, e
<1>3. /\ WellFormed(e) /\ Grows(w, e) /\ Relocates(w, e, at, w.symbols[n].name)
      /\ e.size = w.size /\ e.symbols = w.symbols /\ e.allocs = w.allocs
  BY <1>1, <1>2, AddRelocationFacts
<1>4. Grows(o, e)
  BY <1>1, <1>3, GrowsOn
<1>5. Relocates(o, e, at, name) /\ OnlyUndefined(o, e)
  BY <1>1, <1>3 DEF Relocates, OnlyUndefined
<1> QED BY <1>1, <1>3, <1>4, <1>5 DEF e

\* A copy: an allocation of its own, and a relocation against it.
LEMMA CopyFacts ==
  ASSUME NEW o, WellFormed(o), NEW section \in Sections, NEW what, NEW rva \in Nat,
         NEW size \in Nat, NEW name, NEW at, PlaceType(at)
  PROVE  LET e == Copy(o, section, what, rva, size, name, at)
         IN  /\ WellFormed(e) /\ Grows(o, e) /\ Relocates(o, e, at, name)
             /\ Places(o, e, Appended(o, section, what, rva, size, {}))
<1> DEFINE c == Padded(o, section, what, rva, size, {})
           a == Appended(o, section, what, rva, size, {})
           d == AddSymbol(c, name, section, o.size[section])
           e == Copy(o, section, what, rva, size, name, at)
<1>1. /\ WellFormed(c) /\ Grows(o, c) /\ Places(o, c, a)
      /\ c.symbols = o.symbols /\ c.undefined = o.undefined /\ c.relocs = o.relocs
  BY PaddedFacts
<1>2. o.size[section] \in Nat
  BY DEF WellFormed, ObjectType
<1>3. e = AddRelocation(d, Len(d.symbols), at, "Absolute")
  BY DEF Copy
<1> HIDE DEF c, a, e
<1>4. /\ WellFormed(d) /\ Grows(c, d) /\ d.size = c.size /\ d.relocs = c.relocs
      /\ d.allocs = c.allocs /\ Len(d.symbols) \in DOMAIN d.symbols
      /\ d.symbols[Len(d.symbols)].name = name
  <2> DEFINE value == o.size[section]
  <2>1. value \in Nat /\ section \in Sections \cup {"undefined"}
    BY <1>2
  <2>2. d = AddSymbol(c, name, section, value)
    OBVIOUS
  <2> HIDE DEF value, d
  <2> QED BY <1>1, <2>1, <2>2, DefinesFacts
<1> HIDE DEF d
<1>5. /\ WellFormed(e) /\ Grows(d, e) /\ Relocates(d, e, at, name)
      /\ e.size = d.size /\ e.symbols = d.symbols /\ e.allocs = d.allocs
  BY <1>3, <1>4, AddRelocationFacts DEF Encodings
<1>6. Grows(o, d)
  BY <1>1, <1>4, GrowsOn
<1>7. Grows(o, e)
  BY <1>4, <1>5, <1>6, GrowsOn
<1>8. Relocates(o, e, at, name)
  BY <1>1, <1>4, <1>5 DEF Relocates
<1>9. Places(o, e, a)
  BY <1>1, <1>4, <1>5 DEF Places
<1> QED BY <1>5, <1>7, <1>8, <1>9 DEF e, a

-----------------------------------------------------------------------------
(* The inductive invariant.                                                *)

\* Every object is one.
ObjectsFormed == \A name \in DOMAIN objects : WellFormed(objects[name])

\* A string to copy has a length.
StringKnown(r) == r.kind = "ConjuredString" => input.strings[r.base] \in Nat

\* Of every relocation recorded, and of the one being made.
StringsKnown ==
  /\ \A s \in DOMAIN relocs_rva : StringKnown(relocs_rva[s])
  /\ \A c \in call : StringKnown(c.reloc)

\* What was handed over stays, against the symbol it was.
Handed ==
  \A s \in DOMAIN input.relocs :
    /\ s \in DOMAIN relocs_rva
    /\ relocs_rva[s].kind = input.relocs[s].kind
    /\ relocs_rva[s].base = input.relocs[s].base

\* What a loop has left is of the list it walks.
Left(list) == \A n \in DOMAIN todo : \E m \in DOMAIN list : todo[n] = list[m]

\* The loops walk the definitions, whose RVAs differ, twice, then the functions.
Walking ==
  /\ phase \in {"definitions", "data relocations"} =>
       /\ Left(input.definitions)
       /\ \A m, n \in DOMAIN todo : todo[m].rva = todo[n].rva => m = n
  /\ phase = "functions" => Left(input.functions)

\* An allocation is of a definition of its object, of a function that has an
\* object, whose branches are recorded, or of a copy.
OfDefinition(d, a) ==
  a.what = "definition" /\ a.rva = d.rva /\ a.size = d.size /\ a.section = d.storage

\* The branches in its bytes were cleared, and are recorded.
OfFunction(f, a) ==
  /\ a.what = "function" /\ a.rva = f.rva /\ a.size = f.size /\ a.section = "text"
  /\ FunctionLocation(f) # {} /\ a.cleared = Cleared(f)
  /\ \A s \in Cleared(f) : s \in DOMAIN relocs_rva /\ relocs_rva[s].encoding = "Relative"

\* What an allocation of an object may be of.
Accounted(name, a) ==
  \/ \E m \in DOMAIN input.definitions :
       LET d == input.definitions[m]
       IN  d.object = name /\ OfDefinition(d, a) /\ a.offset % d.alignment = 0
  \/ \E n \in DOMAIN input.functions : OfFunction(input.functions[n], a)
  \/ a.what \in Copied

\* Two ranges share no byte, if they have any.
Disjoint(a, b) ==
  a.section = b.section /\ a.size > 0 /\ b.size > 0 =>
    a.offset + a.size <= b.offset \/ b.offset + b.size <= a.offset

\* Allocations and relocations lie within their section, allocations apart.
LaidOut(name, o) ==
  /\ \A a \in o.allocs : Accounted(name, a) /\ a.offset + a.size <= o.size[a.section]
  /\ \A a, b \in o.allocs : a # b => Disjoint(a, b)
  /\ \A n \in DOMAIN o.relocs : o.relocs[n].offset < o.size[o.relocs[n].section]

\* Every object is laid out so.
AllLaidOut == \A name \in DOMAIN objects : LaidOut(name, objects[name])

\* A definition is allocated once.
OneAllocation ==
  \A name, other \in DOMAIN objects :
    \A a \in objects[name].allocs, b \in objects[other].allocs :
      a.what = "definition" /\ b.what = "definition" /\ a.rva = b.rva =>
        name = other /\ a = b

\* Until the functions come there are definitions only, each under its name,
\* and a defined name is defined once.
Named(o, a) ==
  \E n \in DOMAIN o.symbols :
    /\ o.symbols[n].name = input.symbol_name[a.rva]
    /\ o.symbols[n].section = a.section /\ o.symbols[n].value = a.offset

\* No name is defined twice.
DefinedOnce(o) ==
  \A m, n \in {x \in DOMAIN o.symbols : o.symbols[x].section # "undefined"} :
    o.symbols[m].name = o.symbols[n].name => m = n

\* A definition has an allocation in its object.
Placed(d) ==
  d.object \in DOMAIN objects /\ \E a \in objects[d.object].allocs : OfDefinition(d, a)

\* Nothing but definitions, each to be found by its name.
OnlyDefinitions ==
  \A name \in DOMAIN objects :
    /\ DefinedOnce(objects[name])
    /\ \A a \in objects[name].allocs : a.what = "definition" /\ Named(objects[name], a)

\* A definition that has an allocation is not come to again.
NotLeft ==
  \A name \in DOMAIN objects : \A a \in objects[name].allocs :
    \A n \in DOMAIN todo : todo[n].rva # a.rva

\* A definition has been placed or is yet to be come to.
AllPlaced ==
  \A m \in DOMAIN input.definitions :
    \/ Placed(input.definitions[m])
    \/ phase = "definitions" /\ \E n \in DOMAIN todo : todo[n] = input.definitions[m]

\* What holds until the functions come.
Defining ==
  phase \in {"definitions", "data relocations"} =>
    OnlyDefinitions /\ AllPlaced /\ (phase = "definitions" => NotLeft)

\* A relative relocation is a branch of a function that has an object.
BranchesKnown ==
  \A s \in DOMAIN relocs_rva : relocs_rva[s].encoding = "Relative" =>
    \E n \in DOMAIN input.functions :
      FunctionLocation(input.functions[n]) # {} /\ s \in Cleared(input.functions[n])

\* The place a site of an allocation has moved to.
Place(a, s) == [section |-> a.section, offset |-> a.offset + (s - a.rva)]

\* The allocation of a body, in which its sites are.
BodyOf(b, a) ==
  /\ a \in objects[b.object].allocs
  /\ a.section = b.section /\ a.offset = b.offset /\ a.rva = b.rva
  /\ a.what \in {"definition", "function"}
  /\ \A s \in sites : s < a.rva + a.size

\* A call is for a site of the body that has been taken, or for a copy.
ForSite(b, c) ==
  \E a \in objects[b.object].allocs, s \in DOMAIN relocs_rva \ sites :
    /\ BodyOf(b, a) /\ a.rva <= s /\ s < a.rva + a.size
    /\ c.at = Place(a, s) /\ c.reloc = relocs_rva[s]

\* A call for the word that the call before copied.
ForWord(b, c) ==
  \E a \in objects[b.object].allocs :
    /\ a.what = "word" /\ a.size = 4 /\ a.rva \in DOMAIN relocs_rva
    /\ c.at = Place(a, a.rva) /\ c.reloc = relocs_rva[a.rva]

\* What the walk over a body knows of the body, and of the call it makes.
Relocating ==
  \A b \in body :
    /\ phase # "definitions"
    /\ phase = "data relocations" => \A n \in DOMAIN todo : todo[n].rva # b.rva
    /\ \E a \in objects[b.object].allocs :
         /\ BodyOf(b, a)
         /\ phase = "functions" /\ ~Idle => a.what = "function"
    /\ \A c \in call : ForSite(b, c) \/ ForWord(b, c)

\* The place of a site is yet to be come to.
InBody(name, a) ==
  \E b \in body : b.object = name /\ BodyOf(b, a)

\* By its loop, by the walk over its body, or by the call being made.
Awaited(name, a, s) ==
  \/ a.what = "definition" /\ phase = "definitions"
  \/ /\ a.what = "definition" /\ phase = "data relocations"
     /\ \E n \in DOMAIN todo : todo[n].rva = a.rva
  \/ InBody(name, a) /\ s \in sites
  \/ \E b \in body : b.object = name /\ \E c \in call : c.at = Place(a, s)

\* The relocation of a place is there, and is the only one.
RelocatedTo(o, a, s) ==
  \E n \in DOMAIN o.relocs :
    /\ RelocsAt(o, a, s) = {n}
    /\ o.symbols[o.relocs[n].symbol].name = NameOf(relocs_rva[s])

\* The stage has not failed.
Running == phase \in {"definitions", "data relocations", "functions", "built"}

\* A place has its relocation if its site has one and has been come to, and has
\* none before, or if the site has none.
EmittedAt(name, a, s) ==
  /\ s \notin DOMAIN relocs_rva \/ Awaited(name, a, s) =>
       RelocsAt(objects[name], a, s) = {}
  /\ s \in DOMAIN relocs_rva /\ ~Awaited(name, a, s) =>
       RelocatedTo(objects[name], a, s)

\* The image bytes of an allocation.
Within(a) == a.rva .. a.rva + a.size - 1

\* A site of the earlier stage, or in a body that no function lies over.
Certain(a, s) == s \in DOMAIN input.relocs \/ ~Overlapped(a)

\* So it is with every such site of every definition and every function.
Emitted ==
  Running =>
    \A name \in DOMAIN objects : \A a \in objects[name].allocs :
      a.what \notin Copied =>
        \A s \in Within(a) : Certain(a, s) => EmittedAt(name, a, s)

\* A word that was copied is relocated when it is followed, unless the chain has
\* been there.
Pending(name, a) ==
  \E b \in body : b.object = name /\ \E c \in call : c.at = Place(a, a.rva)

\* A word followed has its relocation; one not followed is on a cycle.
LinkedAt(name, a) ==
  LET here == RelocsAt(objects[name], a, a.rva)
  IN  IF Pending(name, a) THEN here = {}
      ELSE (\E n \in DOMAIN objects[name].relocs : here = {n}) \/ (here = {} /\ OnCycle(a.rva))

\* So it is with every word copied from a site.
Linked ==
  \A name \in DOMAIN objects : \A a \in objects[name].allocs :
    a.what = "word" =>
      a.size = 4 /\ (a.rva \in DOMAIN relocs_rva /\ ~Overlapped(a) => LinkedAt(name, a))

\* The words copied on a chain are the targets expanded, but for the last.
ChainCounted ==
  /\ Len(stack) <= Cardinality(visited) + 1
  /\ call # {} => Len(stack) = Cardinality(visited)

\* Each was pointed at by the one before, and the call is for the last.
ChainLinked ==
  call # {} =>
    /\ visited = {stack[n] : n \in DOMAIN stack}
    /\ \A n \in DOMAIN stack : n + 1 \in DOMAIN stack => stack[n + 1] \in Pointee(stack[n])
    /\ \A c \in call : stack # <<>> => c.reloc = relocs_rva[stack[Len(stack)]]

\* Nothing is left when the stage has ended.
Ended == phase = "built" => Idle

\* A definition has been emitted, and is to be found under its name.
Emission(d) ==
  /\ d.object \in DOMAIN objects
  /\ \E a \in objects[d.object].allocs : OfDefinition(d, a) /\ Named(objects[d.object], a)

\* So has every definition once their loop has ended.
DefinitionsEmitted ==
  phase \in {"data relocations", "functions", "built"} =>
    \A m \in DOMAIN input.definitions : Emission(input.definitions[m])

\* If nothing handed over is conjured, nothing is copied.
NothingCopied ==
  (\A s \in DOMAIN input.relocs : ~Conjured(input.relocs[s])) =>
    /\ \A s \in DOMAIN relocs_rva : ~Conjured(relocs_rva[s])
    /\ \A c \in call : ~Conjured(c.reloc)
    /\ \A name \in DOMAIN objects : \A a \in objects[name].allocs : a.what \notin Copied

\* A definition is put where the order of emission has it, at its candidate
\* offset.
PutAt(m, offset) ==
  /\ offset = PlacedAt(input.definitions, m, input.pad_rdata)
  /\ input.definitions[m].section_offset \subseteq {offset}

\* The sections end where the first k definitions have them end.
EndAfter(k) ==
  \A name : \A section \in Sections :
    Object(name).size[section]
      = SectionEnd(input.definitions, name, section, input.pad_rdata)[k]

\* The definitions that have been emitted are the first k.
InOrder ==
  phase = "definitions" =>
    \E k \in Nat : /\ k + Len(todo) = Len(input.definitions)
                   /\ \A n \in DOMAIN todo : todo[n] = input.definitions[k + n]
                   /\ EndAfter(k)

\* A definition in an object is where it is to be put.
PutInOrder ==
  \A name \in DOMAIN objects : \A a \in objects[name].allocs : a.what = "definition" =>
    \A m \in DOMAIN input.definitions :
      input.definitions[m].rva = a.rva => PutAt(m, a.offset)

\* A topology mismatch has been found in what the order of emission comes to.
MismatchFound ==
  phase = "topology mismatch" =>
    \E m \in DOMAIN input.definitions : \E expected \in input.definitions[m].section_offset :
      expected # PlacedAt(input.definitions, m, input.pad_rdata)

\* What the operators on objects need of a state.
Formed == TypeOK /\ ObjectsFormed /\ StringsKnown /\ Handed /\ Walking

\* The inductive invariant.
IInv ==
  /\ Formed /\ AllLaidOut /\ OneAllocation /\ Defining /\ BranchesKnown
  /\ Relocating /\ Emitted /\ Linked /\ ChainCounted /\ ChainLinked
  /\ Ended /\ ReviewedDataIsNotPadded /\ DefinitionsEmitted /\ NothingCopied
  /\ InOrder /\ PutInOrder /\ MismatchFound

-----------------------------------------------------------------------------
(* What the steps do.                                                      *)

\* A step that leaves all objects but one as they are, and makes that one grow.
Updates(name, e) ==
  /\ DOMAIN objects' = DOMAIN objects \cup {name} /\ objects'[name] = e
  /\ \A other \in DOMAIN objects \ {name} : objects'[other] = objects[other]
  /\ WellFormed(Object(name)) /\ WellFormed(e) /\ Grows(Object(name), e)

\* One that adds an allocation and a symbol for it.
Allots(name, e, a, symbol) ==
  /\ Updates(name, e) /\ Places(Object(name), e, a) /\ e.relocs = Object(name).relocs
  /\ Defines(Object(name), e, symbol, a.section, a.offset)

\* One call of `add_relocation_at`: a relocation is added at its place, and
\* perhaps a copy, of a string or of a word that may be followed.
Refers(o, e) ==
  /\ OnlyUndefined(o, e) /\ e.size = o.size /\ e.allocs = o.allocs
  /\ call' = {} /\ UNCHANGED <<stack, visited>>

\* A string ends the chain; a word is followed.
CopiesInto(o, e, r, a) ==
  /\ phase = "functions" /\ Places(o, e, a) /\ a.offset = o.size[a.section]
  /\ Conjured(r)
  /\ \/ a.what = "string" /\ call' = {} /\ UNCHANGED <<stack, visited>>
     \/ /\ a.what = "word" /\ a.size = 4 /\ a.rva = r.target /\ Word(r)
        /\ Follow(r, Place(a, a.rva)) /\ stack' = Append(stack, a.rva)

\* The call made for a relocation, in the object of a body.
Emits(c, b, e) ==
  LET o == objects[b.object]
  IN  /\ c \in call /\ b \in body
      /\ b.object \in DOMAIN objects /\ PlaceType(c.at) /\ c.reloc \in RelocType
      /\ Updates(b.object, e) /\ Relocates(o, e, c.at, NameOf(c.reloc))
      /\ Refers(o, e) \/ \E a : CopiesInto(o, e, c.reloc, a)
      /\ UNCHANGED <<input, relocs_rva, phase, todo, body, sites>>

\* The object of a name, empty if there is none yet.
LEMMA ObjectFacts ==
  ASSUME Formed
  PROVE  /\ \A name : WellFormed(Object(name))
         /\ \A name \in DOMAIN objects : Object(name) = objects[name]
         /\ \A name : name \notin DOMAIN objects => Object(name) = Empty
<1>1. WellFormed(Empty)
  BY EmptyFacts DEF Formed, TypeOK
<1> QED BY <1>1 DEF Object, Formed, ObjectsFormed

\* Inserting an object disturbs no other.
LEMMA InsertFacts ==
  ASSUME NEW name, NEW e, objects' = Insert(objects, name, e)
  PROVE  /\ DOMAIN objects' = DOMAIN objects \cup {name} /\ objects'[name] = e
         /\ \A other \in DOMAIN objects \ {name} : objects'[other] = objects[other]
BY DEF Insert

\* The type of a definition of the input.
LEMMA DefinitionsTyped ==
  ASSUME IsInput(input), NEW m \in DOMAIN input.definitions
  PROVE  LET d == input.definitions[m]
         IN  /\ d.rva \in Nat /\ d.size \in Nat /\ d.size > 0
             /\ d.alignment \in Nat \ {0} /\ d.storage \in Sections
BY DEF IsInput, IsDefinition, Sections

\* `add_data_definition` allots the next definition its bytes and its symbol.
LEMMA DefinitionStep ==
  ASSUME Formed, AddDataDefinition
  PROVE  \E m, e, a :
           LET d == input.definitions[m]
           IN  /\ m \in DOMAIN input.definitions
               /\ Head(todo) = d /\ ~Duplicate(d)
               /\ Allots(d.object, e, a, DefinitionName(d))
               /\ OfDefinition(d, a) /\ a.offset % d.alignment = 0
               /\ a.offset = DefinitionOffset(d) /\ ~Misplaced(d)
               /\ e.size = [Object(d.object).size EXCEPT ![d.storage] = a.offset + d.size]
<1>1. IsInput(input) /\ IsList(todo) /\ Left(input.definitions) /\ todo # <<>>
  BY DEF Formed, TypeOK, Walking, AddDataDefinition
<1>2. PICK m \in DOMAIN input.definitions : Head(todo) = input.definitions[m]
  <2>1. 1 \in DOMAIN todo /\ Head(todo) = todo[1]
    BY <1>1, TailOfList
  <2> QED BY <1>1, <2>1 DEF Left
<1> DEFINE d == input.definitions[m]
           o == Object(d.object)
           offset == DefinitionOffset(d)
           a == [section |-> d.storage, offset |-> offset, what |-> "definition",
                 rva |-> d.rva, size |-> d.size, cleared |-> {}]
           p == Allocate(o, a, offset + d.size)
           e == AddSymbol(p, DefinitionName(d), d.storage, offset)
<1>3. /\ d.rva \in Nat /\ d.size \in Nat /\ d.size > 0 /\ d.alignment \in Nat \ {0}
      /\ d.storage \in Sections
  BY <1>1, DefinitionsTyped
<1>4. objects' = Insert(objects, d.object, e) /\ ~Duplicate(d) /\ ~Misplaced(d)
  BY <1>2 DEF AddDataDefinition
<1>5. WellFormed(o)
  BY ObjectFacts
<1>6. /\ offset \in Nat /\ o.size[d.storage] <= offset /\ offset % d.alignment = 0
  <2>1. o.size[d.storage] \in Nat
    BY <1>3, <1>5 DEF WellFormed, ObjectType
  <2>2. offset = AlignUp(o.size[d.storage], d.alignment)
    BY DEF DefinitionOffset
  <2> HIDE DEF offset, o, d
  <2> QED BY <1>3, <2>1, <2>2, AlignUpFacts
<1>7. /\ a.section = d.storage /\ a.offset = offset /\ a.rva = d.rva /\ a.size = d.size
      /\ PlaceType(a) /\ OfDefinition(d, a)
  BY <1>3, <1>6 DEF PlaceType, OfDefinition
<1>8. o = Object(d.object) /\ offset = DefinitionOffset(d)
  OBVIOUS
<1> HIDE DEF a, o, offset, d
<1>9. /\ WellFormed(p) /\ Grows(o, p) /\ Places(o, p, a)
      /\ p.symbols = o.symbols /\ p.relocs = o.relocs
      /\ p.size = [o.size EXCEPT ![a.section] = offset + d.size]
  <2> DEFINE end == offset + d.size
  <2>1. end \in Nat /\ a.offset + a.size <= end /\ o.size[a.section] <= a.offset
    BY <1>3, <1>6, <1>7
  <2>2. a.rva \in Nat /\ a.size \in Nat
    BY <1>3, <1>7
  <2> HIDE DEF end
  <2>3. /\ WellFormed(Allocate(o, a, end)) /\ Grows(o, Allocate(o, a, end))
        /\ Places(o, Allocate(o, a, end), a)
        /\ Allocate(o, a, end).symbols = o.symbols /\ Allocate(o, a, end).relocs = o.relocs
        /\ Allocate(o, a, end).size = [o.size EXCEPT ![a.section] = end]
    BY <1>5, <1>7, <2>1, <2>2, AllocateFacts
  <2> QED BY <2>3 DEF end
<1> HIDE DEF p
<1>10. /\ WellFormed(e) /\ Grows(p, e) /\ e.size = p.size
       /\ e.relocs = p.relocs /\ e.allocs = p.allocs
       /\ Defines(p, e, DefinitionName(d), d.storage, offset)
  <2>1. d.storage \in Sections \cup {"undefined"}
    BY <1>3
  <2> DEFINE n == DefinitionName(d)
  <2>2. e = AddSymbol(p, n, d.storage, offset)
    OBVIOUS
  <2> HIDE DEF n, e
  <2>3. /\ WellFormed(e) /\ Grows(p, e) /\ e.size = p.size
        /\ e.relocs = p.relocs /\ e.allocs = p.allocs
        /\ Defines(p, e, n, d.storage, offset)
    BY <1>6, <1>9, <2>1, <2>2, DefinesFacts
  <2> QED BY <2>3 DEF n
<1> HIDE DEF e
<1>11. Grows(o, e)
  BY <1>5, <1>9, <1>10, GrowsOn
<1>12. Updates(d.object, e)
  BY <1>4, <1>5, <1>8, <1>10, <1>11, InsertFacts DEF Updates
<1>13. Places(o, e, a)
  BY <1>9, <1>10 DEF Places
<1>14. Allots(d.object, e, a, DefinitionName(d))
  BY <1>7, <1>8, <1>9, <1>10, <1>12, <1>13 DEF Allots, Defines
<1>15. e.size = [Object(d.object).size EXCEPT ![d.storage] = a.offset + d.size]
  BY <1>7, <1>8, <1>9, <1>10
<1>16. a.offset = DefinitionOffset(d)
  BY <1>7, <1>8
<1>17. /\ m \in DOMAIN input.definitions /\ Head(todo) = d /\ ~Duplicate(d)
       /\ Allots(d.object, e, a, DefinitionName(d)) /\ OfDefinition(d, a)
       /\ a.offset % d.alignment = 0 /\ a.offset = DefinitionOffset(d) /\ ~Misplaced(d)
       /\ e.size = [Object(d.object).size EXCEPT ![d.storage] = a.offset + d.size]
  <2>1. Head(todo) = d
    BY <1>2 DEF d
  <2> QED BY <1>4, <1>6, <1>7, <1>14, <1>15, <1>16, <2>1
<1> DEFINE Put(i, g, h) ==
             LET c == input.definitions[i]
             IN  /\ i \in DOMAIN input.definitions
                 /\ Head(todo) = c /\ ~Duplicate(c)
                 /\ Allots(c.object, g, h, DefinitionName(c))
                 /\ OfDefinition(c, h) /\ h.offset % c.alignment = 0
                 /\ h.offset = DefinitionOffset(c) /\ ~Misplaced(c)
                 /\ g.size = [Object(c.object).size EXCEPT ![c.storage] = h.offset + c.size]
<1> HIDE DEF offset, o, a
<1>18. Put(m, e, a)
  BY <1>17, Zenon DEF d
<1>19. \E i, g, h : Put(i, g, h)
  <2> HIDE DEF Put
  <2> QED BY <1>18
<1> QED BY <1>19, Zenon

\* The type of a function of the input.
LEMMA FunctionsTyped ==
  ASSUME IsInput(input), NEW n \in DOMAIN input.functions
  PROVE  IsFunction(input.functions[n])
BY DEF IsInput

\* The displacements of a function's branches are in it, and there is a branch
\* for each.
LEMMA BranchFacts ==
  ASSUME NEW f, IsFunction(f)
  PROVE  /\ IsFiniteSet(Cleared(f)) /\ Cleared(f) \subseteq Nat
         /\ \A s \in Cleared(f) :
              /\ f.rva <= s /\ s + 4 <= f.rva + f.size
              /\ \E b \in Outward(f) : BranchSite(f, b) = s /\ Branches(f)[s] = Branch(b)
         /\ DOMAIN Branches(f) = Cleared(f)
<1> DEFINE site == [b \in Outward(f) |-> BranchSite(f, b)]
<1>1. Cleared(f) = {site[b] : b \in Outward(f)} /\ DOMAIN Branches(f) = Cleared(f)
  BY DEF Cleared, Branches
<1>2. IsFiniteSet(Outward(f))
  <2>1. IsFiniteSet(f.branches) /\ Outward(f) \subseteq f.branches
    BY DEF IsFunction, Outward
  <2> QED BY <2>1, FS_Subset
<1>3. IsFiniteSet(Cleared(f))
  <2>1. site \in Surjection(Outward(f), Cleared(f))
    BY <1>1 DEF Surjection
  <2> HIDE DEF site
  <2> QED BY <1>2, <2>1, FS_Surjection
<1>4. \A b \in Outward(f) :
        /\ BranchSite(f, b) \in Nat /\ f.rva <= BranchSite(f, b)
        /\ BranchSite(f, b) + 4 <= f.rva + f.size
  <2> TAKE b \in Outward(f)
  <2>1. /\ f.rva \in Nat /\ f.size \in Nat /\ b.at \in Nat /\ b.len \in Nat
        /\ b.at + b.len <= f.size /\ b.len > 4
    BY DEF IsFunction, Outward
  <2> QED BY <2>1 DEF BranchSite
<1>5. \A s \in Cleared(f) :
        \E b \in Outward(f) : BranchSite(f, b) = s /\ Branches(f)[s] = Branch(b)
  <2> TAKE s \in Cleared(f)
  <2> DEFINE c == CHOOSE b \in Outward(f) : BranchSite(f, b) = s
  <2>1. \E b \in Outward(f) : BranchSite(f, b) = s
    BY <1>1
  <2>2. c \in Outward(f) /\ BranchSite(f, c) = s
    BY <2>1
  <2>3. Branches(f)[s] = Branch(c)
    BY <1>1 DEF Branches, Cleared
  <2> HIDE DEF c
  <2> QED BY <2>2, <2>3
<1> QED BY <1>1, <1>3, <1>4, <1>5

\* What recording a function's branches leaves of the map.
Extended(f) ==
  /\ DOMAIN relocs_rva' = DOMAIN relocs_rva \cup Cleared(f)
  /\ \A s \in DOMAIN relocs_rva \ Cleared(f) : relocs_rva'[s] = relocs_rva[s]
  /\ \A s \in Cleared(f) :
       /\ relocs_rva'[s] \in RelocType
       /\ relocs_rva'[s].encoding = "Relative" /\ relocs_rva'[s].kind = "Function"
  /\ \A s \in DOMAIN relocs_rva :
       /\ relocs_rva'[s].kind = relocs_rva[s].kind
       /\ relocs_rva'[s].base = relocs_rva[s].base

\* Recording branches over what is there changes no callee, unless the
\* assertion has stopped the run.
LEMMA ExtendedFacts ==
  ASSUME NEW f, IsInput(input), IsFunction(f), ~Clash(f),
         relocs_rva' = [s \in DOMAIN relocs_rva \cup DOMAIN Branches(f) |->
                          IF s \in DOMAIN Branches(f) THEN Branches(f)[s] ELSE relocs_rva[s]]
  PROVE  Extended(f)
<1>1. DOMAIN Branches(f) = Cleared(f)
  BY BranchFacts
<1>2. /\ DOMAIN relocs_rva' = DOMAIN relocs_rva \cup Cleared(f)
      /\ \A s \in DOMAIN relocs_rva \ Cleared(f) : relocs_rva'[s] = relocs_rva[s]
      /\ \A s \in Cleared(f) : relocs_rva'[s] = Branches(f)[s]
  BY <1>1
<1>3. ASSUME NEW s \in Cleared(f)
      PROVE  /\ relocs_rva'[s] \in RelocType
             /\ relocs_rva'[s].encoding = "Relative" /\ relocs_rva'[s].kind = "Function"
             /\ s \in DOMAIN relocs_rva =>
                  /\ relocs_rva[s].kind = "Function"
                  /\ relocs_rva[s].base = relocs_rva'[s].base
  <2>1. PICK b \in Outward(f) : BranchSite(f, b) = s /\ Branches(f)[s] = Branch(b)
    BY <1>3, BranchFacts
  <2>2. b.target \in Nat
    BY DEF IsInput, Outward
  <2>3. relocs_rva'[s] = Branch(b)
    BY <1>2, <1>3, <2>1
  <2>4. /\ Branch(b) \in RelocType /\ Branch(b).encoding = "Relative"
        /\ Branch(b).kind = "Function" /\ Branch(b).base = b.target
    BY <2>2 DEF Branch, RelocType, Encodings
  <2>5. s \in DOMAIN relocs_rva =>
          relocs_rva[s].kind = "Function" /\ relocs_rva[s].base = b.target
    BY <2>1 DEF Clash
  <2> QED BY <2>3, <2>4, <2>5
<1> QED BY <1>2, <1>3 DEF Extended

\* `add_function` allots the next function its bytes and its symbol, and makes
\* it the body.
LEMMA FunctionStep ==
  ASSUME Formed, AddFunction
  PROVE  \E n, name, e, a :
           LET f == input.functions[n]
           IN  /\ n \in DOMAIN input.functions
               /\ Head(todo) = f /\ IsFunction(f) /\ name \in FunctionLocation(f)
               /\ ~Clash(f) /\ Extended(f)
               /\ Allots(name, e, a, FunctionName(f))
               /\ a = Appended(Object(name), "text", "function", f.rva, f.size, Cleared(f))
               /\ body' = {[object |-> name, rva |-> f.rva,
                            section |-> "text", offset |-> a.offset]}
               /\ sites' = {s \in DOMAIN relocs_rva' : f.rva <= s /\ s < f.rva + f.size}
<1>1. IsInput(input) /\ IsList(todo) /\ Left(input.functions) /\ todo # <<>>
  BY DEF Formed, TypeOK, Walking, AddFunction
<1>2. PICK n \in DOMAIN input.functions : Head(todo) = input.functions[n]
  <2>1. 1 \in DOMAIN todo /\ Head(todo) = todo[1]
    BY <1>1, TailOfList
  <2> QED BY <1>1, <2>1 DEF Left
<1> DEFINE f == input.functions[n]
<1>3. IsFunction(f) /\ f.rva \in Nat /\ f.size \in Nat
  BY <1>1, FunctionsTyped DEF IsFunction
<1>4. ~Clash(f) /\ Extended(f)
  <2>1. ~Clash(f)
    BY <1>2 DEF AddFunction
  <2>2. relocs_rva' = [s \in DOMAIN relocs_rva \cup DOMAIN Branches(f) |->
                         IF s \in DOMAIN Branches(f) THEN Branches(f)[s] ELSE relocs_rva[s]]
    BY <1>2 DEF AddFunction
  <2> HIDE DEF f
  <2> QED BY <1>1, <1>3, <2>1, <2>2, ExtendedFacts
<1>5. PICK name \in FunctionLocation(f) :
        /\ objects' = Insert(objects, name,
                             AddSymbol(Padded(Object(name), "text", "function", f.rva,
                                              f.size, Cleared(f)),
                                       FunctionName(f), "text", Object(name).size["text"]))
        /\ body' = {[object |-> name, rva |-> f.rva,
                     section |-> "text", offset |-> Object(name).size["text"]]}
  BY <1>2 DEF AddFunction
<1>6. sites' = {s \in DOMAIN relocs_rva' : f.rva <= s /\ s < f.rva + f.size}
  BY <1>2 DEF AddFunction
<1> DEFINE o == Object(name)
           value == o.size["text"]
           symbol == FunctionName(f)
           p == Padded(o, "text", "function", f.rva, f.size, Cleared(f))
           a == Appended(o, "text", "function", f.rva, f.size, Cleared(f))
           e == AddSymbol(p, symbol, "text", value)
<1>7. WellFormed(o) /\ o = Object(name)
  BY ObjectFacts
<1>8. value \in Nat /\ "text" \in Sections /\ "text" \in Sections \cup {"undefined"}
  BY <1>7 DEF WellFormed, ObjectType, Sections
<1>9. a.section = "text" /\ a.offset = value
  BY DEF Appended
<1>10. objects' = Insert(objects, name, e)
  BY <1>5
<1> HIDE DEF f
<1>11. /\ WellFormed(p) /\ Grows(o, p) /\ Places(o, p, a)
       /\ p.symbols = o.symbols /\ p.relocs = o.relocs
  <2> HIDE DEF o
  <2> QED BY <1>3, <1>7, <1>8, PaddedFacts
<1> HIDE DEF p, symbol, value
<1>12. /\ WellFormed(e) /\ Grows(p, e) /\ e.size = p.size
       /\ e.relocs = p.relocs /\ e.allocs = p.allocs
       /\ Defines(p, e, symbol, "text", value)
  <2>1. e = AddSymbol(p, symbol, "text", value)
    OBVIOUS
  <2> HIDE DEF e
  <2> QED BY <1>8, <1>11, <2>1, DefinesFacts
<1> HIDE DEF e, o, a
<1>13. Grows(o, e)
  BY <1>7, <1>11, <1>12, GrowsOn
<1>14. Updates(name, e)
  BY <1>7, <1>10, <1>12, <1>13, InsertFacts DEF Updates
<1>15. Allots(name, e, a, FunctionName(f))
  <2>1. Places(o, e, a) /\ e.relocs = o.relocs
    BY <1>11, <1>12 DEF Places
  <2>2. Defines(o, e, symbol, a.section, a.offset)
    BY <1>9, <1>11, <1>12 DEF Defines
  <2> QED BY <1>7, <1>14, <2>1, <2>2 DEF Allots, symbol
<1>16. /\ a = Appended(Object(name), "text", "function", f.rva, f.size, Cleared(f))
       /\ body' = {[object |-> name, rva |-> f.rva, section |-> "text", offset |-> a.offset]}
  BY <1>5, <1>9 DEF a, o, value
<1> QED BY <1>2, <1>3, <1>4, <1>5, <1>6, <1>15, <1>16 DEF f

\* Every arm of `add_relocation_at` adds one relocation, at its place.
LEMMA EmitStep ==
  ASSUME Formed, ReferByName \/ CopyString \/ CopyWord
  PROVE  \E c, b, e : Emits(c, b, e)
<1>1. PICK c \in call, b \in body :
        \/ ReferByName /\ ~Copies(c.reloc)
             /\ objects' = [objects EXCEPT ![b.object] =
                              Refer(@, NameOf(c.reloc), c.at, c.reloc.encoding)]
             /\ call' = {} /\ UNCHANGED <<input, relocs_rva, phase, todo, body, sites, stack, visited>>
        \/ CopyString /\ Copies(c.reloc) /\ c.reloc.kind = "ConjuredString"
             /\ objects' = [objects EXCEPT ![b.object] =
                              Copy(@, "rdata", "string", c.reloc.base,
                                   input.strings[c.reloc.base], NameOf(c.reloc), c.at)]
             /\ call' = {} /\ UNCHANGED <<input, relocs_rva, phase, todo, body, sites, stack, visited>>
        \/ CopyWord /\ Copies(c.reloc) /\ Word(c.reloc)
             /\ objects' = [objects EXCEPT ![b.object] =
                              Copy(@, CopySection(c.reloc), "word", c.reloc.target, 4,
                                   NameOf(c.reloc), c.at)]
             /\ Follow(c.reloc,
                  [section |-> CopySection(c.reloc),
                   offset |-> objects[b.object].size[CopySection(c.reloc)]])
             /\ stack' = Append(stack, c.reloc.target)
             /\ UNCHANGED <<input, relocs_rva, phase, todo, body, sites>>
  BY DEF ReferByName, CopyString, CopyWord
<1> DEFINE o == objects[b.object]
           r == c.reloc
           at == c.at
           name == NameOf(r)
<1>2. /\ b.object \in DOMAIN objects /\ PlaceType(c.at) /\ r \in RelocType
      /\ WellFormed(o) /\ o = Object(b.object) /\ StringKnown(r)
  BY ObjectFacts DEF Formed, TypeOK, ObjectsFormed, StringsKnown
<1>3. r.encoding \in Encodings /\ r.base \in Nat /\ r.target \in Nat
  BY <1>2 DEF RelocType
<1>4. UNCHANGED <<input, relocs_rva, phase, todo, body, sites>>
  BY <1>1
<1>5. ASSUME NEW e, objects' = [objects EXCEPT ![b.object] = e], WellFormed(e), Grows(o, e)
      PROVE  Updates(b.object, e)
  <2>1. /\ DOMAIN objects' = DOMAIN objects /\ objects'[b.object] = e
        /\ \A other \in DOMAIN objects \ {b.object} : objects'[other] = objects[other]
    BY <1>2, <1>5
  <2> QED BY <1>2, <1>5, <2>1 DEF Updates
<1>6. CASE ReferByName /\ ~Copies(c.reloc)
             /\ objects' = [objects EXCEPT ![b.object] =
                              Refer(@, NameOf(c.reloc), c.at, c.reloc.encoding)]
             /\ call' = {} /\ UNCHANGED <<input, relocs_rva, phase, todo, body, sites, stack, visited>>
  <2> DEFINE e == Refer(o, name, at, r.encoding)
  <2>1. objects' = [objects EXCEPT ![b.object] = e] /\ call' = {} /\ UNCHANGED <<stack, visited>>
    BY <1>6
  <2> HIDE DEF name, o
  <2>2. /\ WellFormed(e) /\ Grows(o, e) /\ Relocates(o, e, at, name)
        /\ OnlyUndefined(o, e) /\ e.size = o.size /\ e.allocs = o.allocs
    BY <1>2, <1>3, ReferFacts
  <2> HIDE DEF e
  <2>3. Updates(b.object, e) /\ Refers(o, e)
    BY <1>5, <2>1, <2>2 DEF Refers
  <2> QED BY <1>2, <1>4, <2>2, <2>3 DEF Emits, o, name
<1>7. CASE CopyString /\ Copies(c.reloc) /\ c.reloc.kind = "ConjuredString"
             /\ objects' = [objects EXCEPT ![b.object] =
                              Copy(@, "rdata", "string", c.reloc.base,
                                   input.strings[c.reloc.base], NameOf(c.reloc), c.at)]
             /\ call' = {} /\ UNCHANGED <<input, relocs_rva, phase, todo, body, sites, stack, visited>>
  <2> DEFINE size == input.strings[r.base]
             e == Copy(o, "rdata", "string", r.base, size, name, at)
             a == Appended(o, "rdata", "string", r.base, size, {})
  <2>1. /\ objects' = [objects EXCEPT ![b.object] = e] /\ call' = {} /\ UNCHANGED <<stack, visited>>
        /\ phase = "functions" /\ Conjured(r)
    BY <1>7 DEF Copies
  <2>2. size \in Nat /\ "rdata" \in Sections
    BY <1>2, <1>7 DEF StringKnown, Sections
  <2>3. a.what = "string" /\ a.offset = o.size[a.section]
    BY DEF Appended
  <2> HIDE DEF size, name, o
  <2>4. WellFormed(e) /\ Grows(o, e) /\ Relocates(o, e, at, name) /\ Places(o, e, a)
    BY <1>2, <1>3, <2>2, CopyFacts
  <2> HIDE DEF e, a
  <2>5. Updates(b.object, e) /\ CopiesInto(o, e, r, a)
    BY <1>5, <2>1, <2>3, <2>4 DEF CopiesInto
  <2> QED BY <1>2, <1>4, <2>4, <2>5 DEF Emits, o, name
<1>8. CASE CopyWord /\ Copies(c.reloc) /\ Word(c.reloc)
             /\ objects' = [objects EXCEPT ![b.object] =
                              Copy(@, CopySection(c.reloc), "word", c.reloc.target, 4,
                                   NameOf(c.reloc), c.at)]
             /\ Follow(c.reloc,
                  [section |-> CopySection(c.reloc),
                   offset |-> objects[b.object].size[CopySection(c.reloc)]])
             /\ stack' = Append(stack, c.reloc.target)
             /\ UNCHANGED <<input, relocs_rva, phase, todo, body, sites>>
  <2> DEFINE section == CopySection(r)
             e == Copy(o, section, "word", r.target, 4, name, at)
             a == Appended(o, section, "word", r.target, 4, {})
  <2>1. /\ objects' = [objects EXCEPT ![b.object] = e] /\ phase = "functions" /\ Conjured(r) /\ Word(r)
        /\ Follow(r, [section |-> section, offset |-> o.size[section]])
        /\ stack' = Append(stack, r.target)
    BY <1>8 DEF Copies
  <2>2. section \in Sections /\ o.size[section] \in Nat
    BY <1>2 DEF CopySection, Sections, WellFormed, ObjectType
  <2>3. /\ a.what = "word" /\ a.offset = o.size[a.section] /\ a.size = 4 /\ a.rva = r.target
        /\ Place(a, a.rva) = [section |-> section, offset |-> o.size[section]]
    BY <1>3, <2>2 DEF Appended, Place
  <2> HIDE DEF section, name, o
  <2>4. WellFormed(e) /\ Grows(o, e) /\ Relocates(o, e, at, name) /\ Places(o, e, a)
    BY <1>2, <1>3, <2>2, CopyFacts
  <2> HIDE DEF e, a
  <2>5. Updates(b.object, e) /\ CopiesInto(o, e, r, a)
    BY <1>5, <2>1, <2>3, <2>4 DEF CopiesInto
  <2> QED BY <1>2, <1>4, <2>4, <2>5 DEF Emits, o, name
<1> QED BY <1>1, <1>6, <1>7, <1>8

\* The body of a definition is the allocation made for it: its name leads to
\* no other.
LEMMA DataStep ==
  ASSUME Formed, AllLaidOut, Defining, AddDataRelocations
  PROVE  \E m, a :
           LET d == input.definitions[m]
           IN  /\ m \in DOMAIN input.definitions
               /\ Head(todo) = d /\ d.object \in DOMAIN objects
               /\ a \in objects[d.object].allocs /\ OfDefinition(d, a)
               /\ body' = {[object |-> d.object, rva |-> d.rva,
                            section |-> a.section, offset |-> a.offset]}
               /\ sites' = SitesIn(d.rva, d.size)
<1>1. /\ IsInput(input) /\ IsList(todo) /\ Left(input.definitions) /\ todo # <<>>
      /\ phase = "data relocations"
  BY DEF Formed, TypeOK, Walking, AddDataRelocations
<1>2. PICK m \in DOMAIN input.definitions : Head(todo) = input.definitions[m]
  <2>1. 1 \in DOMAIN todo /\ Head(todo) = todo[1]
    BY <1>1, TailOfList
  <2> QED BY <1>1, <2>1 DEF Left
<1> DEFINE d == input.definitions[m]
           o == objects[d.object]
           n == The(SymbolId(o, DefinitionName(d)))
<1>3. /\ body' = {[object |-> d.object, rva |-> d.rva,
                   section |-> o.symbols[n].section, offset |-> o.symbols[n].value]}
      /\ sites' = SitesIn(d.rva, d.size)
  BY <1>2 DEF AddDataRelocations
<1>4. Placed(d)
  BY <1>1, <1>2 DEF Defining, AllPlaced
<1>5. PICK a \in o.allocs : OfDefinition(d, a)
  BY <1>4 DEF Placed
<1>6. d.object \in DOMAIN objects /\ WellFormed(o) /\ DefinedOnce(o) /\ Named(o, a)
  BY <1>1, <1>4, <1>5 DEF Placed, Formed, ObjectsFormed, Defining, OnlyDefinitions
<1>7. PICK k \in DOMAIN o.symbols :
        /\ o.symbols[k].name = DefinitionName(d)
        /\ o.symbols[k].section = a.section /\ o.symbols[k].value = a.offset
  <2>1. a.rva = d.rva
    BY <1>5 DEF OfDefinition
  <2> QED BY <1>6, <2>1 DEF Named, DefinitionName
<1>8. a.section # "undefined"
  BY <1>5, <1>6 DEF WellFormed, ObjectType, PlaceType, Sections
<1> HIDE DEF d, o
<1>9. n \in SymbolId(o, DefinitionName(d))
  <2>1. SymbolId(o, DefinitionName(d)) # {}
    BY <1>6, <1>7, <1>8, SymbolIdFacts
  <2> QED BY <2>1 DEF The
<1>10. n = k
  <2>1. /\ n \in DOMAIN o.symbols /\ o.symbols[n].name = DefinitionName(d)
        /\ o.symbols[n].section # "undefined"
    BY <1>6, <1>9, SymbolIdFacts
  <2> QED BY <1>6, <1>7, <1>8, <2>1 DEF DefinedOnce
<1> HIDE DEF n
<1> QED BY <1>2, <1>3, <1>5, <1>6, <1>7, <1>10 DEF d, o

\* A step in which only the loops move on.
Moves ==
  /\ UNCHANGED <<input, objects, relocs_rva, body, sites, stack, call, visited>>
  /\ \/ phase' \in Failures /\ todo' = todo
     \/ StartDataRelocations \/ StartFunctions \/ SkipFunction \/ Finish
     \/ UNCHANGED <<phase, todo>>

\* The steps, by what they do.
LEMMA Steps ==
  ASSUME [Next]_vars
  PROVE  \/ Moves \/ AddDataDefinition \/ AddDataRelocations \/ AddFunction
         \/ ~Over /\ StartChain
         \/ ~Over /\ (ReferByName \/ CopyString \/ CopyWord)
<1>1. ASSUME NEW reason \in Failures, Fail(reason) PROVE Moves
  BY <1>1 DEF Fail, Moves
<1>2. RefuseDefinition => Moves
  BY <1>1 DEF RefuseDefinition, Failures
<1>3. RefuseBssRelocation => Moves
  BY <1>1 DEF RefuseBssRelocation, Failures
<1>4. RefuseFunction => Moves
  BY <1>1 DEF RefuseFunction, Failures
<1>5. CopyOutside => Moves
  BY <1>1 DEF CopyOutside, Failures
<1>6. StartDataRelocations \/ StartFunctions \/ SkipFunction \/ Finish => Moves
  BY DEF StartDataRelocations, StartFunctions, SkipFunction, Finish, Moves
<1>7. Stop \/ UNCHANGED vars => Moves
  BY DEF Stop, vars, Moves
<1> QED BY <1>2, <1>3, <1>4, <1>5, <1>6, <1>7 DEF Next

\* No step changes the input, or takes a relocation from the map.
LEMMA Kept ==
  ASSUME Formed, [Next]_vars
  PROVE  /\ input' = input /\ DOMAIN relocs_rva \subseteq DOMAIN relocs_rva'
         /\ ~AddFunction => relocs_rva' = relocs_rva
<1>1. CASE AddFunction
  <2>1. \E f : Extended(f)
    BY <1>1, FunctionStep
  <2>2. input' = input
    BY <1>1 DEF AddFunction
  <2> QED BY <1>1, <2>1, <2>2 DEF Extended
<1>2. CASE ~AddFunction
  <2>1. input' = input /\ relocs_rva' = relocs_rva
    BY <1>2, Steps DEF Moves, AddDataDefinition, AddDataRelocations, StartChain,
         ReferByName, CopyString, CopyWord
  <2> QED BY <2>1
<1> QED BY <1>1, <1>2

-----------------------------------------------------------------------------
(* The forms are kept.                                                     *)

\* A step that changes one object lets every object grow.
LEMMA UpdatesFacts ==
  ASSUME Formed, NEW name, NEW e, Updates(name, e)
  PROVE  /\ DOMAIN objects \subseteq DOMAIN objects'
         /\ \A other \in DOMAIN objects' : WellFormed(objects'[other])
         /\ \A other \in DOMAIN objects : Grows(objects[other], objects'[other])
<1>1. \A other \in DOMAIN objects : WellFormed(objects[other])
  BY DEF Formed, ObjectsFormed
<1>2. \A other \in DOMAIN objects : Object(other) = objects[other]
  BY ObjectFacts
<1>3. \A other \in DOMAIN objects : Grows(objects[other], objects'[other])
  <2> TAKE other \in DOMAIN objects
  <2>1. CASE other = name
    BY <1>2, <2>1 DEF Updates
  <2>2. CASE other # name
    BY <1>1, <2>2, GrowsSelf DEF Updates
  <2> QED BY <2>1, <2>2
<1> QED BY <1>1, <1>3 DEF Updates

\* Objects are not lost, and grow.
LEMMA Growing ==
  ASSUME Formed, [Next]_vars
  PROVE  /\ DOMAIN objects \subseteq DOMAIN objects'
         /\ \A name \in DOMAIN objects' : WellFormed(objects'[name])
         /\ \A name \in DOMAIN objects : Grows(objects[name], objects'[name])
<1>1. CASE UNCHANGED objects
  BY <1>1, GrowsSelf DEF Formed, ObjectsFormed
<1>2. CASE AddDataDefinition
  BY <1>2, DefinitionStep, UpdatesFacts DEF Allots
<1>3. CASE AddFunction
  BY <1>3, FunctionStep, UpdatesFacts DEF Allots
<1>4. CASE ReferByName \/ CopyString \/ CopyWord
  BY <1>4, EmitStep, UpdatesFacts DEF Emits
<1>5. Moves \/ AddDataRelocations \/ StartChain => UNCHANGED objects
  BY DEF Moves, AddDataRelocations, StartChain
<1> QED BY <1>1, <1>2, <1>3, <1>4, <1>5, Steps

\* Recording branches keeps the map of relocations one.
LEMMA RelocsTyped ==
  ASSUME Formed, [Next]_vars
  PROVE  /\ IsFiniteSet(DOMAIN relocs_rva')
         /\ \A s \in DOMAIN relocs_rva' :
              s \in Nat /\ relocs_rva'[s] \in RelocType /\ StringKnown(relocs_rva'[s])
<1>1. /\ IsFiniteSet(DOMAIN relocs_rva)
      /\ \A s \in DOMAIN relocs_rva :
           s \in Nat /\ relocs_rva[s] \in RelocType /\ StringKnown(relocs_rva[s])
  BY DEF Formed, TypeOK, StringsKnown
<1>2. CASE AddFunction
  <2>1. PICK f : IsFunction(f) /\ Extended(f)
    BY <1>2, FunctionStep
  <2>2. IsFiniteSet(Cleared(f)) /\ Cleared(f) \subseteq Nat
    BY <2>1, BranchFacts
  <2>3. DOMAIN relocs_rva' = DOMAIN relocs_rva \cup Cleared(f)
    BY <2>1 DEF Extended
  <2>4. IsFiniteSet(DOMAIN relocs_rva')
    BY <1>1, <2>2, <2>3, FS_Union
  <2>5. \A s \in DOMAIN relocs_rva' :
          s \in Nat /\ relocs_rva'[s] \in RelocType /\ StringKnown(relocs_rva'[s])
    BY <1>1, <2>1, <2>2, <2>3 DEF Extended, StringKnown
  <2> QED BY <2>4, <2>5
<1>3. CASE ~AddFunction
  BY <1>1, <1>3, Kept
<1> QED BY <1>2, <1>3

\* What the step leaves to do.
LEMMA WalkingStep ==
  ASSUME Formed, [Next]_vars
  PROVE  Walking' /\ IsList(todo)'
         /\ phase' \in {"definitions", "data relocations", "functions", "built"} \cup Failures
<1>1. /\ IsInput(input) /\ IsList(todo) /\ Walking /\ input' = input
      /\ phase \in {"definitions", "data relocations", "functions", "built"} \cup Failures
  BY Kept DEF Formed, TypeOK
<1>2. CASE UNCHANGED <<phase, todo>>
  BY <1>1, <1>2 DEF Walking, Left
<1>3. CASE AddDataDefinition \/ AddDataRelocations \/ AddFunction \/ SkipFunction
  <2>1. todo # <<>> /\ todo' = Tail(todo) /\ phase' = phase
    BY <1>3 DEF AddDataDefinition, AddDataRelocations, AddFunction, SkipFunction
  <2>2. /\ IsList(Tail(todo))
        /\ \A n \in DOMAIN Tail(todo) : n + 1 \in DOMAIN todo /\ Tail(todo)[n] = todo[n + 1]
        /\ \A m, n \in DOMAIN Tail(todo) : m + 1 = n + 1 => m = n
    BY <1>1, <2>1, TailOfList
  <2>3. \A n \in DOMAIN todo' : \E k \in DOMAIN todo : todo'[n] = todo[k]
    BY <2>1, <2>2
  <2>4. (\A m, n \in DOMAIN todo : todo[m].rva = todo[n].rva => m = n)
        => \A m, n \in DOMAIN todo' : todo'[m].rva = todo'[n].rva => m = n
    BY <2>1, <2>2
  <2>5. ASSUME Left(input.definitions) PROVE Left(input.definitions)'
    <3>1. \A n \in DOMAIN todo' : \E m \in DOMAIN input.definitions : todo'[n] = input.definitions[m]
      BY <2>3, <2>5 DEF Left
    <3> QED BY <1>1, <3>1 DEF Left
  <2>6. ASSUME Left(input.functions) PROVE Left(input.functions)'
    <3>1. \A n \in DOMAIN todo' : \E m \in DOMAIN input.functions : todo'[n] = input.functions[m]
      BY <2>3, <2>6 DEF Left
    <3> QED BY <1>1, <3>1 DEF Left
  <2>7. Walking'
    BY <1>1, <2>1, <2>4, <2>5, <2>6 DEF Walking
  <2> QED BY <1>1, <2>1, <2>2, <2>7
<1>4. CASE StartDataRelocations
  <2>1. phase' = "data relocations" /\ todo' = input.definitions
    BY <1>4 DEF StartDataRelocations
  <2>2. /\ IsList(input.definitions)
        /\ \A m, n \in DOMAIN input.definitions :
             input.definitions[m].rva = input.definitions[n].rva => m = n
    BY <1>1 DEF IsInput
  <2> QED BY <1>1, <2>1, <2>2 DEF Walking, Left
<1>5. CASE StartFunctions
  <2>1. phase' = "functions" /\ todo' = input.functions /\ IsList(input.functions)
    BY <1>1, <1>5 DEF StartFunctions, IsInput
  <2> QED BY <1>1, <2>1 DEF Walking, Left
<1>6. CASE phase' \in Failures \cup {"built"} /\ todo' = todo
  BY <1>1, <1>6 DEF Walking, Failures
<1>7. \/ UNCHANGED <<phase, todo>>
      \/ AddDataDefinition \/ AddDataRelocations \/ AddFunction \/ SkipFunction
      \/ StartDataRelocations \/ StartFunctions
      \/ phase' \in Failures \cup {"built"} /\ todo' = todo
  BY Steps DEF Moves, StartChain, ReferByName, CopyString, CopyWord, Finish
<1> QED BY <1>2, <1>3, <1>4, <1>5, <1>6, <1>7

\* The variables of the body that is being relocated.
BodyTyped ==
  /\ AtMostOne(body) /\ \A b \in body :
       b.object \in DOMAIN objects /\ PlaceType(b) /\ b.rva \in Nat
  /\ sites \subseteq DOMAIN relocs_rva /\ \A s \in sites, b \in body : b.rva <= s

\* The conjuncts of the invariant about the chain.
ChainTyped ==
  /\ AtMostOne(call) /\ (call # {} => body # {})
  /\ \A c \in call : c.reloc \in RelocType /\ PlaceType(c.at) /\ StringKnown(c.reloc)
  /\ stack \in Seq(Nat) /\ visited \subseteq DOMAIN relocs_rva

\* A body is an allocation of an object, at its first site or before.
LEMMA BodyTypedStep ==
  ASSUME Formed, AllLaidOut, Defining, [Next]_vars
  PROVE  BodyTyped'
<1>1. /\ BodyTyped /\ IsInput(input) /\ ObjectsFormed
  BY DEF Formed, TypeOK, BodyTyped
<1>2. DOMAIN objects \subseteq DOMAIN objects' /\ DOMAIN relocs_rva \subseteq DOMAIN relocs_rva'
  BY Growing, Kept
<1>3. CASE body' = body /\ sites' \subseteq sites
  BY <1>1, <1>2, <1>3 DEF BodyTyped
<1>4. CASE AddDataRelocations
  <2>1. PICK m, a :
          LET d == input.definitions[m]
          IN  /\ m \in DOMAIN input.definitions
              /\ d.object \in DOMAIN objects
              /\ a \in objects[d.object].allocs
              /\ body' = {[object |-> d.object, rva |-> d.rva,
                           section |-> a.section, offset |-> a.offset]}
              /\ sites' = SitesIn(d.rva, d.size)
    BY <1>4, DataStep
  <2> DEFINE d == input.definitions[m]
  <2>2. d.rva \in Nat /\ PlaceType(a)
    BY <1>1, <2>1, DefinitionsTyped DEF ObjectsFormed, WellFormed, ObjectType
  <2>3. \A s \in sites' : s \in DOMAIN relocs_rva /\ d.rva <= s
    BY <2>1 DEF SitesIn
  <2>4. AtMostOne(body')
    BY <2>1 DEF AtMostOne
  <2>5. \A b \in body' :
          b.object \in DOMAIN objects' /\ PlaceType(b) /\ b.rva = d.rva
    BY <1>2, <2>1, <2>2 DEF PlaceType
  <2> HIDE DEF d
  <2> QED BY <1>2, <2>2, <2>3, <2>4, <2>5 DEF BodyTyped
<1>5. CASE AddFunction
  <2>1. PICK f, name, e, a :
          /\ IsFunction(f) /\ Allots(name, e, a, FunctionName(f))
          /\ a = Appended(Object(name), "text", "function", f.rva, f.size, Cleared(f))
          /\ body' = {[object |-> name, rva |-> f.rva,
                       section |-> "text", offset |-> a.offset]}
          /\ sites' = {s \in DOMAIN relocs_rva' : f.rva <= s /\ s < f.rva + f.size}
    BY <1>5, FunctionStep
  <2>2. /\ name \in DOMAIN objects' /\ PlaceType(a) /\ a.section = "text" /\ f.rva \in Nat
    BY <2>1 DEF Allots, Updates, Places, Appended, IsFunction
  <2>3. \A s \in sites' : s \in DOMAIN relocs_rva' /\ f.rva <= s
    BY <2>1
  <2>4. AtMostOne(body')
    BY <2>1 DEF AtMostOne
  <2>5. \A b \in body' :
          b.object \in DOMAIN objects' /\ PlaceType(b) /\ b.rva = f.rva
    BY <2>1, <2>2 DEF PlaceType
  <2> QED BY <2>2, <2>3, <2>4, <2>5 DEF BodyTyped
<1>6. Moves \/ AddDataDefinition \/ StartChain \/ ReferByName \/ CopyString \/ CopyWord =>
        body' = body /\ sites' \subseteq sites
  BY DEF Moves, AddDataDefinition, StartChain, ReferByName, CopyString, CopyWord
<1> QED BY <1>3, <1>4, <1>5, <1>6, Steps

\* A call is for a relocation, at a place.
LEMMA ChainTypedStep ==
  ASSUME Formed, [Next]_vars
  PROVE  ChainTyped'
<1>1. /\ ChainTyped /\ BodyTyped /\ input' = input
      /\ DOMAIN relocs_rva \subseteq DOMAIN relocs_rva'
  BY Kept DEF Formed, TypeOK, StringsKnown, BodyTyped, ChainTyped
<1>2. \A s \in DOMAIN relocs_rva :
        s \in Nat /\ relocs_rva[s] \in RelocType /\ StringKnown(relocs_rva[s])
  BY DEF Formed, TypeOK, StringsKnown
<1>3. CASE Moves
  <2>1. UNCHANGED <<body, call, stack, visited>>
    BY <1>3 DEF Moves
  <2> QED BY <1>1, <2>1 DEF ChainTyped, StringKnown
<1>4. CASE AddDataDefinition
  <2>1. UNCHANGED <<body, call, stack, visited>>
    BY <1>4 DEF AddDataDefinition
  <2> QED BY <1>1, <2>1 DEF ChainTyped, StringKnown
<1>5. CASE AddDataRelocations \/ AddFunction
  <2>1. call' = {} /\ stack' = stack /\ visited' = visited
    BY <1>5 DEF AddDataRelocations, AddFunction, Idle
  <2> QED BY <1>1, <2>1 DEF ChainTyped, AtMostOne
<1>6. CASE StartChain
  <2>1. PICK s \in sites, b \in body :
          call' = {[reloc |-> relocs_rva[s],
                    at |-> [section |-> b.section, offset |-> b.offset + (s - b.rva)]]}
    BY <1>6 DEF StartChain
  <2>2. stack' = <<>> /\ visited' = {} /\ body' = body /\ relocs_rva' = relocs_rva
    BY <1>6 DEF StartChain
  <2>3. /\ s \in DOMAIN relocs_rva /\ s \in Nat /\ b.rva \in Nat /\ b.rva <= s
        /\ b.offset \in Nat /\ b.section \in Sections
    BY <1>1, <1>2 DEF BodyTyped, PlaceType
  <2>4. /\ AtMostOne(call') /\ body' # {}
        /\ \A c \in call' : c.reloc = relocs_rva[s] /\ PlaceType(c.at)
    BY <2>1, <2>2, <2>3 DEF AtMostOne, PlaceType
  <2>5. \A c \in call' : c.reloc \in RelocType /\ StringKnown(c.reloc)'
    BY <1>1, <1>2, <2>3, <2>4 DEF StringKnown
  <2>6. stack' \in Seq(Nat)
    BY <2>2
  <2> QED BY <2>2, <2>4, <2>5, <2>6 DEF ChainTyped
<1>7. CASE ReferByName \/ CopyString \/ CopyWord
  <2>1. PICK c, b, e : Emits(c, b, e)
    BY <1>7, EmitStep
  <2>2. UNCHANGED <<body, relocs_rva>> /\ body # {} /\ c.reloc \in RelocType
    BY <2>1 DEF Emits
  <2>3. CASE call' = {} /\ UNCHANGED <<stack, visited>>
    BY <1>1, <2>2, <2>3 DEF ChainTyped, AtMostOne
  <2>4. CASE \E a : CopiesInto(objects[b.object], e, c.reloc, a) /\ a.what = "word"
    <3>1. PICK a : /\ CopiesInto(objects[b.object], e, c.reloc, a) /\ a.what = "word"
      BY <2>4
    <3>2. /\ PlaceType(a) /\ a.rva \in Nat /\ a.rva = c.reloc.target
          /\ Follow(c.reloc, Place(a, a.rva)) /\ stack' = Append(stack, a.rva)
      BY <3>1 DEF CopiesInto, Places
    <3>3. stack' \in Seq(Nat)
      BY <1>1, <3>2 DEF ChainTyped
    <3>4. PlaceType(Place(a, a.rva))
      BY <3>2 DEF PlaceType, Place
    <3>5. visited' \subseteq DOMAIN relocs_rva /\ AtMostOne(call')
      BY <1>1, <3>2 DEF Follow, ChainTyped, AtMostOne
    <3>6. \A x \in call' : c.reloc.target \in DOMAIN relocs_rva
              /\ x.reloc = relocs_rva[c.reloc.target] /\ x.at = Place(a, a.rva)
      BY <3>2 DEF Follow
    <3>7. \A x \in call' : x.reloc \in RelocType /\ PlaceType(x.at) /\ StringKnown(x.reloc)'
      BY <1>1, <1>2, <3>4, <3>6 DEF StringKnown
    <3> QED BY <2>2, <3>3, <3>5, <3>7 DEF ChainTyped
  <2> QED BY <2>1, <2>3, <2>4 DEF Emits, Refers, CopiesInto
<1> QED BY <1>3, <1>4, <1>5, <1>6, <1>7, Steps

\* What was handed over is not touched by the branches that are recorded.
LEMMA HandedStep ==
  ASSUME Formed, [Next]_vars
  PROVE  Handed'
<1> SUFFICES ASSUME NEW s \in DOMAIN input'.relocs
             PROVE  /\ s \in DOMAIN relocs_rva'
                    /\ relocs_rva'[s].kind = input'.relocs[s].kind
                    /\ relocs_rva'[s].base = input'.relocs[s].base
  BY DEF Handed
<1>1. /\ input' = input /\ s \in DOMAIN relocs_rva
      /\ relocs_rva[s].kind = input.relocs[s].kind
      /\ relocs_rva[s].base = input.relocs[s].base
  BY Kept DEF Formed, Handed
<1>2. CASE AddFunction
  <2>1. PICK f : Extended(f)
    BY <1>2, FunctionStep
  <2> QED BY <1>1, <2>1 DEF Extended
<1>3. CASE ~AddFunction
  BY <1>1, <1>3, Kept
<1> QED BY <1>2, <1>3

\* Every step keeps the types.
LEMMA FormedStep ==
  ASSUME Formed, AllLaidOut, Defining, [Next]_vars
  PROVE  Formed'
<1>1. \A name \in DOMAIN objects' : WellFormed(objects'[name])
  BY Growing
<1>2. IsInput(input)'
  BY Kept DEF Formed, TypeOK
<1>3. BodyTyped' /\ ChainTyped'
  BY BodyTypedStep, ChainTypedStep
<1>4. /\ IsFiniteSet(DOMAIN relocs_rva')
      /\ \A s \in DOMAIN relocs_rva' :
           s \in Nat /\ relocs_rva'[s] \in RelocType /\ StringKnown(relocs_rva'[s])
  BY RelocsTyped
<1>5. Walking' /\ IsList(todo)'
      /\ phase' \in {"definitions", "data relocations", "functions", "built"} \cup Failures
  BY WalkingStep
<1>6. TypeOK'
  BY <1>1, <1>2, <1>3, <1>4, <1>5 DEF TypeOK, BodyTyped, ChainTyped, WellFormed
<1>7. StringsKnown'
  BY <1>3, <1>4, Kept DEF StringsKnown, ChainTyped, StringKnown
<1>8. Handed'
  BY HandedStep
<1> QED BY <1>1, <1>5, <1>6, <1>7, <1>8 DEF Formed, ObjectsFormed

-----------------------------------------------------------------------------
(* The layout is kept.                                                     *)

\* A function's branches are those of the input.
LEMMA ClearedConstant ==
  ASSUME input' = input
  PROVE  \A f : Cleared(f)' = Cleared(f)
<1> SUFFICES ASSUME NEW f PROVE Cleared(f)' = Cleared(f)
  OBVIOUS
<1>1. Outward(f)' = Outward(f)
  BY DEF Outward
<1> QED BY <1>1 DEF Cleared, Branches, BranchSite

\* A relative relocation stays one.
LEMMA RelativeStays ==
  ASSUME Formed, [Next]_vars, NEW s \in DOMAIN relocs_rva, relocs_rva[s].encoding = "Relative"
  PROVE  s \in DOMAIN relocs_rva' /\ relocs_rva'[s].encoding = "Relative"
<1>1. CASE AddFunction
  <2>1. PICK f : Extended(f)
    BY <1>1, FunctionStep
  <2> QED BY <2>1 DEF Extended
<1>2. CASE ~AddFunction
  BY <1>2, Kept
<1> QED BY <1>1, <1>2

\* What an allocation is of does not change.
LEMMA AccountedStays ==
  ASSUME Formed, [Next]_vars, NEW name, NEW a, Accounted(name, a)
  PROVE  Accounted(name, a)'
<1>1. input' = input
  BY Kept
<1>2. \A f : Cleared(f)' = Cleared(f)
  BY <1>1, ClearedConstant
<1>3. CASE \E n \in DOMAIN input.functions : OfFunction(input.functions[n], a)
  <2>1. PICK n \in DOMAIN input.functions : OfFunction(input.functions[n], a)
    BY <1>3
  <2> DEFINE f == input.functions[n]
  <2>2. \A s \in Cleared(f) : s \in DOMAIN relocs_rva' /\ relocs_rva'[s].encoding = "Relative"
    BY <2>1, RelativeStays DEF OfFunction
  <2>3. /\ a.what = "function" /\ a.rva = f.rva /\ a.size = f.size /\ a.section = "text"
        /\ FunctionLocation(f) # {} /\ a.cleared = Cleared(f)
    BY <2>1 DEF OfFunction
  <2>4. PICK g : g = f
    OBVIOUS
  <2>5. OfFunction(g, a)'
    BY <1>2, <2>2, <2>3, <2>4 DEF OfFunction
  <2>6. n \in DOMAIN input'.functions /\ input'.functions[n] = g
    BY <1>1, <2>4
  <2> QED BY <2>5, <2>6 DEF Accounted
<1>4. CASE ~\E n \in DOMAIN input.functions : OfFunction(input.functions[n], a)
  BY <1>1, <1>4 DEF Accounted
<1> QED BY <1>3, <1>4

\* Every object is laid out, also one that is yet to be made.
LEMMA LaidOutFacts ==
  ASSUME Formed, AllLaidOut
  PROVE  \A name : LaidOut(name, Object(name)) /\ WellFormed(Object(name))
<1> SUFFICES ASSUME NEW name PROVE LaidOut(name, Object(name)) /\ WellFormed(Object(name))
  OBVIOUS
<1>1. CASE name \in DOMAIN objects
  BY <1>1, ObjectFacts DEF AllLaidOut
<1>2. CASE name \notin DOMAIN objects
  <2>1. Object(name) = Empty /\ Empty.allocs = {} /\ DOMAIN Empty.relocs = {}
    BY <1>2, ObjectFacts, EmptyFacts DEF Formed, TypeOK
  <2> QED BY <2>1, ObjectFacts DEF LaidOut
<1> QED BY <1>1, <1>2

\* A new allocation is apart from those below it.
LEMMA PlacesApart ==
  ASSUME NEW name, NEW o, WellFormed(o), LaidOut(name, o), NEW e, WellFormed(e),
         Grows(o, e), NEW a, Places(o, e, a)
  PROVE  /\ \A x \in e.allocs : x.offset + x.size <= e.size[x.section]
         /\ \A x, y \in e.allocs : x # y => Disjoint(x, y)
<1>1. \A s \in Sections : o.size[s] \in Nat /\ e.size[s] \in Nat /\ o.size[s] <= e.size[s]
  BY DEF WellFormed, ObjectType, Grows
<1>2. \A x \in e.allocs : x.section \in Sections /\ x.offset \in Nat /\ x.size \in Nat
  BY DEF WellFormed, ObjectType, PlaceType
<1>3. /\ e.allocs = o.allocs \cup {a}
      /\ o.size[a.section] <= a.offset /\ a.offset + a.size <= e.size[a.section]
  BY DEF Places
<1>4. ASSUME NEW x \in o.allocs
      PROVE  /\ x.offset + x.size <= o.size[x.section]
             /\ x.offset + x.size <= e.size[x.section]
             /\ x.section = a.section => x.offset + x.size <= a.offset
  <2>1. x.offset + x.size <= o.size[x.section] /\ x \in e.allocs /\ a \in e.allocs
    BY <1>3, <1>4 DEF LaidOut
  <2>2. o.size[x.section] <= e.size[x.section]
    BY <1>1, <1>2, <2>1
  <2>3. x.offset + x.size <= e.size[x.section]
    BY <1>1, <1>2, <2>1, <2>2
  <2>4. x.section = a.section => x.offset + x.size <= a.offset
    BY <1>1, <1>2, <1>3, <2>1
  <2> QED BY <2>1, <2>3, <2>4
<1>5. \A x \in o.allocs : Disjoint(x, a) /\ Disjoint(a, x)
  BY <1>4 DEF Disjoint
<1>6. \A x, y \in o.allocs : x # y => Disjoint(x, y)
  BY DEF LaidOut
<1>7. \A x \in e.allocs : x.offset + x.size <= e.size[x.section]
  BY <1>3, <1>4
<1>8. \A x, y \in e.allocs : x # y => Disjoint(x, y)
  BY <1>3, <1>5, <1>6
<1> QED BY <1>7, <1>8

\* Putting an allocation past the end, and relocations before it, keeps the
\* layout.
LEMMA LayoutUpdate ==
  ASSUME Formed, AllLaidOut, [Next]_vars, NEW name, NEW e, Updates(name, e),
         \/ e.allocs = Object(name).allocs
         \/ \E a : Places(Object(name), e, a) /\ Accounted(name, a)',
         \A n \in DOMAIN e.relocs \ DOMAIN Object(name).relocs :
           e.relocs[n].offset < Object(name).size[e.relocs[n].section]
  PROVE  AllLaidOut'
<1> DEFINE o == Object(name)
<1>1. WellFormed(o) /\ WellFormed(e) /\ Grows(o, e) /\ LaidOut(name, o)
  BY LaidOutFacts DEF Updates
<1>2. \A s \in Sections : o.size[s] \in Nat /\ e.size[s] \in Nat /\ o.size[s] <= e.size[s]
  BY <1>1 DEF WellFormed, ObjectType, Grows
<1>3. ASSUME NEW n \in DOMAIN e.relocs PROVE e.relocs[n].offset < e.size[e.relocs[n].section]
  <2>1. e.relocs[n].offset \in Nat /\ e.relocs[n].section \in Sections
    BY <1>1 DEF WellFormed, ObjectType, PlaceType
  <2>2. e.relocs[n].offset < o.size[e.relocs[n].section]
    BY <1>1 DEF LaidOut, Grows
  <2> QED BY <1>2, <2>1, <2>2
<1>4. /\ \A a \in e.allocs : Accounted(name, a)'
      /\ \A a \in e.allocs : a.offset + a.size <= e.size[a.section]
      /\ \A a, b \in e.allocs : a # b => Disjoint(a, b)
  <2>0. \A a \in o.allocs : Accounted(name, a)'
    BY <1>1, AccountedStays DEF LaidOut
  <2>1. CASE e.allocs = o.allocs
    <3>1. \A a \in e.allocs : a.offset + a.size <= e.size[a.section]
      <4> TAKE a \in e.allocs
      <4>1. a.section \in Sections /\ a.offset \in Nat /\ a.size \in Nat
        BY <1>1 DEF WellFormed, ObjectType, PlaceType
      <4>2. a.offset + a.size <= o.size[a.section]
        BY <1>1, <2>1 DEF LaidOut
      <4> QED BY <1>2, <4>1, <4>2
    <3> QED BY <1>1, <2>0, <2>1, <3>1 DEF LaidOut
  <2>2. CASE \E a : Places(o, e, a) /\ Accounted(name, a)'
    <3>1. PICK a : Places(o, e, a) /\ Accounted(name, a)'
      BY <2>2
    <3>2. /\ \A x \in e.allocs : x.offset + x.size <= e.size[x.section]
          /\ \A x, y \in e.allocs : x # y => Disjoint(x, y)
      <4> HIDE DEF o
      <4> QED BY <1>1, <3>1, PlacesApart
    <3> QED BY <2>0, <3>1, <3>2 DEF Places
  <2> QED BY <2>1, <2>2
<1>5. LaidOut(name, e)'
  BY <1>3, <1>4 DEF LaidOut, Disjoint
<1>6. ASSUME NEW other \in DOMAIN objects', other # name PROVE LaidOut(other, objects[other])'
  <2>1. other \in DOMAIN objects /\ objects'[other] = objects[other]
    BY <1>6 DEF Updates
  <2>2. LaidOut(other, objects[other])
    BY <2>1 DEF AllLaidOut
  <2>3. \A a \in objects[other].allocs : Accounted(other, a)'
    BY <2>2, AccountedStays DEF LaidOut
  <2>4. PICK p : p = objects[other]
    OBVIOUS
  <2>5. LaidOut(other, p)'
    BY <2>2, <2>3, <2>4 DEF LaidOut, Disjoint
  <2> QED BY <2>1, <2>4, <2>5
<1>7. LaidOut(name, objects[name])'
  BY <1>5 DEF Updates
<1> QED BY <1>6, <1>7 DEF AllLaidOut

\* The place of a call is in its object.
LEMMA CallWithin ==
  ASSUME Formed, AllLaidOut, Relocating, NEW c \in call, NEW b \in body
  PROVE  c.at.offset < objects[b.object].size[c.at.section]
<1> DEFINE o == objects[b.object]
<1>1. b.object \in DOMAIN objects /\ WellFormed(o) /\ LaidOut(b.object, o)
  BY DEF Formed, TypeOK, ObjectsFormed, AllLaidOut
<1>2. PICK a \in o.allocs, s \in Nat :
        a.rva <= s /\ s < a.rva + a.size /\ c.at = Place(a, s)
  <2>1. CASE ForSite(b, c)
    BY <2>1 DEF ForSite, Formed, TypeOK
  <2>2. CASE ForWord(b, c)
    <3>1. PICK a \in o.allocs : a.size = 4 /\ c.at = Place(a, a.rva)
      BY <2>2 DEF ForWord
    <3>2. a.rva \in Nat
      BY <1>1 DEF WellFormed, ObjectType
    <3> QED BY <3>1, <3>2
  <2> QED BY <2>1, <2>2 DEF Relocating
<1>3. /\ a.section \in Sections /\ a.offset \in Nat /\ a.size \in Nat /\ a.rva \in Nat
      /\ o.size[a.section] \in Nat /\ a.offset + a.size <= o.size[a.section]
  BY <1>1 DEF WellFormed, ObjectType, PlaceType, LaidOut
<1>4. c.at.section = a.section /\ c.at.offset = a.offset + (s - a.rva)
  BY <1>2 DEF Place
<1> QED BY <1>2, <1>3, <1>4

\* Every step keeps the layout.
LEMMA LayoutStep ==
  ASSUME Formed, AllLaidOut, Relocating, [Next]_vars
  PROVE  AllLaidOut'
<1>1. CASE UNCHANGED objects
  <2> SUFFICES ASSUME NEW name \in DOMAIN objects PROVE LaidOut(name, objects[name])'
    BY <1>1 DEF AllLaidOut
  <2>1. LaidOut(name, objects[name]) /\ objects'[name] = objects[name]
    BY <1>1 DEF AllLaidOut
  <2>2. \A a \in objects[name].allocs : Accounted(name, a)'
    BY <2>1, AccountedStays DEF LaidOut
  <2>3. PICK p : p = objects[name]
    OBVIOUS
  <2>4. LaidOut(name, p)'
    BY <2>1, <2>2, <2>3 DEF LaidOut, Disjoint
  <2> QED BY <2>1, <2>3, <2>4
<1>2. CASE AddDataDefinition
  <2>1. PICK m, e, a :
          LET d == input.definitions[m]
          IN  /\ m \in DOMAIN input.definitions
              /\ Allots(d.object, e, a, DefinitionName(d))
              /\ OfDefinition(d, a) /\ a.offset % d.alignment = 0
    BY <1>2, DefinitionStep
  <2>2. PICK name : name = input.definitions[m].object
    OBVIOUS
  <2>3. Accounted(name, a)
    BY <2>1, <2>2 DEF Accounted
  <2>4. Accounted(name, a)'
    BY <2>3, AccountedStays
  <2>5. /\ Updates(name, e) /\ Places(Object(name), e, a)
        /\ e.relocs = Object(name).relocs
    BY <2>1, <2>2 DEF Allots
  <2> QED BY <2>4, <2>5, LayoutUpdate
<1>3. CASE AddFunction
  <2>1. PICK n, name, e, a :
          LET f == input.functions[n]
          IN  /\ n \in DOMAIN input.functions
              /\ name \in FunctionLocation(f) /\ Extended(f)
              /\ Allots(name, e, a, FunctionName(f))
              /\ a = Appended(Object(name), "text", "function", f.rva, f.size, Cleared(f))
    BY <1>3, FunctionStep
  <2> DEFINE f == input.functions[n]
  <2>2. PICK g : g = f
    OBVIOUS
  <2>3. input' = input /\ \A h : Cleared(h)' = Cleared(h)
    BY Kept, ClearedConstant
  <2>4. OfFunction(g, a)'
    <3>1. /\ a.what = "function" /\ a.rva = g.rva /\ a.size = g.size /\ a.section = "text"
          /\ FunctionLocation(g) # {} /\ a.cleared = Cleared(g)
      BY <2>1, <2>2 DEF Appended
    <3>2. \A s \in Cleared(g) : s \in DOMAIN relocs_rva' /\ relocs_rva'[s].encoding = "Relative"
      BY <2>1, <2>2 DEF Extended
    <3> QED BY <2>3, <3>1, <3>2 DEF OfFunction
  <2>5. Accounted(name, a)'
    BY <2>1, <2>2, <2>3, <2>4 DEF Accounted
  <2>6. /\ Updates(name, e) /\ Places(Object(name), e, a)
        /\ e.relocs = Object(name).relocs
    BY <2>1 DEF Allots
  <2> QED BY <2>5, <2>6, LayoutUpdate
<1>4. CASE ReferByName \/ CopyString \/ CopyWord
  <2>1. PICK c, b, e : Emits(c, b, e)
    BY <1>4, EmitStep
  <2> DEFINE o == objects[b.object]
  <2>2. /\ Updates(b.object, e) /\ Relocates(o, e, c.at, NameOf(c.reloc))
        /\ Object(b.object) = o
    BY <2>1, ObjectFacts DEF Emits
  <2>3. c.at.offset < o.size[c.at.section]
    BY <2>1, CallWithin DEF Emits
  <2>4. \A n \in DOMAIN e.relocs \ DOMAIN o.relocs :
          e.relocs[n].offset < o.size[e.relocs[n].section]
    BY <2>2, <2>3 DEF Relocates
  <2>5. \/ e.allocs = o.allocs
        \/ \E a : Places(o, e, a) /\ Accounted(b.object, a)'
    <3>1. CASE Refers(o, e)
      BY <3>1 DEF Refers
    <3>2. CASE \E a : CopiesInto(o, e, c.reloc, a)
      <4>1. PICK a : CopiesInto(o, e, c.reloc, a)
        BY <3>2
      <4>2. Places(o, e, a) /\ a.what \in Copied
        BY <4>1 DEF CopiesInto, Copied
      <4>3. PICK name : name = b.object
        OBVIOUS
      <4>4. Accounted(name, a)
        BY <4>2 DEF Accounted
      <4>5. Accounted(name, a)'
        BY <4>4, AccountedStays
      <4> QED BY <4>2, <4>3, <4>5
    <3> QED BY <2>1, <3>1, <3>2 DEF Emits
  <2> HIDE DEF o
  <2>6. PICK name : name = b.object
    OBVIOUS
  <2> QED BY <2>2, <2>4, <2>5, <2>6, LayoutUpdate
<1>5. Moves \/ AddDataRelocations \/ StartChain => UNCHANGED objects
  BY DEF Moves, AddDataRelocations, StartChain
<1> QED BY <1>1, <1>2, <1>3, <1>4, <1>5, Steps

-----------------------------------------------------------------------------
(* What allocations there are, and of what.                                *)

\* An allocation that is there after a step was there, or is new.
LEMMA HeldBefore ==
  ASSUME Formed, NEW name, NEW e, Updates(name, e),
         NEW A, e.allocs \subseteq Object(name).allocs \cup A,
         NEW other \in DOMAIN objects', NEW x \in objects'[other].allocs
  PROVE  \/ other \in DOMAIN objects /\ x \in objects[other].allocs
         \/ other = name /\ x \in A
<1>1. CASE other # name
  BY <1>1 DEF Updates
<1>2. CASE other = name
  <2>1. x \in Object(name).allocs \cup A
    BY <1>2 DEF Updates
  <2>2. CASE name \in DOMAIN objects
    BY <1>2, <2>1, <2>2, ObjectFacts
  <2>3. CASE name \notin DOMAIN objects
    BY <1>2, <2>1, <2>3, ObjectFacts, EmptyFacts DEF Formed, TypeOK
  <2> QED BY <2>2, <2>3
<1> QED BY <1>1, <1>2

\* A call adds no allocation but a copy, which only a function has.
LEMMA EmittedAllocs ==
  ASSUME Formed, NEW c, NEW b, NEW e, Emits(c, b, e)
  PROVE  \E A : /\ e.allocs = Object(b.object).allocs \cup A
                /\ \A x \in A : x.what \in Copied /\ phase = "functions" /\ Conjured(c.reloc)
<1>1. Object(b.object) = objects[b.object]
  BY ObjectFacts DEF Emits
<1>2. CASE Refers(objects[b.object], e)
  <2>1. PICK A : A = {}
    OBVIOUS
  <2>2. e.allocs = Object(b.object).allocs \cup A
    BY <1>1, <1>2, <2>1 DEF Refers
  <2> QED BY <2>1, <2>2
<1>3. CASE \E a : CopiesInto(objects[b.object], e, c.reloc, a)
  <2>1. PICK a : CopiesInto(objects[b.object], e, c.reloc, a)
    BY <1>3
  <2>2. /\ e.allocs = Object(b.object).allocs \cup {a} /\ a.what \in Copied
        /\ phase = "functions" /\ Conjured(c.reloc)
    BY <1>1, <2>1 DEF CopiesInto, Places, Copied
  <2> QED BY <2>2
<1> QED BY <1>2, <1>3 DEF Emits

\* A definition is allocated when its turn has come, and not again.
LEMMA OneAllocationStep ==
  ASSUME Formed, OneAllocation, Defining, [Next]_vars
  PROVE  OneAllocation'
<1>1. CASE UNCHANGED objects
  BY <1>1 DEF OneAllocation
<1>2. ASSUME NEW name, NEW e, Updates(name, e),
             NEW A, e.allocs \subseteq Object(name).allocs \cup A,
             \A x, y \in A : x = y,
             \A x \in A : x.what = "definition" =>
               \A other \in DOMAIN objects : \A y \in objects[other].allocs : y.rva # x.rva
      PROVE  OneAllocation'
  <2> SUFFICES ASSUME NEW nx \in DOMAIN objects', NEW ny \in DOMAIN objects',
                      NEW x \in objects'[nx].allocs, NEW y \in objects'[ny].allocs,
                      x.what = "definition", y.what = "definition", x.rva = y.rva
               PROVE  nx = ny /\ x = y
    BY DEF OneAllocation
  <2>1. \/ nx \in DOMAIN objects /\ x \in objects[nx].allocs
        \/ nx = name /\ x \in A
    BY <1>2, HeldBefore
  <2>2. \/ ny \in DOMAIN objects /\ y \in objects[ny].allocs
        \/ ny = name /\ y \in A
    BY <1>2, HeldBefore
  <2> QED BY <1>2, <2>1, <2>2 DEF OneAllocation
<1>3. CASE AddDataDefinition
  <2>1. PICK m, e, a :
          LET d == input.definitions[m]
          IN  /\ m \in DOMAIN input.definitions
              /\ Head(todo) = d /\ Allots(d.object, e, a, DefinitionName(d))
              /\ OfDefinition(d, a)
    BY <1>3, DefinitionStep
  <2>2. PICK name : name = input.definitions[m].object
    OBVIOUS
  <2>3. Updates(name, e) /\ e.allocs \subseteq Object(name).allocs \cup {a}
    BY <2>1, <2>2 DEF Allots, Places
  <2>4. phase = "definitions" /\ 1 \in DOMAIN todo /\ todo[1].rva = a.rva
    <3>1. phase = "definitions" /\ todo # <<>> /\ IsList(todo)
      BY <1>3 DEF AddDataDefinition, Formed, TypeOK
    <3> QED BY <2>1, <3>1, TailOfList DEF OfDefinition
  <2>5. \A other \in DOMAIN objects : \A y \in objects[other].allocs : y.rva # a.rva
    BY <2>4 DEF Defining, NotLeft
  <2>6. PICK A : A = {a}
    OBVIOUS
  <2> QED BY <1>2, <2>3, <2>5, <2>6
<1>4. CASE AddFunction
  <2>1. PICK f, name, e, a :
          /\ Allots(name, e, a, FunctionName(f))
          /\ a = Appended(Object(name), "text", "function", f.rva, f.size, Cleared(f))
    BY <1>4, FunctionStep
  <2>2. Updates(name, e) /\ e.allocs \subseteq Object(name).allocs \cup {a}
    BY <2>1 DEF Allots, Places
  <2>3. a.what # "definition"
    BY <2>1 DEF Appended
  <2>4. PICK A : A = {a}
    OBVIOUS
  <2> QED BY <1>2, <2>2, <2>3, <2>4
<1>5. CASE ReferByName \/ CopyString \/ CopyWord
  <2>1. PICK c, b, e : Emits(c, b, e)
    BY <1>5, EmitStep
  <2>2. Updates(b.object, e)
    BY <2>1 DEF Emits
  <2>3. Object(b.object) = objects[b.object]
    BY <2>1, ObjectFacts DEF Emits
  <2>4. CASE Refers(objects[b.object], e)
    <3>1. PICK A : A = {}
      OBVIOUS
    <3>2. e.allocs \subseteq Object(b.object).allocs \cup A
      BY <2>3, <2>4 DEF Refers
    <3> QED BY <1>2, <2>2, <3>1, <3>2
  <2>5. CASE \E a : CopiesInto(objects[b.object], e, c.reloc, a)
    <3>1. PICK a : CopiesInto(objects[b.object], e, c.reloc, a)
      BY <2>5
    <3>2. e.allocs \subseteq Object(b.object).allocs \cup {a} /\ a.what # "definition"
      BY <2>3, <3>1 DEF CopiesInto, Places
    <3>3. PICK A : A = {a}
      OBVIOUS
    <3> QED BY <1>2, <2>2, <3>2, <3>3
  <2> QED BY <2>1, <2>4, <2>5 DEF Emits
<1>6. Moves \/ AddDataRelocations \/ StartChain => UNCHANGED objects
  BY DEF Moves, AddDataRelocations, StartChain
<1> QED BY <1>1, <1>3, <1>4, <1>5, <1>6, Steps

\* A branch that is recorded is one of the function added.
LEMMA BranchesKnownStep ==
  ASSUME Formed, BranchesKnown, [Next]_vars
  PROVE  BranchesKnown'
<1>1. input' = input /\ \A f : Cleared(f)' = Cleared(f)
  BY Kept, ClearedConstant
<1>2. ASSUME NEW n \in DOMAIN input.functions, NEW s,
             FunctionLocation(input.functions[n]) # {}, s \in Cleared(input.functions[n])
      PROVE  \E m \in DOMAIN input'.functions :
               FunctionLocation(input.functions[m])' # {} /\ s \in Cleared(input.functions[m])'
  <2>1. PICK f : f = input.functions[n]
    OBVIOUS
  <2>2. FunctionLocation(f)' # {} /\ s \in Cleared(f)'
    BY <1>1, <1>2, <2>1 DEF FunctionLocation
  <2>3. n \in DOMAIN input'.functions /\ input'.functions[n] = f
    BY <1>1, <2>1
  <2> QED BY <2>2, <2>3
<1>3. CASE AddFunction
  <2>1. PICK n, name :
          LET f == input.functions[n]
          IN  /\ n \in DOMAIN input.functions /\ name \in FunctionLocation(f) /\ Extended(f)
    BY <1>3, FunctionStep
  <2> SUFFICES ASSUME NEW s \in DOMAIN relocs_rva', relocs_rva'[s].encoding = "Relative"
               PROVE  \E m \in DOMAIN input.functions :
                        /\ FunctionLocation(input.functions[m]) # {}
                        /\ s \in Cleared(input.functions[m])
    BY <1>2 DEF BranchesKnown
  <2>2. CASE s \in Cleared(input.functions[n])
    BY <2>1, <2>2
  <2>3. CASE s \notin Cleared(input.functions[n])
    BY <2>1, <2>3 DEF Extended, BranchesKnown
  <2> QED BY <2>2, <2>3
<1>4. CASE ~AddFunction
  <2>1. relocs_rva' = relocs_rva
    BY <1>4, Kept
  <2> QED BY <1>2, <2>1 DEF BranchesKnown
<1> QED BY <1>3, <1>4

\* A definition that is placed stays placed.
LEMMA PlacedStays ==
  ASSUME Formed, [Next]_vars, NEW d, Placed(d)
  PROVE  Placed(d)'
<1>1. PICK a \in objects[d.object].allocs : OfDefinition(d, a)
  BY DEF Placed
<1>2. d.object \in DOMAIN objects' /\ a \in objects'[d.object].allocs
  BY <1>1, Growing DEF Placed, Grows
<1>3. OfDefinition(d, a)'
  BY <1>1 DEF OfDefinition
<1> QED BY <1>2, <1>3 DEF Placed

\* An object with nothing but definitions, which has one more.
LEMMA NamedNext ==
  ASSUME NEW o, WellFormed(o), NEW e, Grows(o, e), DefinedOnce(o),
         NEW a, NEW name, SymbolId(o, name) = {},
         Defines(o, e, name, a.section, a.offset)
  PROVE  DefinedOnce(e) /\ (name = input.symbol_name[a.rva] => Named(e, a))
<1>1. PICK new :
        /\ new \notin DOMAIN o.symbols /\ DOMAIN e.symbols = DOMAIN o.symbols \cup {new}
        /\ e.symbols[new] = [name |-> name, section |-> a.section, value |-> a.offset]
  BY DEF Defines
<1>2. \A n \in DOMAIN o.symbols : n \in DOMAIN e.symbols /\ e.symbols[n] = o.symbols[n]
  BY DEF Grows
<1>3. \A n \in DOMAIN o.symbols :
        o.symbols[n].section # "undefined" => o.symbols[n].name # name
  BY SymbolIdFacts
<1>4. /\ e.symbols[new].name = name /\ e.symbols[new].section = a.section
      /\ e.symbols[new].value = a.offset
  BY <1>1
<1>5. DefinedOnce(e)
  <2> SUFFICES ASSUME NEW m \in DOMAIN e.symbols, NEW n \in DOMAIN e.symbols,
                      e.symbols[m].section # "undefined", e.symbols[n].section # "undefined",
                      e.symbols[m].name = e.symbols[n].name
               PROVE  m = n
    BY DEF DefinedOnce
  <2>1. CASE m = new /\ n = new
    BY <2>1
  <2>2. CASE m # new /\ n # new
    BY <1>1, <1>2, <2>2 DEF DefinedOnce
  <2>3. CASE m # new /\ n = new
    BY <1>1, <1>2, <1>3, <1>4, <2>3
  <2>4. CASE m = new /\ n # new
    BY <1>1, <1>2, <1>3, <1>4, <2>4
  <2> QED BY <2>1, <2>2, <2>3, <2>4
<1> QED BY <1>1, <1>4, <1>5 DEF Named

\* What is said of the definitions is kept while there are definitions to add.
LEMMA DefiningAdds ==
  ASSUME Formed, Defining, [Next]_vars, AddDataDefinition
  PROVE  OnlyDefinitions' /\ AllPlaced' /\ NotLeft'
<1>1. /\ phase = "definitions" /\ phase' = phase /\ todo # <<>> /\ todo' = Tail(todo)
      /\ input' = input /\ IsList(todo) /\ OnlyDefinitions /\ AllPlaced /\ NotLeft
      /\ \A m, n \in DOMAIN todo : todo[m].rva = todo[n].rva => m = n
  BY Kept DEF AddDataDefinition, Formed, TypeOK, Walking, Defining
<1>2. PICK d, e, a :
        /\ Head(todo) = d /\ ~Duplicate(d)
        /\ Allots(d.object, e, a, DefinitionName(d)) /\ OfDefinition(d, a)
  BY DefinitionStep
<1>3. PICK name : name = d.object
  OBVIOUS
<1> DEFINE o == Object(name)
<1>4. /\ Updates(name, e) /\ e.allocs = o.allocs \cup {a} /\ WellFormed(o) /\ Grows(o, e)
      /\ Defines(o, e, DefinitionName(d), a.section, a.offset)
      /\ SymbolId(o, DefinitionName(d)) = {}
  BY <1>2, <1>3 DEF Allots, Updates, Places, Duplicate
<1>5. /\ a.rva = d.rva /\ a.what = "definition"
      /\ DefinitionName(d) = input.symbol_name[a.rva]
  BY <1>2 DEF OfDefinition, DefinitionName
<1>6. DefinedOnce(o) /\ \A x \in o.allocs : x.what = "definition" /\ Named(o, x)
  <2>1. CASE name \in DOMAIN objects
    BY <1>1, <2>1, ObjectFacts DEF OnlyDefinitions
  <2>2. CASE name \notin DOMAIN objects
    <3>1. o.allocs = {} /\ DOMAIN o.symbols = {}
      BY <2>2, ObjectFacts, EmptyFacts DEF Formed, TypeOK
    <3> QED BY <3>1 DEF DefinedOnce
  <2> QED BY <2>1, <2>2
<1>7. \A n \in DOMAIN Tail(todo) : n + 1 \in DOMAIN todo /\ n + 1 # 1 /\ Tail(todo)[n] = todo[n + 1]
  BY <1>1, TailOfList
<1>8. 1 \in DOMAIN todo /\ todo[1] = d
      /\ \A n \in DOMAIN todo \ {1} : n - 1 \in DOMAIN Tail(todo) /\ Tail(todo)[n - 1] = todo[n]
  BY <1>1, <1>2, TailOfList
<1> HIDE DEF o
<1>9. DefinedOnce(e) /\ \A x \in e.allocs : x.what = "definition" /\ Named(e, x)
  <2>1. PICK symbol : symbol = DefinitionName(d)
    OBVIOUS
  <2>2. DefinedOnce(e) /\ Named(e, a)
    BY <1>4, <1>5, <1>6, <2>1, NamedNext
  <2>3. \A x \in o.allocs : Named(e, x)
    BY <1>4, <1>6 DEF Named, Grows
  <2> QED BY <1>4, <1>5, <1>6, <2>2, <2>3
<1>10. OnlyDefinitions'
  <2> SUFFICES ASSUME NEW other \in DOMAIN objects'
               PROVE  /\ DefinedOnce(objects[other])'
                      /\ \A x \in objects'[other].allocs :
                           x.what = "definition" /\ Named(objects[other], x)'
    BY DEF OnlyDefinitions
  <2>1. PICK p : p = objects'[other]
    OBVIOUS
  <2>2. DefinedOnce(p) /\ \A x \in p.allocs : x.what = "definition" /\ Named(p, x)
    BY <1>1, <1>4, <1>9, <2>1 DEF Updates, OnlyDefinitions
  <2>3. DefinedOnce(p)' /\ \A x \in p.allocs : Named(p, x)'
    BY <1>1, <2>2 DEF DefinedOnce, Named
  <2> QED BY <2>1, <2>2, <2>3
<1>11. NotLeft'
  <2>1. PICK A : A = {a}
    OBVIOUS
  <2>2. e.allocs \subseteq Object(name).allocs \cup A
    BY <1>4, <2>1 DEF o
  <2>3. ASSUME NEW other \in DOMAIN objects', NEW x \in objects'[other].allocs
        PROVE  \/ other \in DOMAIN objects /\ x \in objects[other].allocs
               \/ other = name /\ x \in A
    BY <1>4, <2>2, HeldBefore
  <2> SUFFICES ASSUME NEW other \in DOMAIN objects', NEW x \in objects'[other].allocs,
                      NEW n \in DOMAIN Tail(todo)
               PROVE  Tail(todo)[n].rva # x.rva
    BY <1>1 DEF NotLeft
  <2>4. \/ other \in DOMAIN objects /\ x \in objects[other].allocs
        \/ x = a
    BY <2>1, <2>3
  <2> QED BY <1>1, <1>5, <1>7, <1>8, <2>4 DEF NotLeft
<1>12. AllPlaced'
  <2>1. Placed(d)'
    <3>1. OfDefinition(d, a)'
      BY <1>2 DEF OfDefinition
    <3> QED BY <1>3, <1>4, <3>1 DEF Placed, Updates
  <2>2. ASSUME NEW m \in DOMAIN input.definitions, NEW x, x = input.definitions[m]
        PROVE  \/ Placed(x)'
               \/ \E n \in DOMAIN Tail(todo) : Tail(todo)[n] = x
    <3>1. CASE Placed(x)
      BY <3>1, PlacedStays
    <3>2. CASE \E n \in DOMAIN todo : todo[n] = x
      BY <1>8, <2>1, <3>2
    <3> QED BY <1>1, <2>2, <3>1, <3>2 DEF AllPlaced
  <2> SUFFICES ASSUME NEW m \in DOMAIN input.definitions
               PROVE  \/ Placed(input.definitions[m])'
                      \/ \E n \in DOMAIN Tail(todo) : Tail(todo)[n] = input.definitions[m]
    BY <1>1 DEF AllPlaced
  <2>3. PICK x : x = input.definitions[m]
    OBVIOUS
  <2>4. x = input'.definitions[m]
    BY <1>1, <2>3
  <2> QED BY <2>2, <2>3, <2>4
<1> QED BY <1>10, <1>11, <1>12

\* Every step keeps what holds until the functions come.
LEMMA DefiningStep ==
  ASSUME Formed, Defining, [Next]_vars
  PROVE  Defining'
<1>1. input' = input
  BY Kept
<1>2. CASE AddDataDefinition
  BY <1>2, DefiningAdds DEF Defining
<1>3. ASSUME OnlyDefinitions, UNCHANGED objects PROVE OnlyDefinitions'
  BY <1>1, <1>3 DEF OnlyDefinitions, DefinedOnce, Named
<1>4. ASSUME \A m \in DOMAIN input.definitions : Placed(input.definitions[m])
      PROVE  AllPlaced'
  <2> SUFFICES ASSUME NEW m \in DOMAIN input.definitions PROVE Placed(input.definitions[m])'
    BY <1>1 DEF AllPlaced
  <2>1. PICK x : x = input.definitions[m]
    OBVIOUS
  <2>2. Placed(x)'
    BY <1>4, <2>1, PlacedStays
  <2>3. x = input'.definitions[m]
    BY <1>1, <2>1
  <2> QED BY <2>2, <2>3
<1>5. CASE StartDataRelocations
  <2>1. /\ phase = "definitions" /\ DOMAIN todo = {} /\ UNCHANGED objects
        /\ phase' = "data relocations"
    <3>1. todo = <<>> /\ DOMAIN Empty.symbols = {} /\ Empty.symbols = <<>>
      BY <1>5, EmptyFacts DEF StartDataRelocations, Formed, TypeOK
    <3> QED BY <1>5, <3>1 DEF StartDataRelocations
  <2> QED BY <1>3, <1>4, <2>1 DEF Defining, AllPlaced
<1>6. CASE AddDataRelocations
  <2>1. phase = "data relocations" /\ phase' = phase /\ UNCHANGED objects
    BY <1>6 DEF AddDataRelocations
  <2> QED BY <1>3, <1>4, <2>1 DEF Defining, AllPlaced
<1>7. ASSUME UNCHANGED <<phase, todo>>, Defining, OnlyDefinitions => OnlyDefinitions',
             phase \in {"definitions", "data relocations"} =>
               \A name \in DOMAIN objects' : \A x \in objects'[name].allocs :
                 name \in DOMAIN objects /\ x \in objects[name].allocs
      PROVE  Defining'
  <2> SUFFICES ASSUME phase \in {"definitions", "data relocations"}
               PROVE  OnlyDefinitions' /\ AllPlaced' /\ (phase = "definitions" => NotLeft')
    BY <1>7 DEF Defining
  <2>1. OnlyDefinitions'
    BY <1>7 DEF Defining
  <2>2. phase = "definitions" => NotLeft'
    BY <1>7 DEF Defining, NotLeft
  <2>3. AllPlaced'
    <3> SUFFICES ASSUME NEW m \in DOMAIN input.definitions
                 PROVE  \/ Placed(input.definitions[m])'
                        \/ phase = "definitions" /\ \E n \in DOMAIN todo : todo[n] = input.definitions[m]
      BY <1>1, <1>7 DEF AllPlaced
    <3>1. PICK x : x = input.definitions[m] /\ x = input'.definitions[m]
      BY <1>1
    <3>2. Placed(x) => Placed(x)'
      BY PlacedStays
    <3> QED BY <3>1, <3>2 DEF Defining, AllPlaced
  <2> QED BY <2>1, <2>2, <2>3
<1>8. CASE ReferByName \/ CopyString \/ CopyWord
  <2>1. PICK c, b, e : Emits(c, b, e)
    BY <1>8, EmitStep
  <2> DEFINE o == objects[b.object]
  <2>2. /\ UNCHANGED <<phase, todo>> /\ Updates(b.object, e) /\ b.object \in DOMAIN objects
        /\ WellFormed(o) /\ Grows(o, e)
        /\ phase \in {"definitions", "data relocations"} => OnlyUndefined(o, e) /\ e.allocs = o.allocs
    BY <2>1, ObjectFacts DEF Emits, Refers, CopiesInto, Updates
  <2>3. PICK name : name = b.object
    OBVIOUS
  <2>4. CASE phase \in {"definitions", "data relocations"}
    <3>1. \A other \in DOMAIN objects' : \A x \in objects'[other].allocs :
            other \in DOMAIN objects /\ x \in objects[other].allocs
      BY <2>2, <2>3, <2>4 DEF Updates
    <3>2. ASSUME OnlyDefinitions PROVE OnlyDefinitions'
      <4> SUFFICES ASSUME NEW other \in DOMAIN objects'
                   PROVE  /\ DefinedOnce(objects[other])'
                          /\ \A x \in objects'[other].allocs :
                               x.what = "definition" /\ Named(objects[other], x)'
        BY DEF OnlyDefinitions
      <4>1. PICK p : p = objects'[other]
        OBVIOUS
      <4>2. CASE other # name
        <5>1. DefinedOnce(p) /\ \A x \in p.allocs : x.what = "definition" /\ Named(p, x)
          BY <2>2, <2>3, <3>2, <4>1, <4>2 DEF Updates, OnlyDefinitions
        <5>2. DefinedOnce(p)' /\ \A x \in p.allocs : Named(p, x)'
          BY <1>1, <5>1 DEF DefinedOnce, Named
        <5> QED BY <4>1, <5>1, <5>2
      <4>3. CASE other = name
        <5>1. p = e /\ DefinedOnce(o) /\ \A x \in o.allocs : x.what = "definition" /\ Named(o, x)
          BY <2>2, <2>3, <3>2, <4>1, <4>3 DEF Updates, OnlyDefinitions
        <5> HIDE DEF o
        <5>2. \A n \in DOMAIN p.symbols : p.symbols[n].section # "undefined" =>
                n \in DOMAIN o.symbols /\ p.symbols[n] = o.symbols[n]
          BY <2>2, <2>4, <5>1 DEF OnlyUndefined, Grows
        <5>3. DefinedOnce(p)
          BY <5>1, <5>2 DEF DefinedOnce
        <5>4. \A x \in p.allocs : x.what = "definition" /\ Named(p, x)
          BY <2>2, <2>4, <5>1 DEF Named, Grows
        <5>5. DefinedOnce(p)' /\ \A x \in p.allocs : Named(p, x)'
          BY <1>1, <5>3, <5>4 DEF DefinedOnce, Named
        <5> QED BY <4>1, <5>4, <5>5
      <4> QED BY <4>2, <4>3
    <3> QED BY <1>7, <2>2, <3>1, <3>2
  <2>5. CASE phase \notin {"definitions", "data relocations"}
    BY <2>2, <2>5 DEF Defining
  <2> QED BY <2>4, <2>5
<1>9. CASE UNCHANGED <<phase, todo, objects>>
  BY <1>3, <1>7, <1>9
<1>10. \/ UNCHANGED <<phase, todo, objects>> \/ StartDataRelocations
       \/ AddDataDefinition \/ AddDataRelocations
       \/ ReferByName \/ CopyString \/ CopyWord
       \/ phase' \notin {"definitions", "data relocations"}
  BY Steps DEF Moves, AddFunction, StartChain, StartFunctions, SkipFunction, Finish, Failures
<1> QED BY <1>2, <1>5, <1>6, <1>8, <1>9, <1>10 DEF Defining

-----------------------------------------------------------------------------
(* What is being relocated.                                                *)

\* The allocation of a body stays it while sites are taken.
LEMMA BodyStays ==
  ASSUME Formed, [Next]_vars, sites' \subseteq sites,
         NEW b, b.object \in DOMAIN objects, NEW a, BodyOf(b, a)
  PROVE  BodyOf(b, a)'
BY Growing DEF BodyOf, Grows

\* What becomes of a body is left open by the steps that do not turn to another.
LEMMA RelocatingKeeps ==
  ASSUME Formed, Relocating, [Next]_vars, UNCHANGED body, sites' \subseteq sites,
         phase' = phase \/ phase' \notin {"definitions", "data relocations", "functions"}
           \/ Idle',
         phase' = "definitions" => phase = "definitions",
         phase' = "data relocations" =>
           body = {} \/ (phase' = phase /\ UNCHANGED todo),
         call' # {} => ~Idle,
         \A b \in body, c \in call' : ForSite(b, c)' \/ ForWord(b, c)'
  PROVE  Relocating'
<1> SUFFICES ASSUME NEW b \in body
             PROVE  /\ phase' # "definitions"
                    /\ phase' = "data relocations" => \A n \in DOMAIN todo' : todo'[n].rva # b.rva
                    /\ \E a \in objects'[b.object].allocs :
                         /\ BodyOf(b, a)'
                         /\ phase' = "functions" /\ ~Idle' => a.what = "function"
                    /\ \A c \in call' : ForSite(b, c)' \/ ForWord(b, c)'
  BY DEF Relocating
<1>1. PICK a \in objects[b.object].allocs :
        BodyOf(b, a) /\ (phase = "functions" /\ ~Idle => a.what = "function")
  BY DEF Relocating
<1>2. b.object \in DOMAIN objects
  BY DEF Formed, TypeOK
<1>3. BodyOf(b, a)'
  BY <1>1, <1>2, BodyStays
<1>4. ~Idle' => ~Idle
  BY DEF Idle
<1>5. a \in objects'[b.object].allocs
  BY <1>3 DEF BodyOf
<1> QED BY <1>1, <1>3, <1>4, <1>5 DEF Relocating

\* Nothing is being relocated but a site of the body, or a word just copied.
LEMMA RelocatingStep ==
  ASSUME Formed, AllLaidOut, Defining, Relocating, [Next]_vars
  PROVE  Relocating'
<1>1. /\ \A b \in body : b.object \in DOMAIN objects /\ b.rva \in Nat
      /\ \A s \in sites, b \in body : b.rva <= s
      /\ AtMostOne(body) /\ sites \subseteq DOMAIN relocs_rva /\ IsList(todo)
  BY DEF Formed, TypeOK
<1>2. CASE Moves
  <2>1. /\ UNCHANGED <<body, sites, call, relocs_rva>>
        /\ UNCHANGED objects
    BY <1>2 DEF Moves
  <2>2. CASE StartDataRelocations
    <3>1. phase = "definitions"
      BY <2>2 DEF StartDataRelocations
    <3>2. body = {}
      BY <3>1 DEF Relocating
    <3> QED BY <2>1, <3>2 DEF Relocating
  <2>3. CASE ~StartDataRelocations
    <3>1. /\ phase' = phase \/ phase' \notin {"definitions", "data relocations", "functions"}
               \/ Idle'
          /\ phase' = "definitions" => phase = "definitions"
          /\ phase' = "data relocations" => phase' = phase /\ UNCHANGED todo
      BY <1>2, <2>1, <2>3 DEF Moves, StartFunctions, SkipFunction, Finish, Failures, Idle
    <3>2. ASSUME NEW b \in body, NEW c \in call' PROVE ForSite(b, c)' \/ ForWord(b, c)'
      <4>1. ForSite(b, c) \/ ForWord(b, c)
        BY <2>1 DEF Relocating
      <4>2. ForWord(b, c) => ForWord(b, c)'
        BY <2>1 DEF ForWord
      <4>3. \A a : BodyOf(b, a) => BodyOf(b, a)'
        BY <2>1 DEF BodyOf
      <4>4. ForSite(b, c) => ForSite(b, c)'
        BY <2>1, <4>3 DEF ForSite
      <4> QED BY <4>1, <4>2, <4>4
    <3>3. call' # {} => ~Idle
      BY <2>1 DEF Idle
    <3> QED BY <2>1, <3>1, <3>2, <3>3, RelocatingKeeps
  <2> QED BY <2>2, <2>3
<1>3. CASE AddDataDefinition
  <2>1. phase = "definitions" /\ UNCHANGED body
    BY <1>3 DEF AddDataDefinition
  <2> QED BY <2>1 DEF Relocating
<1>4. CASE AddDataRelocations
  <2>1. /\ phase = "data relocations" /\ phase' = phase /\ call' = {} /\ UNCHANGED objects
        /\ todo # <<>> /\ todo' = Tail(todo)
    BY <1>4 DEF AddDataRelocations, Idle
  <2>2. PICK m, a :
          LET d == input.definitions[m]
          IN  /\ m \in DOMAIN input.definitions
              /\ Head(todo) = d /\ d.object \in DOMAIN objects
              /\ a \in objects[d.object].allocs /\ OfDefinition(d, a)
              /\ body' = {[object |-> d.object, rva |-> d.rva,
                           section |-> a.section, offset |-> a.offset]}
              /\ sites' = SitesIn(d.rva, d.size)
    BY <1>4, DataStep
  <2>3. PICK d : d = input.definitions[m]
    OBVIOUS
  <2>4. PICK b : b = [object |-> d.object, rva |-> d.rva,
                      section |-> a.section, offset |-> a.offset]
    OBVIOUS
  <2>5. /\ body' = {b} /\ b.object = d.object /\ b.rva = d.rva
        /\ b.section = a.section /\ b.offset = a.offset
    BY <2>2, <2>3, <2>4
  <2>6. \A s \in sites' : s < d.rva + d.size
    BY <2>2, <2>3 DEF SitesIn
  <2>7. /\ a.rva = d.rva /\ a.size = d.size /\ a.what = "definition"
        /\ a \in objects'[d.object].allocs
    BY <2>1, <2>2, <2>3 DEF OfDefinition
  <2>8. BodyOf(b, a)'
    BY <2>5, <2>6, <2>7 DEF BodyOf
  <2>9. \A n \in DOMAIN todo' : todo'[n].rva # b.rva
    <3>1. \A n \in DOMAIN Tail(todo) :
            n + 1 \in DOMAIN todo /\ n + 1 # 1 /\ Tail(todo)[n] = todo[n + 1]
      BY <1>1, <2>1, TailOfList
    <3>2. 1 \in DOMAIN todo /\ todo[1] = d
      BY <1>1, <2>1, <2>2, <2>3, TailOfList
    <3>3. \A k, n \in DOMAIN todo : todo[k].rva = todo[n].rva => k = n
      BY <2>1 DEF Formed, Walking
    <3> QED BY <2>1, <2>5, <3>1, <3>2, <3>3
  <2> QED BY <2>1, <2>5, <2>7, <2>8, <2>9 DEF Relocating
<1>5. CASE AddFunction
  <2>1. phase = "functions" /\ phase' = phase /\ call' = {}
    BY <1>5 DEF AddFunction, Idle
  <2>2. PICK f, name, e, a :
          /\ Allots(name, e, a, FunctionName(f))
          /\ a = Appended(Object(name), "text", "function", f.rva, f.size, Cleared(f))
          /\ body' = {[object |-> name, rva |-> f.rva,
                       section |-> "text", offset |-> a.offset]}
          /\ sites' = {s \in DOMAIN relocs_rva' : f.rva <= s /\ s < f.rva + f.size}
    BY <1>5, FunctionStep
  <2>3. PICK b : b = [object |-> name, rva |-> f.rva,
                      section |-> "text", offset |-> a.offset]
    OBVIOUS
  <2>4. /\ body' = {b} /\ b.object = name /\ b.rva = f.rva
        /\ b.section = "text" /\ b.offset = a.offset
    BY <2>2, <2>3
  <2>5. \A s \in sites' : s < f.rva + f.size
    BY <2>2
  <2>6. a.section = "text" /\ a.rva = f.rva /\ a.size = f.size /\ a.what = "function"
    BY <2>2 DEF Appended
  <2>7. a \in objects'[name].allocs
    BY <2>2 DEF Allots, Updates, Places
  <2>8. BodyOf(b, a)'
    BY <2>4, <2>5, <2>6, <2>7 DEF BodyOf
  <2> QED BY <2>1, <2>4, <2>6, <2>7, <2>8 DEF Relocating
<1>6. CASE StartChain
  <2>1. PICK s \in sites, b \in body :
          /\ call' = {[reloc |-> relocs_rva[s],
                       at |-> [section |-> b.section, offset |-> b.offset + (s - b.rva)]]}
          /\ sites' = sites \ {s}
    BY <1>6 DEF StartChain
  <2>2. UNCHANGED <<objects, relocs_rva, phase, todo, body>> /\ ~Idle
    BY <1>6 DEF StartChain, Idle
  <2>3. PICK a \in objects[b.object].allocs : BodyOf(b, a)
    BY DEF Relocating
  <2>4. BodyOf(b, a)'
    BY <1>1, <2>1, <2>3, BodyStays
  <2>5. a.rva <= s /\ s < a.rva + a.size /\ s \in DOMAIN relocs_rva' \ sites'
    BY <1>1, <2>1, <2>2, <2>3 DEF BodyOf
  <2>6. \A c \in call' : c.at = Place(a, s) /\ c.reloc = relocs_rva'[s]
    BY <2>1, <2>2, <2>3 DEF BodyOf, Place
  <2>7. \A c \in call' : ForSite(b, c)'
    BY <2>2, <2>3, <2>4, <2>5, <2>6 DEF ForSite
  <2>8. \A x \in body, c \in call' : ForSite(x, c)'
    BY <1>1, <2>7 DEF AtMostOne
  <2> QED BY <2>1, <2>2, <2>8, RelocatingKeeps
<1>7. CASE ReferByName \/ CopyString \/ CopyWord
  <2>1. PICK c, b, e : Emits(c, b, e)
    BY <1>7, EmitStep
  <2>2. /\ b \in body /\ Updates(b.object, e) /\ ~Idle
        /\ UNCHANGED <<relocs_rva, phase, todo, body, sites>>
    BY <2>1 DEF Emits, Idle
  <2>3. CASE call' = {}
    BY <2>2, <2>3, RelocatingKeeps
  <2>4. CASE \E a : CopiesInto(objects[b.object], e, c.reloc, a) /\ a.what = "word"
    <3>1. PICK a : CopiesInto(objects[b.object], e, c.reloc, a) /\ a.what = "word"
      BY <2>4
    <3>2. a \in objects'[b.object].allocs
      BY <2>2, <3>1 DEF CopiesInto, Updates, Places
    <3>3. a.size = 4 /\ a.rva = c.reloc.target
      BY <3>1 DEF CopiesInto
    <3>4. \A x \in call' : /\ a.rva \in DOMAIN relocs_rva
                           /\ x.reloc = relocs_rva[a.rva] /\ x.at = Place(a, a.rva)
      BY <3>1 DEF CopiesInto, Follow
    <3>5. \A x \in call' : ForWord(b, x)'
      BY <2>2, <3>1, <3>2, <3>3, <3>4 DEF ForWord, Place
    <3>6. \A y \in body, x \in call' : ForWord(y, x)'
      BY <1>1, <2>2, <3>5 DEF AtMostOne
    <3> QED BY <2>2, <3>6, RelocatingKeeps
  <2> QED BY <2>1, <2>3, <2>4 DEF Emits, Refers, CopiesInto
<1> QED BY <1>2, <1>3, <1>4, <1>5, <1>6, <1>7, Steps

\* Each step of a chain expands a target that was not, but for the last.
LEMMA ChainCountedStep ==
  ASSUME Formed, ChainCounted, [Next]_vars
  PROVE  ChainCounted'
<1>1. /\ IsFiniteSet(visited) /\ Cardinality(visited) \in Nat /\ stack \in Seq(Nat)
      /\ Len(stack) \in Nat
  <2>1. IsFiniteSet(DOMAIN relocs_rva) /\ visited \subseteq DOMAIN relocs_rva
        /\ stack \in Seq(Nat)
    BY DEF Formed, TypeOK
  <2>2. IsFiniteSet(visited)
    BY <2>1, FS_Subset
  <2> QED BY <2>1, <2>2, FS_CardinalityType
<1>2. CASE UNCHANGED <<stack, visited>> /\ (call' = {} \/ call' = call)
  BY <1>2 DEF ChainCounted
<1>3. CASE StartChain
  <2>1. stack' = <<>> /\ visited' = {}
    BY <1>3 DEF StartChain
  <2>2. Len(<<>>) = 0 /\ Cardinality({}) = 0
    BY FS_EmptySet
  <2> QED BY <2>1, <2>2 DEF ChainCounted
<1>4. CASE ReferByName \/ CopyString \/ CopyWord
  <2>1. PICK c, b, e : Emits(c, b, e)
    BY <1>4, EmitStep
  <2>2. CASE call' = {} /\ UNCHANGED <<stack, visited>>
    BY <1>2, <2>2
  <2>3. CASE \E a : CopiesInto(objects[b.object], e, c.reloc, a) /\ a.what = "word"
    <3>1. PICK a : CopiesInto(objects[b.object], e, c.reloc, a) /\ a.what = "word"
      BY <2>3
    <3>2. /\ a.rva \in Nat /\ a.rva = c.reloc.target /\ stack' = Append(stack, a.rva)
          /\ Follow(c.reloc, Place(a, a.rva))
      BY <3>1 DEF CopiesInto, Places
    <3>3. Len(stack') = Len(stack) + 1
      BY <1>1, <3>2
    <3>4. Len(stack) = Cardinality(visited)
      BY <2>1 DEF ChainCounted, Emits
    <3>5. CASE visited' = visited /\ call' = {}
      BY <1>1, <3>3, <3>4, <3>5 DEF ChainCounted
    <3>6. CASE c.reloc.target \notin visited /\ visited' = visited \cup {c.reloc.target}
      <4>1. Cardinality(visited') = Cardinality(visited) + 1
        BY <1>1, <3>6, FS_AddElement
      <4> QED BY <1>1, <3>3, <3>4, <4>1 DEF ChainCounted
    <3> QED BY <3>2, <3>5, <3>6 DEF Follow
  <2> QED BY <2>1, <2>2, <2>3 DEF Emits, Refers, CopiesInto
<1>5. Moves \/ AddDataDefinition \/ AddDataRelocations \/ AddFunction =>
        UNCHANGED <<stack, visited>> /\ (call' = {} \/ call' = call)
  BY DEF Moves, AddDataDefinition, AddDataRelocations, AddFunction, Idle
<1> QED BY <1>2, <1>3, <1>4, <1>5, Steps

-----------------------------------------------------------------------------
(* What is relocated.                                                      *)

\* A place of an object that holds a definition or a function.
Site(name, x, s) ==
  /\ name \in DOMAIN objects /\ x \in objects[name].allocs
  /\ x.what \notin Copied /\ Certain(x, s) /\ s \in Within(x)

\* The types of a place.
LEMMA SiteFacts ==
  ASSUME Formed, AllLaidOut, NEW name, NEW x, NEW s, Site(name, x, s)
  PROVE  /\ WellFormed(objects[name]) /\ LaidOut(name, objects[name])
         /\ x.section \in Sections /\ x.offset \in Nat /\ x.rva \in Nat /\ x.size \in Nat
         /\ s \in Nat /\ x.rva <= s /\ s < x.rva + x.size
<1>1. WellFormed(objects[name]) /\ LaidOut(name, objects[name])
  BY DEF Site, Formed, ObjectsFormed, AllLaidOut
<1>2. x.section \in Sections /\ x.offset \in Nat /\ x.rva \in Nat /\ x.size \in Nat
  BY <1>1 DEF Site, WellFormed, ObjectType, PlaceType
<1>3. s \in Nat /\ x.rva <= s /\ s < x.rva + x.size
  BY <1>2 DEF Site, Within
<1> QED BY <1>1, <1>2, <1>3

\* The same place is the same site of the same allocation.
LEMMA SamePlace ==
  ASSUME NEW o, WellFormed(o), \A a, b \in o.allocs : a # b => Disjoint(a, b),
         NEW x \in o.allocs, NEW y \in o.allocs,
         NEW s \in Nat, x.rva <= s, s < x.rva + x.size,
         NEW t \in Nat, y.rva <= t, t < y.rva + y.size,
         Place(x, s) = Place(y, t)
  PROVE  x = y /\ s = t
<1>1. /\ x.offset \in Nat /\ x.rva \in Nat /\ x.size \in Nat
      /\ y.offset \in Nat /\ y.rva \in Nat /\ y.size \in Nat
  BY DEF WellFormed, ObjectType, PlaceType
<1>2. x.section = y.section /\ x.offset + (s - x.rva) = y.offset + (t - y.rva)
  BY DEF Place
<1>3. x.size > 0 /\ y.size > 0
  BY <1>1
<1>4. ~(x.offset + x.size <= y.offset) /\ ~(y.offset + y.size <= x.offset)
  BY <1>1, <1>2
<1>5. x = y
  BY <1>2, <1>3, <1>4 DEF Disjoint
<1> QED BY <1>1, <1>2, <1>5

\* Past the end of a section nothing is relocated.
LEMMA Unrelocated ==
  ASSUME NEW name, NEW o, WellFormed(o), LaidOut(name, o),
         NEW x, x.section \in Sections, x.offset \in Nat, x.rva \in Nat,
         NEW s \in Nat, x.rva <= s, o.size[x.section] <= x.offset
  PROVE  RelocsAt(o, x, s) = {}
<1> SUFFICES ASSUME NEW n \in DOMAIN o.relocs,
                    o.relocs[n].section = x.section,
                    o.relocs[n].offset = x.offset + (s - x.rva)
             PROVE  FALSE
  BY DEF RelocsAt
<1>1. o.size[x.section] \in Nat /\ o.relocs[n].offset < o.size[x.section]
  BY DEF WellFormed, ObjectType, LaidOut
<1> QED BY <1>1

\* An object that grows keeps what is relocated.
LEMMA RelocatedStays ==
  ASSUME Formed, [Next]_vars, NEW o, WellFormed(o), NEW e, Grows(o, e),
         NEW x, NEW s \in DOMAIN relocs_rva, RelocatedTo(o, x, s),
         RelocsAt(e, x, s) = RelocsAt(o, x, s)
  PROVE  RelocatedTo(e, x, s)'
<1>1. PICK n \in DOMAIN o.relocs :
        /\ RelocsAt(o, x, s) = {n}
        /\ o.symbols[o.relocs[n].symbol].name = NameOf(relocs_rva[s])
  BY DEF RelocatedTo
<1>2. /\ n \in DOMAIN e.relocs /\ e.relocs[n] = o.relocs[n]
      /\ o.relocs[n].symbol \in DOMAIN o.symbols
      /\ e.symbols[o.relocs[n].symbol] = o.symbols[o.relocs[n].symbol]
  BY DEF Grows, WellFormed, ObjectType
<1>3. relocs_rva'[s].kind = relocs_rva[s].kind /\ relocs_rva'[s].base = relocs_rva[s].base
  <2>1. CASE AddFunction
    <3>1. PICK f : Extended(f)
      BY <2>1, FunctionStep
    <3> QED BY <3>1 DEF Extended
  <2>2. CASE ~AddFunction
    BY <2>2, Kept
  <2> QED BY <2>1, <2>2
<1>4. NameOf(relocs_rva[s])' = NameOf(relocs_rva[s])
  BY <1>3, Kept DEF NameOf
<1>5. RelocsAt(e, x, s)' = {n}
  BY <1>1 DEF RelocsAt
<1> QED BY <1>1, <1>2, <1>4, <1>5 DEF RelocatedTo

\* A site about which nothing changes.
LEMMA StaysEmitted ==
  ASSUME Formed, [Next]_vars, NEW name \in DOMAIN objects, NEW x, NEW s,
         EmittedAt(name, x, s), NEW p, p = objects'[name],
         RelocsAt(p, x, s) = RelocsAt(objects[name], x, s),
         s \in DOMAIN relocs_rva' <=> s \in DOMAIN relocs_rva,
         Awaited(name, x, s)' <=> Awaited(name, x, s)
  PROVE  EmittedAt(name, x, s)'
<1>1. PICK o : o = objects[name]
  OBVIOUS
<1>2. WellFormed(o) /\ Grows(o, p)
  BY <1>1, Growing DEF Formed, ObjectsFormed
<1>3. RelocsAt(objects[name], x, s)' = RelocsAt(p, x, s)
  BY DEF RelocsAt
<1>4. s \notin DOMAIN relocs_rva' \/ Awaited(name, x, s)' => RelocsAt(objects[name], x, s)' = {}
  BY <1>3 DEF EmittedAt
<1>5. ASSUME s \in DOMAIN relocs_rva', ~Awaited(name, x, s)'
      PROVE  RelocatedTo(objects[name], x, s)'
  <2>1. s \in DOMAIN relocs_rva /\ RelocatedTo(o, x, s)
    BY <1>1, <1>5 DEF EmittedAt
  <2>2. RelocatedTo(p, x, s)'
    BY <1>1, <1>2, <2>1, RelocatedStays
  <2> QED BY <2>2 DEF RelocatedTo, RelocsAt
<1> QED BY <1>4, <1>5 DEF EmittedAt

\* A site that has been there has what it should.
LEMMA SiteBefore ==
  ASSUME Formed, Emitted, Running, [Next]_vars, NEW name, NEW x, NEW s, Site(name, x, s)',
         name \in DOMAIN objects, x \in objects[name].allocs
  PROVE  Site(name, x, s) /\ EmittedAt(name, x, s)
<1>1. input' = input
  BY Kept
<1>2. x.what \notin Copied /\ Certain(x, s) /\ s \in Within(x)
  BY <1>1 DEF Site, Certain, Overlapped, Within, Copied
<1> QED BY <1>2 DEF Site, Emitted

\* A new definition has no relocations, and none of them has.
LEMMA EmittedByDefinition ==
  ASSUME Formed, AllLaidOut, Defining, Emitted, [Next]_vars, AddDataDefinition,
         AllLaidOut', Formed', NEW name, NEW x, NEW s, Site(name, x, s)'
  PROVE  EmittedAt(name, x, s)'
<1>1. phase = "definitions" /\ phase' = phase /\ Running
  BY DEF AddDataDefinition, Running
<1>2. PICK home, e, a :
        /\ Updates(home, e) /\ Places(Object(home), e, a) /\ e.relocs = Object(home).relocs
        /\ a.what = "definition"
  <2>1. PICK d, e, a : Allots(d.object, e, a, DefinitionName(d)) /\ OfDefinition(d, a)
    BY DefinitionStep
  <2> QED BY <2>1 DEF Allots, OfDefinition
<1>3. PICK A : A = {a}
  OBVIOUS
<1>4. name \in DOMAIN objects' /\ x \in objects'[name].allocs
  BY DEF Site
<1>5. \/ name \in DOMAIN objects /\ x \in objects[name].allocs
      \/ name = home /\ x = a
  <2>1. e.allocs \subseteq Object(home).allocs \cup A
    BY <1>2, <1>3 DEF Places
  <2>2. \/ name \in DOMAIN objects /\ x \in objects[name].allocs
        \/ name = home /\ x \in A
    BY <1>2, <1>4, <2>1, HeldBefore
  <2> QED BY <1>3, <2>2
<1>6. PICK p : p = objects'[name]
  OBVIOUS
<1>7. /\ x.section \in Sections /\ x.offset \in Nat /\ x.rva \in Nat
      /\ s \in Nat /\ x.rva <= s
  <2>1. x.section \in Sections /\ x.offset \in Nat /\ x.rva \in Nat /\ x.size \in Nat
    BY <1>4, Growing DEF WellFormed, ObjectType, PlaceType
  <2> QED BY <2>1 DEF Site, Within
<1>8. x.what = "definition" /\ RelocsAt(p, x, s) = {}
  <2>1. CASE name \in DOMAIN objects /\ x \in objects[name].allocs
    <3>1. EmittedAt(name, x, s)
      BY <1>1, <2>1, SiteBefore
    <3>2. x.what = "definition"
      BY <1>1, <2>1 DEF Defining, OnlyDefinitions
    <3>3. RelocsAt(objects[name], x, s) = {}
      BY <1>1, <3>1, <3>2 DEF EmittedAt, Awaited
    <3>4. p.relocs = objects[name].relocs
      BY <1>2, <1>6, <2>1, ObjectFacts DEF Updates
    <3> QED BY <3>2, <3>3, <3>4 DEF RelocsAt
  <2>2. CASE name = home /\ x = a
    <3>1. PICK o : o = Object(home)
      OBVIOUS
    <3>2. /\ WellFormed(o) /\ LaidOut(home, o) /\ p.relocs = o.relocs
          /\ o.size[x.section] <= x.offset
      BY <1>2, <1>6, <2>2, <3>1, LaidOutFacts DEF Updates, Places
    <3>3. RelocsAt(o, x, s) = {}
      BY <1>7, <3>2, Unrelocated
    <3> QED BY <1>2, <2>2, <3>2, <3>3 DEF RelocsAt
  <2> QED BY <1>5, <2>1, <2>2
<1>9. Awaited(name, x, s)'
  BY <1>1, <1>8 DEF Awaited
<1>10. RelocsAt(objects[name], x, s)' = {}
  BY <1>6, <1>8 DEF RelocsAt
<1> QED BY <1>9, <1>10 DEF EmittedAt

\* When a definition is come to, its sites are what is awaited of it.
LEMMA EmittedByData ==
  ASSUME Formed, AllLaidOut, Defining, OneAllocation, Emitted, [Next]_vars, AddDataRelocations,
         NEW name, NEW x, NEW s, Site(name, x, s)'
  PROVE  EmittedAt(name, x, s)'
<1>1. /\ phase = "data relocations" /\ phase' = phase /\ Running /\ sites = {} /\ call = {}
      /\ call' = {} /\ UNCHANGED <<input, objects, relocs_rva>>
      /\ todo # <<>> /\ todo' = Tail(todo)
  BY DEF AddDataRelocations, Running, Idle
<1>2. PICK m, a :
        LET d == input.definitions[m]
        IN  /\ m \in DOMAIN input.definitions
            /\ Head(todo) = d /\ d.object \in DOMAIN objects
            /\ a \in objects[d.object].allocs /\ OfDefinition(d, a)
            /\ body' = {[object |-> d.object, rva |-> d.rva,
                         section |-> a.section, offset |-> a.offset]}
            /\ sites' = SitesIn(d.rva, d.size)
  BY DataStep
<1>3. PICK d : d = input.definitions[m]
  OBVIOUS
<1>4. PICK b : b = [object |-> d.object, rva |-> d.rva,
                    section |-> a.section, offset |-> a.offset]
  OBVIOUS
<1>5. /\ body' = {b} /\ b.object = d.object /\ b.rva = d.rva
      /\ b.section = a.section /\ b.offset = a.offset
      /\ a.rva = d.rva /\ a.size = d.size /\ a.what = "definition"
      /\ Head(todo) = d /\ d.object \in DOMAIN objects /\ a \in objects[d.object].allocs
  BY <1>2, <1>3, <1>4 DEF OfDefinition
<1>6. name \in DOMAIN objects /\ x \in objects[name].allocs
  BY <1>1 DEF Site
<1>7. Site(name, x, s) /\ EmittedAt(name, x, s) /\ x.what = "definition"
  BY <1>1, <1>6, SiteBefore DEF Defining, OnlyDefinitions
<1>8. s \in Nat /\ x.rva <= s /\ s < x.rva + x.size
  BY <1>7, SiteFacts
<1>9. /\ 1 \in DOMAIN todo /\ todo[1] = d
      /\ \A n \in DOMAIN Tail(todo) :
           n + 1 \in DOMAIN todo /\ n + 1 # 1 /\ Tail(todo)[n] = todo[n + 1]
      /\ \A n \in DOMAIN todo \ {1} : n - 1 \in DOMAIN Tail(todo) /\ Tail(todo)[n - 1] = todo[n]
      /\ \A k, n \in DOMAIN todo : todo[k].rva = todo[n].rva => k = n
  <2>1. IsList(todo) /\ Walking
    BY DEF Formed, TypeOK
  <2>2. \A k, n \in DOMAIN todo : todo[k].rva = todo[n].rva => k = n
    BY <1>1, <2>1 DEF Walking
  <2> QED BY <1>1, <1>5, <2>1, <2>2, TailOfList
<1>10. RelocsAt(objects[name], x, s)' = RelocsAt(objects[name], x, s)
  BY <1>1 DEF RelocsAt
<1>11. CASE x.rva = d.rva
  <2>1. name = d.object /\ x = a
    BY <1>5, <1>6, <1>7, <1>11 DEF OneAllocation
  <2>2. Awaited(name, x, s)
    BY <1>1, <1>5, <1>7, <1>9, <1>11 DEF Awaited
  <2>3. RelocsAt(objects[name], x, s) = {}
    BY <1>7, <2>2 DEF EmittedAt
  <2>4. s \in DOMAIN relocs_rva => s \in sites'
    BY <1>2, <1>3, <1>5, <1>8, <2>1 DEF SitesIn
  <2>5. BodyOf(b, a)'
    <3>1. \A t \in sites' : t < d.rva + d.size
      BY <1>2, <1>3 DEF SitesIn
    <3> QED BY <1>1, <1>5, <3>1 DEF BodyOf
  <2>6. InBody(name, x)'
    BY <1>5, <2>1, <2>5 DEF InBody
  <2>7. s \in DOMAIN relocs_rva => Awaited(name, x, s)'
    BY <2>4, <2>6 DEF Awaited
  <2> QED BY <1>1, <1>10, <2>3, <2>7 DEF EmittedAt
<1>12. CASE x.rva # d.rva
  <2>1. ~InBody(name, x)'
    BY <1>5, <1>12 DEF InBody, BodyOf
  <2>2. Awaited(name, x, s) <=> \E n \in DOMAIN todo : todo[n].rva = x.rva
    BY <1>1, <1>7 DEF Awaited
  <2>3. Awaited(name, x, s)' <=> \E n \in DOMAIN Tail(todo) : Tail(todo)[n].rva = x.rva
    BY <1>1, <1>7, <2>1 DEF Awaited
  <2>4. Awaited(name, x, s)' <=> Awaited(name, x, s)
    BY <1>9, <1>12, <2>2, <2>3
  <2>5. PICK p : p = objects'[name]
    OBVIOUS
  <2>6. RelocsAt(p, x, s) = RelocsAt(objects[name], x, s)
    BY <1>1, <2>5
  <2> QED BY <1>1, <1>6, <1>7, <2>4, <2>5, <2>6, StaysEmitted
<1> QED BY <1>11, <1>12

\* Functions of the same extent have the same branches.
LEMMA SameBranches ==
  ASSUME IsInput(input), NEW f, NEW g,
         \E n \in DOMAIN input.functions : input.functions[n] = f,
         \E n \in DOMAIN input.functions : input.functions[n] = g,
         f.rva = g.rva, f.size = g.size
  PROVE  Cleared(f) = Cleared(g)
<1>1. f.branches = g.branches
  BY DEF IsInput
<1>2. Outward(f) = Outward(g)
  BY <1>1 DEF Outward
<1>3. \A b : BranchSite(f, b) = BranchSite(g, b)
  BY DEF BranchSite
<1> QED BY <1>2, <1>3 DEF Cleared, Branches

\* A function's sites are awaited, and no branch of it is news to the others,
\* unless it lies over them.
LEMMA EmittedByFunction ==
  ASSUME Formed, AllLaidOut, Emitted, [Next]_vars, AddFunction,
         NEW name, NEW x, NEW s, Site(name, x, s)'
  PROVE  EmittedAt(name, x, s)'
<1>1. /\ phase = "functions" /\ phase' = phase /\ Running /\ sites = {} /\ call = {}
      /\ call' = {} /\ input' = input
  BY DEF AddFunction, Running, Idle
<1>2. PICK n, home, e, a :
        LET f == input.functions[n]
        IN  /\ n \in DOMAIN input.functions
            /\ IsFunction(f) /\ home \in FunctionLocation(f)
            /\ Extended(f) /\ Allots(home, e, a, FunctionName(f))
            /\ a = Appended(Object(home), "text", "function", f.rva, f.size, Cleared(f))
            /\ body' = {[object |-> home, rva |-> f.rva,
                         section |-> "text", offset |-> a.offset]}
            /\ sites' = {t \in DOMAIN relocs_rva' : f.rva <= t /\ t < f.rva + f.size}
  BY FunctionStep
<1>3. PICK f : f = input.functions[n]
  OBVIOUS
<1>4. PICK b : b = [object |-> home, rva |-> f.rva, section |-> "text", offset |-> a.offset]
  OBVIOUS
<1>5. PICK o : o = Object(home)
  OBVIOUS
<1>6. /\ IsFunction(f) /\ FunctionLocation(f) # {} /\ Extended(f)
      /\ f.rva \in Nat /\ f.size \in Nat
      /\ Updates(home, e) /\ e.allocs = o.allocs \cup {a} /\ e.relocs = o.relocs
      /\ WellFormed(o) /\ LaidOut(home, o)
  BY <1>2, <1>3, <1>5, LaidOutFacts DEF Allots, Updates, Places, IsFunction
<1>7. /\ a.section = "text" /\ a.rva = f.rva /\ a.size = f.size /\ a.what = "function"
      /\ a.offset = o.size["text"]
  BY <1>2, <1>3, <1>5 DEF Appended
<1>8. /\ body' = {b} /\ b.object = home /\ b.rva = f.rva
      /\ b.section = "text" /\ b.offset = a.offset
      /\ sites' = {t \in DOMAIN relocs_rva' : f.rva <= t /\ t < f.rva + f.size}
  BY <1>2, <1>3, <1>4
<1>9. PICK p : p = objects'[name]
  OBVIOUS
<1>10. name \in DOMAIN objects' /\ x \in p.allocs /\ WellFormed(p)
  BY <1>9, Growing DEF Site
<1>11. /\ x.section \in Sections /\ x.offset \in Nat /\ x.rva \in Nat /\ x.size \in Nat
       /\ s \in Nat /\ x.rva <= s /\ s < x.rva + x.size
  <2>1. x.section \in Sections /\ x.offset \in Nat /\ x.rva \in Nat /\ x.size \in Nat
    BY <1>10 DEF WellFormed, ObjectType, PlaceType
  <2> QED BY <2>1 DEF Site, Within
<1>12. \/ name \in DOMAIN objects /\ x \in objects[name].allocs
       \/ name = home /\ x = a
  <2>1. PICK A : A = {a}
    OBVIOUS
  <2>2. e.allocs \subseteq Object(home).allocs \cup A
    BY <1>5, <1>6, <2>1
  <2>3. \/ name \in DOMAIN objects /\ x \in objects[name].allocs
        \/ name = home /\ x \in A
    BY <1>6, <1>9, <1>10, <2>2, HeldBefore
  <2> QED BY <2>1, <2>3
<1>13. CASE name = home /\ x = a
  <2>1. RelocsAt(o, x, s) = {}
    <3>1. o.size[x.section] <= x.offset
      BY <1>7, <1>11, <1>13
    <3> QED BY <1>6, <1>11, <3>1, Unrelocated
  <2>2. p = e
    BY <1>6, <1>9, <1>13 DEF Updates
  <2>3. RelocsAt(objects[name], x, s)' = {}
    BY <1>6, <1>9, <2>1, <2>2 DEF RelocsAt
  <2>4. BodyOf(b, a)'
    <3>1. a \in objects'[home].allocs
      BY <1>9, <1>10, <1>13
    <3> QED BY <1>7, <1>8, <3>1 DEF BodyOf
  <2>5. s \in DOMAIN relocs_rva' => s \in sites'
    BY <1>7, <1>8, <1>11, <1>13
  <2>6. s \in DOMAIN relocs_rva' => Awaited(name, x, s)'
    BY <1>8, <1>13, <2>4, <2>5 DEF Awaited, InBody
  <2> QED BY <2>3, <2>6 DEF EmittedAt
<1>14. CASE name \in DOMAIN objects /\ x \in objects[name].allocs
  <2>1. Site(name, x, s) /\ EmittedAt(name, x, s)
    BY <1>1, <1>14, SiteBefore
  <2>2. RelocsAt(p, x, s) = RelocsAt(objects[name], x, s)
    <3>1. p.relocs = objects[name].relocs
      BY <1>5, <1>6, <1>9, <1>14, ObjectFacts DEF Updates
    <3> QED BY <3>1 DEF RelocsAt
  <2>3. ~InBody(name, x)'
    <3> SUFFICES ASSUME name = home, x.section = "text", x.offset = a.offset
                 PROVE  FALSE
      BY <1>8 DEF InBody, BodyOf
    <3>1. x \in o.allocs
      BY <1>5, <1>14, ObjectFacts
    <3>2. x.offset + x.size <= o.size["text"]
      BY <1>6, <3>1 DEF LaidOut
    <3> QED BY <1>7, <1>11, <3>2
  <2>4. Awaited(name, x, s)' <=> Awaited(name, x, s)
    BY <1>1, <2>3 DEF Awaited
  <2>5. s \in DOMAIN relocs_rva' => s \in DOMAIN relocs_rva
    <3> SUFFICES ASSUME s \in Cleared(f), ~Overlapped(x) PROVE s \in DOMAIN relocs_rva
      BY <1>6, <2>1 DEF Extended, Site, Certain, Formed, Handed
    <3>1. f.rva <= s /\ s + 4 <= f.rva + f.size
      BY <1>6, BranchFacts
    <3>2. f.rva < x.rva + x.size /\ x.rva < f.rva + f.size
      BY <1>6, <1>11, <3>1
    <3>3. x.what = "function" /\ f.rva = x.rva /\ f.size = x.size
      BY <1>2, <1>3, <1>6, <2>1, <3>2 DEF Site, Overlapped
    <3>4. Accounted(name, x)
      BY <1>14 DEF AllLaidOut, LaidOut
    <3>5. PICK k \in DOMAIN input.functions : OfFunction(input.functions[k], x)
      BY <3>3, <3>4 DEF Accounted, OfDefinition, Copied
    <3>6. PICK g : g = input.functions[k]
      OBVIOUS
    <3>7. g.rva = f.rva /\ g.size = f.size /\ Cleared(g) \subseteq DOMAIN relocs_rva
      BY <3>3, <3>5, <3>6 DEF OfFunction
    <3>8. Cleared(g) = Cleared(f)
      BY <1>2, <1>3, <3>5, <3>6, <3>7, SameBranches DEF Formed, TypeOK
    <3> QED BY <3>7, <3>8
  <2>6. s \in DOMAIN relocs_rva' <=> s \in DOMAIN relocs_rva
    BY <2>5, Kept
  <2> QED BY <1>9, <1>14, <2>1, <2>2, <2>4, <2>6, StaysEmitted
<1> QED BY <1>12, <1>13, <1>14

\* A site that is taken is awaited as it was.
LEMMA EmittedByChain ==
  ASSUME Formed, AllLaidOut, Relocating, Emitted, Running, [Next]_vars, StartChain,
         NEW name, NEW x, NEW s, Site(name, x, s)'
  PROVE  EmittedAt(name, x, s)'
<1>1. /\ UNCHANGED <<input, objects, relocs_rva, phase, todo, body>> /\ call = {}
      /\ AtMostOne(body) /\ \A t \in sites, b \in body : b.rva <= t
      /\ sites \subseteq DOMAIN relocs_rva /\ \A t \in DOMAIN relocs_rva : t \in Nat
  BY DEF StartChain, Formed, TypeOK
<1>2. name \in DOMAIN objects /\ x \in objects[name].allocs
  BY <1>1 DEF Site
<1>3. Site(name, x, s) /\ EmittedAt(name, x, s)
  BY <1>2, SiteBefore
<1>4. PICK t \in sites, b \in body :
        /\ call' = {[reloc |-> relocs_rva[t],
                     at |-> [section |-> b.section, offset |-> b.offset + (t - b.rva)]]}
        /\ sites' = sites \ {t}
  BY DEF StartChain
<1>5. PICK a \in objects[b.object].allocs : BodyOf(b, a)
  BY DEF Relocating
<1>6. \A c \in call' : c.at = Place(a, t)
  BY <1>4, <1>5 DEF BodyOf, Place
<1>7. t \in Nat /\ a.rva <= t /\ t < a.rva + a.size
  BY <1>1, <1>4, <1>5 DEF BodyOf
<1>8. \A y \in body : y = b
  BY <1>1 DEF AtMostOne
<1>9. ASSUME b.object = name, x.section = a.section,
             \/ x.offset = a.offset /\ x.rva = a.rva
             \/ Place(x, s) = Place(a, t)
      PROVE  x = a
  <2>1. /\ WellFormed(objects[name]) /\ LaidOut(name, objects[name])
        /\ s \in Nat /\ x.rva <= s /\ s < x.rva + x.size /\ x.offset \in Nat /\ x.rva \in Nat
        /\ x.size \in Nat
    BY <1>3, SiteFacts
  <2>2. PICK o : o = objects[name]
    OBVIOUS
  <2>3. /\ WellFormed(o) /\ x \in o.allocs /\ a \in o.allocs
        /\ \A u, v \in o.allocs : u # v => Disjoint(u, v)
    BY <1>2, <1>5, <1>9, <2>1, <2>2 DEF LaidOut
  <2>4. CASE Place(x, s) = Place(a, t)
    BY <1>7, <2>1, <2>3, <2>4, SamePlace
  <2>5. CASE x.offset = a.offset /\ x.rva = a.rva
    <3>1. a.size \in Nat /\ a.size > 0 /\ x.size > 0
      BY <1>7, <2>1, <2>3, <2>5 DEF WellFormed, ObjectType
    <3>2. ~(x.offset + x.size <= a.offset) /\ ~(a.offset + a.size <= x.offset)
      BY <2>1, <2>5, <3>1
    <3>3. ~Disjoint(x, a)
      BY <1>9, <3>1, <3>2 DEF Disjoint
    <3> QED BY <2>3, <3>3
  <2> QED BY <1>9, <2>4, <2>5
<1>10. InBody(name, x)' <=> b.object = name /\ x = a
  <2>1. ASSUME BodyOf(b, x)', b.object = name PROVE x = a
    <3>1. x.section = a.section /\ x.offset = a.offset /\ x.rva = a.rva
      BY <1>5, <2>1 DEF BodyOf
    <3> QED BY <1>9, <2>1, <3>1
  <2>2. BodyOf(b, a)'
    BY <1>1, <1>4, <1>5 DEF BodyOf
  <2> QED BY <1>1, <1>8, <2>1, <2>2 DEF InBody
<1>11. InBody(name, x) <=> b.object = name /\ x = a
  <2>1. ASSUME BodyOf(b, x), b.object = name PROVE x = a
    <3>1. x.section = a.section /\ x.offset = a.offset /\ x.rva = a.rva
      BY <1>5, <2>1 DEF BodyOf
    <3> QED BY <1>9, <2>1, <3>1
  <2> QED BY <1>5, <1>8, <2>1 DEF InBody
<1>12. (\E y \in body : y.object = name /\ \E c \in call' : c.at = Place(x, s))
       <=> b.object = name /\ x = a /\ s = t
  <2>1. (\E y \in body : y.object = name /\ \E c \in call' : c.at = Place(x, s))
        <=> b.object = name /\ Place(a, t) = Place(x, s)
    BY <1>4, <1>6, <1>8
  <2>2. ASSUME b.object = name, Place(a, t) = Place(x, s) PROVE x = a /\ s = t
    <3>1. x.section = a.section
      BY <2>2 DEF Place
    <3>2. x = a
      BY <1>9, <2>2, <3>1
    <3>3. x.offset + (s - x.rva) = x.offset + (t - x.rva)
      BY <2>2, <3>2 DEF Place
    <3>4. s \in Nat /\ x.offset \in Nat /\ x.rva \in Nat
      BY <1>3, SiteFacts
    <3> QED BY <1>7, <3>2, <3>3, <3>4
  <2> QED BY <2>1, <2>2
<1>13. Awaited(name, x, s)' <=> Awaited(name, x, s)
  <2>1. Awaited(name, x, s)' <=>
          \/ x.what = "definition" /\ phase = "definitions"
          \/ /\ x.what = "definition" /\ phase = "data relocations"
             /\ \E n \in DOMAIN todo : todo[n].rva = x.rva
          \/ InBody(name, x)' /\ s \in sites'
          \/ \E y \in body : y.object = name /\ \E c \in call' : c.at = Place(x, s)
    BY <1>1 DEF Awaited, Place
  <2>2. Awaited(name, x, s) <=>
          \/ x.what = "definition" /\ phase = "definitions"
          \/ /\ x.what = "definition" /\ phase = "data relocations"
             /\ \E n \in DOMAIN todo : todo[n].rva = x.rva
          \/ InBody(name, x) /\ s \in sites
    BY <1>1 DEF Awaited
  <2> QED BY <1>4, <1>10, <1>11, <1>12, <2>1, <2>2
<1>14. PICK p : p = objects'[name]
  OBVIOUS
<1>15. RelocsAt(p, x, s) = RelocsAt(objects[name], x, s)
  BY <1>1, <1>14
<1> QED BY <1>1, <1>2, <1>3, <1>13, <1>14, <1>15, StaysEmitted

\* Where a loop ends nothing is awaited of it any more, and what was is there.
LEMMA EmittedByMove ==
  ASSUME Formed, AllLaidOut, Defining, Emitted, Running', [Next]_vars, Moves,
         NEW name, NEW x, NEW s, Site(name, x, s)'
  PROVE  EmittedAt(name, x, s)'
<1>1. UNCHANGED <<input, objects, relocs_rva, body, sites, call>>
  BY DEF Moves
<1>2. Running
  BY DEF Moves, StartDataRelocations, StartFunctions, SkipFunction, Finish, Running, Failures
<1>3. name \in DOMAIN objects /\ x \in objects[name].allocs
  BY <1>1 DEF Site
<1>4. Site(name, x, s) /\ EmittedAt(name, x, s)
  BY <1>2, <1>3, SiteBefore
<1>5. PICK p : p = objects'[name]
  OBVIOUS
<1>6. RelocsAt(p, x, s) = RelocsAt(objects[name], x, s)
  BY <1>1, <1>5
<1>7. ASSUME Awaited(name, x, s)' <=> Awaited(name, x, s) PROVE EmittedAt(name, x, s)'
  BY <1>1, <1>3, <1>4, <1>5, <1>6, <1>7, StaysEmitted
<1>8. InBody(name, x)' <=> InBody(name, x)
  BY <1>1 DEF InBody, BodyOf
<1>9. (\E b \in body : b.object = name /\ \E c \in call : c.at = Place(x, s))'
      <=> \E b \in body : b.object = name /\ \E c \in call : c.at = Place(x, s)
  BY <1>1 DEF Place
<1>10. CASE StartDataRelocations
  <2>1. phase = "definitions" /\ phase' = "data relocations" /\ todo' = input.definitions
    BY <1>10 DEF StartDataRelocations
  <2>2. x.what = "definition" /\ Accounted(name, x)
    BY <1>3, <2>1 DEF Defining, OnlyDefinitions, AllLaidOut, LaidOut
  <2>3. \E m \in DOMAIN input.definitions : input.definitions[m].rva = x.rva
    BY <2>2 DEF Accounted, OfDefinition, OfFunction, Copied
  <2>4. Awaited(name, x, s)' /\ Awaited(name, x, s)
    BY <2>1, <2>2, <2>3 DEF Awaited
  <2> QED BY <1>7, <2>4
<1>11. CASE StartFunctions
  <2>1. /\ phase = "data relocations" /\ phase' = "functions" /\ sites = {} /\ call = {}
        /\ DOMAIN todo = {}
    <3>1. todo = <<>> /\ DOMAIN Empty.symbols = {} /\ Empty.symbols = <<>>
      BY <1>11, EmptyFacts DEF StartFunctions, Formed, TypeOK
    <3> QED BY <1>11, <3>1 DEF StartFunctions, Idle
  <2>2. ~Awaited(name, x, s)' /\ ~Awaited(name, x, s)
    BY <1>1, <2>1 DEF Awaited
  <2> QED BY <1>7, <2>2
<1>12. CASE SkipFunction \/ Finish
  <2>1. phase = "functions" /\ phase' \in {"functions", "built"}
    BY <1>12 DEF SkipFunction, Finish
  <2>2. Awaited(name, x, s)' <=> Awaited(name, x, s)
    BY <1>1, <1>8, <1>9, <2>1 DEF Awaited
  <2> QED BY <1>7, <2>2
<1>13. CASE UNCHANGED <<phase, todo>>
  <2>1. Awaited(name, x, s)' <=> Awaited(name, x, s)
    BY <1>1, <1>8, <1>9, <1>13 DEF Awaited
  <2> QED BY <1>7, <2>1
<1>14. phase' \notin Failures
  BY DEF Running, Failures
<1> QED BY <1>10, <1>11, <1>12, <1>13, <1>14 DEF Moves

\* Where a call is made for: a site of an allocation that is recorded, and no
\* longer among those to take if the allocation is the body's.
LEMMA CallPlace ==
  ASSUME Formed, Relocating, NEW c \in call, NEW b \in body
  PROVE  \E a, t :
           /\ a \in objects[b.object].allocs /\ t \in DOMAIN relocs_rva /\ t \in Nat
           /\ a.rva <= t /\ t < a.rva + a.size
           /\ c.at = Place(a, t) /\ c.reloc = relocs_rva[t]
           /\ \/ BodyOf(b, a) /\ t \notin sites
              \/ a.what = "word" /\ t = a.rva
<1>1. \A t \in DOMAIN relocs_rva : t \in Nat
  BY DEF Formed, TypeOK
<1>2. CASE ForSite(b, c)
  BY <1>1, <1>2 DEF ForSite
<1>3. CASE ForWord(b, c)
  BY <1>1, <1>3 DEF ForWord
<1> QED BY <1>2, <1>3 DEF Relocating

\* After a call the next is made for the word it copied, if at all.
LEMMA CallNext ==
  ASSUME NEW c, NEW b, NEW e, Emits(c, b, e), NEW d \in call'
  PROVE  \E a : /\ a \in e.allocs /\ a.what = "word" /\ a.size = 4 /\ a.rva \in Nat
                /\ d.at = Place(a, a.rva)
                /\ \A x \in objects[b.object].allocs : x # a \/ x.what = "word"
<1>1. PICK a : CopiesInto(objects[b.object], e, c.reloc, a)
  BY DEF Emits, Refers
<1>2. a \in e.allocs /\ a.rva \in Nat
  BY <1>1 DEF CopiesInto, Places
<1>3. a.what = "word" /\ a.size = 4 /\ Follow(c.reloc, Place(a, a.rva))
  BY <1>1 DEF CopiesInto
<1> QED BY <1>2, <1>3 DEF Follow

\* A call adds its relocation, and no other.
LEMMA RelocsAfterCall ==
  ASSUME NEW o, NEW e, Grows(o, e), NEW a, NEW t, NEW at, at = Place(a, t),
         NEW name, Relocates(o, e, at, name), NEW x, NEW s
  PROVE  /\ Place(x, s) # at => RelocsAt(e, x, s) = RelocsAt(o, x, s)
         /\ Place(x, s) = at /\ RelocsAt(o, x, s) = {} =>
              \E n \in DOMAIN e.relocs :
                RelocsAt(e, x, s) = {n} /\ e.symbols[e.relocs[n].symbol].name = name
<1>1. PICK new :
        /\ new \notin DOMAIN o.relocs /\ DOMAIN e.relocs = DOMAIN o.relocs \cup {new}
        /\ e.relocs[new].section = at.section /\ e.relocs[new].offset = at.offset
        /\ e.symbols[e.relocs[new].symbol].name = name
  BY DEF Relocates
<1>2. \A n \in DOMAIN o.relocs : e.relocs[n] = o.relocs[n]
  BY DEF Grows
<1>3. Place(x, s) = at <=> at.section = x.section /\ at.offset = x.offset + (s - x.rva)
  BY DEF Place
<1>4. CASE Place(x, s) # at
  <2>1. new \notin RelocsAt(e, x, s)
    BY <1>1, <1>3, <1>4 DEF RelocsAt
  <2> QED BY <1>1, <1>2, <1>4, <2>1 DEF RelocsAt
<1>5. CASE Place(x, s) = at
  <2>1. RelocsAt(e, x, s) = RelocsAt(o, x, s) \cup {new}
    BY <1>1, <1>2, <1>3, <1>5 DEF RelocsAt
  <2> QED BY <1>1, <1>5, <2>1
<1> QED BY <1>4, <1>5

\* A call relocates the place it is made for, and disturbs no other.
LEMMA EmittedByCall ==
  ASSUME Formed, AllLaidOut, Relocating, Emitted, Running, [Next]_vars,
         ReferByName \/ CopyString \/ CopyWord, AllLaidOut',
         NEW name, NEW x, NEW s, Site(name, x, s)'
  PROVE  EmittedAt(name, x, s)'
<1>1. PICK c, b, e : Emits(c, b, e)
  BY EmitStep
<1>2. /\ c \in call /\ b \in body /\ b.object \in DOMAIN objects
      /\ Updates(b.object, e) /\ Relocates(objects[b.object], e, c.at, NameOf(c.reloc))
      /\ UNCHANGED <<input, relocs_rva, phase, todo, body, sites>>
  BY <1>1 DEF Emits
<1>3. (\A y \in body : y = b) /\ (\A d \in call : d = c)
  BY <1>2 DEF Formed, TypeOK, AtMostOne
<1>4. name \in DOMAIN objects /\ x \in objects[name].allocs
  <2>1. PICK A : /\ e.allocs = Object(b.object).allocs \cup A
                 /\ \A y \in A : y.what \in Copied
    BY <1>1, EmittedAllocs
  <2>2. PICK home : home = b.object
    OBVIOUS
  <2>3. e.allocs \subseteq Object(home).allocs \cup A /\ Updates(home, e)
    BY <1>2, <2>1, <2>2
  <2>4. name \in DOMAIN objects' /\ x \in objects'[name].allocs /\ x \notin A
    BY <2>1 DEF Site, Copied
  <2>5. ASSUME NEW other \in DOMAIN objects', NEW y \in objects'[other].allocs
        PROVE  \/ other \in DOMAIN objects /\ y \in objects[other].allocs
               \/ other = home /\ y \in A
    BY <2>3, HeldBefore
  <2> QED BY <2>4, <2>5
<1>5. Site(name, x, s) /\ EmittedAt(name, x, s) /\ x.what \notin Copied
  BY <1>4, SiteBefore DEF Site
<1>6. PICK p : p = objects'[name]
  OBVIOUS
<1>7. InBody(name, x)' <=> InBody(name, x)
  <2>1. \A y \in body : y.object = name => (BodyOf(y, x)' <=> BodyOf(y, x))
    <3>1. x \in objects'[name].allocs
      BY DEF Site
    <3> QED BY <1>2, <1>4, <3>1 DEF BodyOf
  <2> QED BY <1>2, <2>1 DEF InBody
<1>8. Awaited(name, x, s)' <=>
        \/ x.what = "definition" /\ phase = "definitions"
        \/ /\ x.what = "definition" /\ phase = "data relocations"
           /\ \E n \in DOMAIN todo : todo[n].rva = x.rva
        \/ InBody(name, x) /\ s \in sites
        \/ \E y \in body : y.object = name /\ \E d \in call' : d.at = Place(x, s)
  BY <1>2, <1>7 DEF Awaited, Place
<1>9. CASE name # b.object
  <2>1. p = objects[name]
    BY <1>2, <1>4, <1>6, <1>9 DEF Updates
  <2>2. Awaited(name, x, s)' <=> Awaited(name, x, s)
    BY <1>3, <1>8, <1>9 DEF Awaited
  <2>3. RelocsAt(p, x, s) = RelocsAt(objects[name], x, s)
    BY <2>1
  <2> QED BY <1>2, <1>4, <1>5, <1>6, <2>2, <2>3, StaysEmitted
<1>10. CASE name = b.object
  <2>1. PICK o : o = objects[name]
    OBVIOUS
  <2>2. /\ p = e /\ WellFormed(o) /\ WellFormed(e) /\ Grows(o, e) /\ x \in o.allocs /\ x \in e.allocs
        /\ Relocates(o, e, c.at, NameOf(c.reloc))
    BY <1>2, <1>4, <1>6, <1>10, <2>1, ObjectFacts DEF Updates, Grows
  <2>3. /\ \A u, v \in o.allocs : u # v => Disjoint(u, v)
        /\ \A u, v \in e.allocs : u # v => Disjoint(u, v)
    <3>1. \A u, v \in o.allocs : u # v => Disjoint(u, v)
      BY <1>4, <2>1 DEF AllLaidOut, LaidOut
    <3>2. LaidOut(name, p)'
      BY <1>6 DEF AllLaidOut, Site
    <3>3. \A u, v \in p.allocs : u # v => Disjoint(u, v)
      BY <3>2 DEF LaidOut, Disjoint
    <3> QED BY <2>2, <3>1, <3>3
  <2>4. s \in Nat /\ x.rva <= s /\ s < x.rva + x.size
    BY <1>5, SiteFacts
  <2>5. ~\E d \in call' : d.at = Place(x, s)
    <3> SUFFICES ASSUME NEW d \in call', d.at = Place(x, s) PROVE FALSE
      OBVIOUS
    <3>1. PICK a : /\ a \in e.allocs /\ a.what = "word" /\ a.size = 4 /\ a.rva \in Nat
                   /\ d.at = Place(a, a.rva)
      BY <1>1, CallNext
    <3>2. PICK t : t = a.rva
      OBVIOUS
    <3>3. t \in Nat /\ a.rva <= t /\ t < a.rva + a.size /\ Place(x, s) = Place(a, t)
      BY <3>1, <3>2
    <3>4. x = a
      BY <2>2, <2>3, <2>4, <3>1, <3>3, SamePlace
    <3> QED BY <1>5, <3>1, <3>4 DEF Copied
  <2>6. PICK a, t :
          /\ a \in o.allocs /\ t \in DOMAIN relocs_rva /\ t \in Nat
          /\ a.rva <= t /\ t < a.rva + a.size
          /\ c.at = Place(a, t) /\ c.reloc = relocs_rva[t]
          /\ \/ BodyOf(b, a) /\ t \notin sites
             \/ a.what = "word" /\ t = a.rva
    BY <1>2, <1>10, <2>1, CallPlace
  <2>7. PICK at, symbol : at = c.at /\ symbol = NameOf(c.reloc)
    OBVIOUS
  <2>8. /\ Place(x, s) # at => RelocsAt(e, x, s) = RelocsAt(o, x, s)
        /\ Place(x, s) = at /\ RelocsAt(o, x, s) = {} =>
              \E n \in DOMAIN e.relocs :
                RelocsAt(e, x, s) = {n} /\ e.symbols[e.relocs[n].symbol].name = symbol
    BY <2>2, <2>6, <2>7, RelocsAfterCall
  <2>9. CASE Place(x, s) = at
    <3>1. x = a /\ s = t
      BY <2>2, <2>3, <2>4, <2>6, <2>7, <2>9, SamePlace
    <3>2. BodyOf(b, x) /\ s \notin sites /\ x.rva = b.rva
      BY <1>5, <2>6, <3>1 DEF Copied, BodyOf
    <3>3. /\ phase # "definitions"
          /\ phase = "data relocations" => \A n \in DOMAIN todo : todo[n].rva # b.rva
      BY <1>2 DEF Relocating
    <3>4. ~Awaited(name, x, s)'
      BY <1>8, <2>5, <3>2, <3>3
    <3>5. Awaited(name, x, s)
      BY <1>2, <1>10, <2>7, <2>9 DEF Awaited
    <3>6. RelocsAt(o, x, s) = {}
      BY <1>5, <2>1, <3>5 DEF EmittedAt
    <3>7. PICK n \in DOMAIN e.relocs :
            RelocsAt(e, x, s) = {n} /\ e.symbols[e.relocs[n].symbol].name = symbol
      BY <2>8, <2>9, <3>6
    <3>8. s \in DOMAIN relocs_rva' /\ symbol = NameOf(relocs_rva[s])'
      BY <1>2, <2>6, <2>7, <3>1 DEF NameOf
    <3>9. RelocatedTo(objects[name], x, s)'
      <4>1. RelocsAt(objects[name], x, s)' = {n}
        BY <1>6, <2>2, <3>7 DEF RelocsAt
      <4> QED BY <1>6, <2>2, <3>7, <3>8, <4>1 DEF RelocatedTo
    <3> QED BY <3>4, <3>8, <3>9 DEF EmittedAt
  <2>10. CASE Place(x, s) # at
    <3>1. Awaited(name, x, s)' <=> Awaited(name, x, s)
      BY <1>3, <1>8, <2>5, <2>7, <2>10 DEF Awaited
    <3>2. RelocsAt(p, x, s) = RelocsAt(objects[name], x, s)
      BY <2>1, <2>2, <2>8, <2>10
    <3> QED BY <1>2, <1>4, <1>5, <1>6, <3>1, <3>2, StaysEmitted
  <2> QED BY <2>9, <2>10
<1> QED BY <1>9, <1>10

\* The sites of a definition or a function are relocated as the loops come to
\* them.
LEMMA EmittedStep ==
  ASSUME Formed, AllLaidOut, OneAllocation, Defining, Relocating, Emitted, [Next]_vars,
         Formed', AllLaidOut'
  PROVE  Emitted'
<1> SUFFICES ASSUME Running', NEW name, NEW x, NEW s, Site(name, x, s)'
             PROVE  EmittedAt(name, x, s)'
  <2> SUFFICES ASSUME Running',
                      NEW name \in DOMAIN objects', NEW x \in objects'[name].allocs,
                      (x.what \notin Copied)', NEW s \in Within(x)', Certain(x, s)'
               PROVE  EmittedAt(name, x, s)'
    BY DEF Emitted
  <2>1. Site(name, x, s)'
    BY DEF Site
  <2> QED BY <2>1
<1>1. ~Over => Running
  BY DEF Over, Running, Formed, TypeOK
<1> QED BY <1>1, Steps, EmittedByDefinition, EmittedByData, EmittedByFunction,
        EmittedByChain, EmittedByCall, EmittedByMove

-----------------------------------------------------------------------------
(* What is copied.                                                         *)

\* What a word points at does not change.
LEMMA PointeeStays ==
  ASSUME Formed, [Next]_vars, NEW u
  PROVE  /\ u \in DOMAIN relocs_rva => Pointee(u)' = Pointee(u)
         /\ u \notin DOMAIN relocs_rva => Pointee(u)' = {}
<1>1. CASE AddFunction
  <2>1. PICK f : Extended(f)
    BY <1>1, FunctionStep
  <2>2. CASE u \in Cleared(f)
    <3>1. u \in DOMAIN relocs_rva' /\ relocs_rva'[u].kind = "Function"
      BY <2>1, <2>2 DEF Extended
    <3>2. u \in DOMAIN relocs_rva => relocs_rva[u].kind = "Function"
      BY <2>1, <3>1 DEF Extended
    <3> QED BY <3>1, <3>2 DEF Pointee, Word
  <2>3. CASE u \notin Cleared(f)
    BY <2>1, <2>3 DEF Extended, Pointee, Word
  <2> QED BY <2>2, <2>3
<1>2. CASE ~AddFunction
  BY <1>2, Kept DEF Pointee, Word
<1> QED BY <1>1, <1>2

\* A cycle stays one.
LEMMA CycleStays ==
  ASSUME Formed, [Next]_vars, NEW t, t \in DOMAIN relocs_rva, OnCycle(t)
  PROVE  OnCycle(t)'
<1> SUFFICES ASSUME NEW reached \in SUBSET DOMAIN relocs_rva',
                    \A u \in reached \cup {t} :
                      Pointee(u)' \cap DOMAIN relocs_rva' \subseteq reached
             PROVE  t \in reached
  BY DEF OnCycle
<1> DEFINE known == reached \cap DOMAIN relocs_rva
<1>1. DOMAIN relocs_rva \subseteq DOMAIN relocs_rva'
  BY Kept
<1>2. \A u \in known \cup {t} : Pointee(u) \cap DOMAIN relocs_rva \subseteq known
  BY <1>1, PointeeStays
<1>3. known \in SUBSET DOMAIN relocs_rva
  OBVIOUS
<1> HIDE DEF known
<1>4. t \in known
  BY <1>2, <1>3 DEF OnCycle
<1> QED BY <1>4 DEF known

\* A target that a chain comes to again is on a cycle.
LEMMA CycleFound ==
  ASSUME Formed, ChainLinked, NEW c \in call, Word(c.reloc), c.reloc.target \in visited
  PROVE  OnCycle(c.reloc.target)
<1> DEFINE t == c.reloc.target
           last == Len(stack)
<1>1. /\ stack \in Seq(Nat) /\ last \in Nat /\ DOMAIN stack = 1 .. last
      /\ visited \subseteq DOMAIN relocs_rva
  <2>1. stack \in Seq(Nat) /\ visited \subseteq DOMAIN relocs_rva
    BY DEF Formed, TypeOK
  <2> QED BY <2>1
<1>2. /\ visited = {stack[n] : n \in DOMAIN stack}
      /\ \A n \in DOMAIN stack : n + 1 \in DOMAIN stack => stack[n + 1] \in Pointee(stack[n])
      /\ stack # <<>> => c.reloc = relocs_rva[stack[last]]
  BY DEF ChainLinked
<1>3. PICK i \in 1 .. last : stack[i] = t
  BY <1>1, <1>2
<1> HIDE DEF last
<1>4. last \in DOMAIN stack /\ t \in Pointee(stack[last]) /\ t \in DOMAIN relocs_rva
  <2>1. last \in DOMAIN stack /\ stack # <<>>
    <3>1. last \in DOMAIN stack
      BY <1>1, <1>3
    <3>2. Len(stack) # 0
      BY <1>1, <1>3 DEF last
    <3> QED BY <3>1, <3>2
  <2>2. stack[last] \in DOMAIN relocs_rva /\ c.reloc = relocs_rva[stack[last]]
    BY <1>1, <1>2, <2>1
  <2>3. Pointee(stack[last]) = {t}
    BY <2>2 DEF Pointee
  <2> QED BY <1>1, <2>1, <2>3
<1> SUFFICES ASSUME NEW reached \in SUBSET DOMAIN relocs_rva,
                    \A u \in reached \cup {t} :
                      Pointee(u) \cap DOMAIN relocs_rva \subseteq reached
             PROVE  t \in reached
  BY DEF OnCycle
<1> DEFINE S == {k \in Nat : i + k \in DOMAIN stack => stack[i + k] \in reached \cup {t}}
<1>5. 0 \in S
  BY <1>1, <1>3
<1>6. \A k \in Nat : k \in S => k + 1 \in S
  <2> SUFFICES ASSUME NEW k \in Nat, k \in S, i + (k + 1) \in DOMAIN stack
               PROVE  stack[i + (k + 1)] \in reached \cup {t}
    OBVIOUS
  <2>1. i + k \in DOMAIN stack /\ i + (k + 1) = (i + k) + 1
    BY <1>1
  <2>2. stack[i + k] \in reached \cup {t} /\ stack[i + (k + 1)] \in Pointee(stack[i + k])
    BY <1>2, <2>1
  <2>3. stack[i + (k + 1)] \in DOMAIN relocs_rva
    BY <1>1, <1>2
  <2> QED BY <2>2, <2>3
<1>7. last - i \in S
  <2>1. last - i \in Nat
    BY <1>1, <1>3
  <2> HIDE DEF S
  <2> QED BY <1>5, <1>6, <2>1, Induction
<1>8. i + (last - i) = last
  BY <1>1, <1>3
<1>9. stack[last] \in reached \cup {t}
  BY <1>4, <1>7, <1>8
<1> QED BY <1>4, <1>9

\* Each target of a chain is pointed at by the one before.
LEMMA ChainLinkedStep ==
  ASSUME Formed, ChainLinked, [Next]_vars
  PROVE  ChainLinked'
<1>1. CASE call' = {}
  BY <1>1 DEF ChainLinked
<1>2. CASE UNCHANGED <<call, stack, visited, relocs_rva>>
  BY <1>2 DEF ChainLinked, Pointee, Word
<1>3. CASE StartChain
  <2>1. stack' = <<>> /\ visited' = {}
    BY <1>3 DEF StartChain
  <2>2. DOMAIN stack' = {}
    <3>1. DOMAIN Empty.symbols = {} /\ Empty.symbols = <<>>
      BY EmptyFacts DEF Formed, TypeOK
    <3> QED BY <2>1, <3>1
  <2> QED BY <2>1, <2>2 DEF ChainLinked
<1>4. CASE ReferByName \/ CopyString \/ CopyWord
  <2>1. PICK c, b, e : Emits(c, b, e)
    BY <1>4, EmitStep
  <2> SUFFICES ASSUME call' # {} PROVE ChainLinked'
    BY <1>1
  <2>2. PICK a : CopiesInto(objects[b.object], e, c.reloc, a)
    BY <2>1 DEF Emits, Refers
  <2>3. PICK t : t = c.reloc.target
    OBVIOUS
  <2>4. /\ c \in call /\ relocs_rva' = relocs_rva /\ Word(c.reloc)
        /\ t \in Nat /\ stack' = Append(stack, t) /\ visited' = visited \cup {t}
        /\ t \in DOMAIN relocs_rva /\ \A d \in call' : d.reloc = relocs_rva[t]
    BY <2>1, <2>2, <2>3 DEF Emits, CopiesInto, Places, Follow
  <2>5. PICK last : last = Len(stack)
    OBVIOUS
  <2>6. /\ stack \in Seq(Nat) /\ last \in Nat /\ DOMAIN stack = 1 .. last
        /\ visited \subseteq DOMAIN relocs_rva
    <3>1. stack \in Seq(Nat) /\ visited \subseteq DOMAIN relocs_rva
      BY DEF Formed, TypeOK
    <3> QED BY <2>5, <3>1
  <2>7. /\ DOMAIN stack' = 1 .. last + 1 /\ Len(stack') = last + 1 /\ stack'[last + 1] = t
        /\ \A n \in 1 .. last : stack'[n] = stack[n]
    BY <2>4, <2>5, <2>6
  <2>8. /\ visited = {stack[n] : n \in DOMAIN stack}
        /\ \A n \in DOMAIN stack : n + 1 \in DOMAIN stack => stack[n + 1] \in Pointee(stack[n])
        /\ stack # <<>> => c.reloc = relocs_rva[stack[last]]
    BY <2>4, <2>5 DEF ChainLinked
  <2>9. 1 .. last + 1 = 1 .. last \cup {last + 1}
    BY <2>6
  <2>10. visited' = {stack'[n] : n \in DOMAIN stack'}
    <3>1. {stack'[n] : n \in DOMAIN stack'} = {stack'[n] : n \in 1 .. last} \cup {t}
      BY <2>7, <2>9
    <3>2. {stack'[n] : n \in 1 .. last} = {stack[n] : n \in 1 .. last}
      BY <2>7
    <3> QED BY <2>4, <2>6, <2>8, <3>1, <3>2
  <2>11. ASSUME NEW n \in DOMAIN stack', n + 1 \in DOMAIN stack'
         PROVE  stack'[n + 1] \in Pointee(stack'[n])
    <3>1. n \in 1 .. last /\ stack'[n] = stack[n]
      BY <2>6, <2>7, <2>11
    <3>2. CASE n # last
      <4>1. n + 1 \in 1 .. last
        BY <2>6, <3>1, <3>2
      <4> QED BY <2>6, <2>7, <2>8, <3>1, <4>1
    <3>3. CASE n = last
      <4>1. stack # <<>> /\ stack[last] \in DOMAIN relocs_rva
        <5>1. stack[last] \in visited
          BY <2>6, <2>8, <3>1, <3>3
        <5>2. Len(stack) # 0
          BY <2>5, <2>6, <3>1
        <5> QED BY <2>6, <5>1, <5>2
      <4>2. c.reloc = relocs_rva[stack[last]]
        BY <2>8, <4>1
      <4>3. Pointee(stack[last]) = {t}
        BY <2>3, <2>4, <4>1, <4>2 DEF Pointee
      <4> QED BY <2>7, <3>1, <3>3, <4>3
    <3> QED BY <3>2, <3>3
  <2>12. PICK list : list = stack'
    OBVIOUS
  <2>13. \A n \in DOMAIN list : n + 1 \in DOMAIN list => list[n + 1] \in Pointee(list[n])
    BY <2>11, <2>12
  <2>14. (\A n \in DOMAIN stack : n + 1 \in DOMAIN stack => stack[n + 1] \in Pointee(stack[n]))'
    BY <2>4, <2>12, <2>13 DEF Pointee, Word
  <2>15. \A d \in call' : d.reloc = relocs_rva'[stack'[Len(stack')]]
    BY <2>4, <2>7
  <2> QED BY <2>10, <2>14, <2>15 DEF ChainLinked
<1>5. \/ call' = {} \/ UNCHANGED <<call, stack, visited, relocs_rva>> \/ StartChain
      \/ ReferByName \/ CopyString \/ CopyWord
  BY Steps DEF Moves, AddDataDefinition, AddDataRelocations, AddFunction, Idle
<1> QED BY <1>1, <1>2, <1>3, <1>4, <1>5

\* The stage ends when nothing is left.
LEMMA EndedStep ==
  ASSUME Formed, Ended, [Next]_vars
  PROVE  Ended'
<1>1. CASE Moves
  BY <1>1 DEF Ended, Moves, Idle, Failures, StartDataRelocations, StartFunctions,
       SkipFunction, Finish
<1>2. AddDataDefinition \/ AddDataRelocations \/ AddFunction \/ StartChain \/ ReferByName
        \/ CopyString \/ CopyWord => phase' = phase
  BY DEF AddDataDefinition, AddDataRelocations, AddFunction, StartChain, ReferByName,
       CopyString, CopyWord
<1>3. AddDataDefinition \/ AddDataRelocations \/ AddFunction \/ ~Over => phase # "built"
  BY DEF AddDataDefinition, AddDataRelocations, AddFunction, Over
<1> QED BY <1>1, <1>2, <1>3, Steps DEF Ended

\* Copies are made for functions, into the function's object.
LEMMA UnpaddedStep ==
  ASSUME Formed, Relocating, ReviewedDataIsNotPadded, [Next]_vars
  PROVE  ReviewedDataIsNotPadded'
<1> DEFINE Function(name) == \E a \in objects[name].allocs : a.what = "function"
<1>1. ASSUME NEW name \in DOMAIN objects, Function(name)
      PROVE  \E a \in objects'[name].allocs : a.what = "function"
  BY <1>1, Growing DEF Grows
<1>2. ASSUME NEW name \in DOMAIN objects, NEW a \in objects[name].allocs, a.what \in Copied
      PROVE  \E f \in objects'[name].allocs : f.what = "function"
  <2>1. Function(name)
    BY <1>2 DEF ReviewedDataIsNotPadded
  <2> QED BY <1>1, <2>1
<1>3. CASE UNCHANGED objects
  BY <1>3 DEF ReviewedDataIsNotPadded
<1>4. ASSUME NEW home, NEW e, Updates(home, e), NEW A,
             e.allocs \subseteq Object(home).allocs \cup A,
             \A a \in A : a.what \in Copied =>
               \E f \in objects'[home].allocs : f.what = "function"
      PROVE  ReviewedDataIsNotPadded'
  <2> SUFFICES ASSUME NEW name \in DOMAIN objects', NEW a \in objects'[name].allocs,
                      a.what \in Copied
               PROVE  \E f \in objects'[name].allocs : f.what = "function"
    BY DEF ReviewedDataIsNotPadded, Copied
  <2>1. \/ name \in DOMAIN objects /\ a \in objects[name].allocs
        \/ name = home /\ a \in A
    BY <1>4, HeldBefore
  <2> QED BY <1>2, <1>4, <2>1
<1>5. CASE AddDataDefinition
  <2>1. PICK d, e, a : Allots(d.object, e, a, DefinitionName(d)) /\ OfDefinition(d, a)
    BY <1>5, DefinitionStep
  <2>2. PICK home : home = d.object
    OBVIOUS
  <2>3. PICK A : A = {a}
    OBVIOUS
  <2>4. Updates(home, e) /\ e.allocs \subseteq Object(home).allocs \cup A
    BY <2>1, <2>2, <2>3 DEF Allots, Places
  <2>5. \A x \in A : x.what \notin Copied
    BY <2>1, <2>3 DEF OfDefinition, Copied
  <2> QED BY <1>4, <2>4, <2>5
<1>6. CASE AddFunction
  <2>1. PICK f, home, e, a :
          /\ Allots(home, e, a, FunctionName(f))
          /\ a = Appended(Object(home), "text", "function", f.rva, f.size, Cleared(f))
    BY <1>6, FunctionStep
  <2>2. PICK A : A = {a}
    OBVIOUS
  <2>3. Updates(home, e) /\ e.allocs \subseteq Object(home).allocs \cup A
    BY <2>1, <2>2 DEF Allots, Places
  <2>4. \A x \in A : x.what \notin Copied
    BY <2>1, <2>2 DEF Appended, Copied
  <2> QED BY <1>4, <2>3, <2>4
<1>7. CASE ReferByName \/ CopyString \/ CopyWord
  <2>1. PICK c, b, e : Emits(c, b, e)
    BY <1>7, EmitStep
  <2>2. PICK A : /\ e.allocs = Object(b.object).allocs \cup A
                 /\ \A x \in A : x.what \in Copied /\ phase = "functions"
    BY <2>1, EmittedAllocs
  <2>3. PICK home : home = b.object
    OBVIOUS
  <2>4. /\ c \in call /\ b \in body /\ home \in DOMAIN objects
        /\ Updates(home, e) /\ e.allocs \subseteq Object(home).allocs \cup A
    BY <2>1, <2>2, <2>3 DEF Emits
  <2>5. phase = "functions" => Function(home)
    BY <2>3, <2>4 DEF Relocating, Idle
  <2>6. \A x \in A : \E f \in objects'[home].allocs : f.what = "function"
    BY <1>1, <2>2, <2>4, <2>5
  <2> QED BY <1>4, <2>4, <2>6
<1>8. Moves \/ AddDataRelocations \/ StartChain => UNCHANGED objects
  BY DEF Moves, AddDataRelocations, StartChain
<1> QED BY <1>3, <1>5, <1>6, <1>7, <1>8, Steps

\* The loop over the definitions ends with all of them emitted, and no object
\* loses any.
LEMMA DefinitionsEmittedStep ==
  ASSUME Formed, Defining, DefinitionsEmitted, [Next]_vars
  PROVE  DefinitionsEmitted'
<1> DEFINE Later == phase \in {"data relocations", "functions", "built"}
<1>1. input' = input
  BY Kept
<1>2. ASSUME NEW d, Emission(d)
      PROVE  Emission(d)'
  <2>1. PICK a \in objects[d.object].allocs :
          OfDefinition(d, a) /\ Named(objects[d.object], a)
    BY <1>2 DEF Emission
  <2>2. /\ d.object \in DOMAIN objects' /\ a \in objects'[d.object].allocs
        /\ Grows(objects[d.object], objects'[d.object])
    BY <1>2, <2>1, Growing DEF Grows, Emission
  <2>3. Named(objects[d.object], a)'
    BY <1>1, <2>1, <2>2 DEF Grows, Named
  <2>4. OfDefinition(d, a)'
    BY <2>1 DEF OfDefinition
  <2> QED BY <2>2, <2>3, <2>4 DEF Emission
<1>3. Later' => Later \/ StartDataRelocations
  <2>1. AddDataDefinition \/ AddDataRelocations \/ AddFunction \/ StartChain
          \/ ReferByName \/ CopyString \/ CopyWord => phase' = phase
    BY DEF AddDataDefinition, AddDataRelocations, AddFunction, StartChain, ReferByName,
         CopyString, CopyWord
  <2>2. CASE Moves
    BY <2>2 DEF Moves, Failures, StartFunctions, SkipFunction, Finish
  <2> QED BY <2>1, <2>2, Steps
<1>4. ASSUME Later \/ StartDataRelocations, NEW m \in DOMAIN input.definitions
      PROVE  Emission(input.definitions[m])
  <2>1. CASE Later
    BY <2>1 DEF DefinitionsEmitted
  <2>2. CASE StartDataRelocations
    <3>1. phase = "definitions" /\ todo = <<>>
      BY <2>2 DEF StartDataRelocations
    <3>2. DOMAIN todo = {}
      BY <3>1, EmptyFacts DEF Formed, TypeOK
    <3>3. OnlyDefinitions /\ Placed(input.definitions[m])
      BY <3>1, <3>2 DEF Defining, AllPlaced
    <3> QED BY <3>3 DEF Placed, OnlyDefinitions, Emission
  <2> QED BY <1>4, <2>1, <2>2
<1> HIDE DEF Later
<1>5. ASSUME Later', NEW m \in DOMAIN input'.definitions
      PROVE  Emission(input.definitions[m])'
  <2>1. Emission(input.definitions[m])
    BY <1>1, <1>3, <1>4, <1>5
  <2>2. PICK d : d = input.definitions[m]
    OBVIOUS
  <2>3. Emission(d)'
    BY <1>2, <2>1, <2>2
  <2> QED BY <1>1, <2>2, <2>3
<1> QED BY <1>5 DEF DefinitionsEmitted, Later

\* The next definition comes after the first k, where the end of its section
\* puts it.
LEMMA NextInOrder ==
  ASSUME Formed, InOrder, phase = "definitions", todo # <<>>
  PROVE  \E k \in Nat :
           /\ k + 1 \in DOMAIN input.definitions /\ Head(todo) = input.definitions[k + 1]
           /\ k + Len(todo) = Len(input.definitions) /\ EndAfter(k)
           /\ \A n \in DOMAIN todo : todo[n] = input.definitions[k + n]
           /\ DefinitionOffset(Head(todo)) = PlacedAt(input.definitions, k + 1, input.pad_rdata)
<1>1. IsInput(input) /\ IsList(todo) /\ IsList(input.definitions)
  BY DEF Formed, TypeOK, IsInput
<1>2. PICK k \in Nat : /\ k + Len(todo) = Len(input.definitions)
                       /\ \A n \in DOMAIN todo : todo[n] = input.definitions[k + n]
                       /\ EndAfter(k)
  BY DEF InOrder
<1>3. /\ 1 \in DOMAIN todo /\ Head(todo) = todo[1] /\ DOMAIN todo = 1 .. Len(todo)
      /\ Len(todo) \in Nat
      /\ DOMAIN input.definitions = 1 .. Len(input.definitions) /\ Len(input.definitions) \in Nat
  BY <1>1, TailOfList, ListDomain
<1>4. k + 1 \in DOMAIN input.definitions /\ Head(todo) = input.definitions[k + 1]
  <2>1. 1 <= Len(todo)
    BY <1>3
  <2> QED BY <1>2, <1>3, <2>1
<1>5. PICK d : d = input.definitions[k + 1]
  OBVIOUS
<1>6. d.storage \in Sections
  BY <1>1, <1>4, <1>5, DefinitionsTyped
<1>7. Object(d.object).size[d.storage]
        = SectionEnd(input.definitions, d.object, d.storage, input.pad_rdata)[k]
  BY <1>2, <1>6 DEF EndAfter
<1>8. (k + 1) - 1 = k
  OBVIOUS
<1>9. DefinitionOffset(d) = PlacedAt(input.definitions, k + 1, input.pad_rdata)
  BY <1>5, <1>7, <1>8 DEF DefinitionOffset, PlacedAt
<1> QED BY <1>2, <1>4, <1>5, <1>9

\* Emitting the next definition moves one section's end on, as its recursion
\* does, and no other.
LEMMA EndAfterStep ==
  ASSUME Formed, NEW k \in Nat, EndAfter(k), k + 1 \in DOMAIN input.definitions, input' = input,
         NEW d, d = input.definitions[k + 1], NEW e, Updates(d.object, e),
         e.size = [Object(d.object).size EXCEPT ![d.storage] = DefinitionOffset(d) + d.size]
  PROVE  EndAfter(k + 1)'
<1> SUFFICES ASSUME NEW name, NEW section \in Sections
             PROVE  Object(name)'.size[section]
                      = SectionEnd(input.definitions, name, section, input.pad_rdata)[k + 1]
  BY DEF EndAfter
<1>1. IsInput(input) /\ IsList(input.definitions) /\ d.storage \in Sections
  BY DefinitionsTyped DEF Formed, TypeOK, IsInput
<1>2. k + 1 \in 1 .. Len(input.definitions) /\ Len(input.definitions) \in Nat /\ (k + 1) - 1 = k
  BY <1>1, ListDomain
<1>3. PICK end : end = SectionEnd(input.definitions, name, section, input.pad_rdata)
  OBVIOUS
<1>4. end[k + 1] = IF d.object = name /\ d.storage = section
                   THEN AlignUp(end[k], d.alignment) + d.size
                   ELSE end[k]
  <2>1. \A m \in 1 .. Len(input.definitions) :
          end[m] = IF input.definitions[m].object = name /\ input.definitions[m].storage = section
                   THEN AlignUp(end[m - 1], input.definitions[m].alignment)
                          + input.definitions[m].size
                   ELSE end[m - 1]
    BY <1>2, <1>3, SectionEndFacts
  <2> QED BY <1>2, <2>1
<1>5. Object(name).size[section] = end[k]
  BY <1>3 DEF EndAfter
<1>6. Object(name).size \in [Sections -> Nat] /\ Object(d.object).size \in [Sections -> Nat]
  BY ObjectFacts DEF WellFormed, ObjectType
<1>7. CASE d.object = name
  <2>1. Object(name)' = e
    BY <1>7 DEF Updates, Object
  <2>2. CASE d.storage = section
    <3>1. e.size[section] = DefinitionOffset(d) + d.size
      BY <1>1, <1>6, <2>2
    <3>2. DefinitionOffset(d) = AlignUp(end[k], d.alignment)
      BY <1>5, <1>7, <2>2 DEF DefinitionOffset
    <3> QED BY <1>3, <1>4, <1>7, <2>1, <2>2, <3>1, <3>2
  <2>3. CASE d.storage # section
    <3>1. e.size[section] = Object(name).size[section]
      BY <1>1, <1>6, <1>7, <2>3
    <3> QED BY <1>3, <1>4, <1>5, <2>1, <2>3, <3>1
  <2> QED BY <2>2, <2>3
<1>8. CASE d.object # name
  <2>1. Object(name)' = Object(name)
    BY <1>8 DEF Updates, Object, Empty
  <2> QED BY <1>3, <1>4, <1>5, <1>8, <2>1
<1> QED BY <1>7, <1>8

\* The first k are emitted, one after the other.
LEMMA InOrderStep ==
  ASSUME Formed, InOrder, Relocating, [Next]_vars
  PROVE  InOrder'
<1> SUFFICES ASSUME phase' = "definitions" PROVE InOrder'
  BY DEF InOrder
<1>1. CASE AddDataDefinition
  <2>1. phase = "definitions" /\ todo # <<>> /\ todo' = Tail(todo) /\ input' = input
    BY <1>1 DEF AddDataDefinition
  <2>2. PICK k \in Nat :
           /\ k + 1 \in DOMAIN input.definitions /\ Head(todo) = input.definitions[k + 1]
           /\ k + Len(todo) = Len(input.definitions) /\ EndAfter(k)
           /\ \A n \in DOMAIN todo : todo[n] = input.definitions[k + n]
    BY <2>1, NextInOrder
  <2>3. PICK d : d = Head(todo)
    OBVIOUS
  <2>4. PICK e : /\ Updates(d.object, e)
                 /\ e.size = [Object(d.object).size EXCEPT ![d.storage]
                                = DefinitionOffset(d) + d.size]
    BY <1>1, <2>3, DefinitionStep DEF Allots
  <2>5. EndAfter(k + 1)'
    BY <2>1, <2>2, <2>3, <2>4, EndAfterStep
  <2>6. /\ IsList(todo) /\ IsList(Tail(todo))
        /\ \A n \in DOMAIN Tail(todo) : n + 1 \in DOMAIN todo /\ Tail(todo)[n] = todo[n + 1]
    BY <2>1, TailOfList DEF Formed, TypeOK
  <2>7. /\ DOMAIN todo = 1 .. Len(todo) /\ Len(todo) \in Nat
        /\ DOMAIN Tail(todo) = 1 .. Len(Tail(todo)) /\ Len(Tail(todo)) \in Nat
    BY <2>6, ListDomain
  <2>8. Len(Tail(todo)) = Len(todo) - 1
    <3>1. \A n \in DOMAIN todo \ {1} : n - 1 \in DOMAIN Tail(todo)
      BY <2>1, <2>6, TailOfList
    <3>2. 1 \in DOMAIN todo
      BY <2>1, <2>6, TailOfList
    <3>3. Len(Tail(todo)) <= Len(todo) - 1
      <4>1. CASE Len(Tail(todo)) = 0
        BY <2>7, <3>2, <4>1
      <4>2. CASE Len(Tail(todo)) # 0
        <5>1. Len(Tail(todo)) \in DOMAIN Tail(todo)
          BY <2>7, <4>2
        <5> QED BY <2>6, <2>7, <5>1
      <4> QED BY <4>1, <4>2
    <3>4. Len(todo) - 1 <= Len(Tail(todo))
      <4>1. CASE Len(todo) = 1
        BY <2>7, <4>1
      <4>2. CASE Len(todo) # 1
        <5>1. Len(todo) \in DOMAIN todo \ {1}
          BY <2>7, <3>2, <4>2
        <5> QED BY <2>7, <3>1, <5>1
      <4> QED BY <4>1, <4>2
    <3> QED BY <2>7, <3>3, <3>4
  <2>9. (k + 1) + Len(Tail(todo)) = Len(input.definitions) /\ k + 1 \in Nat
    <3>1. PICK i, j, l : i = Len(todo) /\ j = Len(Tail(todo)) /\ l = Len(input.definitions)
      OBVIOUS
    <3>2. k + i = l /\ i \in Nat /\ j = i - 1
      BY <2>2, <2>7, <2>8, <3>1
    <3>3. (k + 1) + j = l
      BY <3>2
    <3>4. k + 1 \in Nat
      OBVIOUS
    <3> QED BY <3>1, <3>3, <3>4
  <2>10. \A n \in DOMAIN Tail(todo) : Tail(todo)[n] = input.definitions[(k + 1) + n]
    <3> TAKE n \in DOMAIN Tail(todo)
    <3>1. n \in Nat /\ k + (n + 1) = (k + 1) + n
      BY <2>7
    <3>2. todo[n + 1] = input.definitions[k + (n + 1)]
      BY <2>2, <2>6
    <3> QED BY <2>6, <3>1, <3>2
  <2>11. PICK j : j = k + 1
    OBVIOUS
  <2> QED BY <2>1, <2>5, <2>9, <2>10, <2>11 DEF InOrder
<1>2. CASE ~AddDataDefinition
  <2>1. UNCHANGED <<objects, phase, todo>>
    <3>1. CASE Moves
      BY <3>1 DEF Moves, Failures, StartDataRelocations, StartFunctions, SkipFunction, Finish
    <3>2. CASE AddDataRelocations \/ AddFunction
      BY <3>2 DEF AddDataRelocations, AddFunction
    <3>3. CASE StartChain
      BY <3>3 DEF StartChain
    <3>4. CASE ReferByName \/ CopyString \/ CopyWord
      <4>1. body # {} /\ phase = "definitions"
        BY <3>4 DEF ReferByName, CopyString, CopyWord
      <4> QED BY <4>1 DEF Relocating
    <3> QED BY <1>2, <3>1, <3>2, <3>3, <3>4, Steps
  <2>2. input' = input
    BY Kept
  <2> QED BY <2>1, <2>2 DEF InOrder, EndAfter, Object, Empty
<1> QED BY <1>1, <1>2

\* A definition in an object stays where it is, and the next is put where the
\* order has it.
LEMMA PutInOrderStep ==
  ASSUME Formed, InOrder, PutInOrder, [Next]_vars
  PROVE  PutInOrder'
<1>1. input' = input
  BY Kept
<1>2. CASE UNCHANGED objects
  BY <1>1, <1>2 DEF PutInOrder, PutAt
<1>3. ASSUME NEW name, NEW e, Updates(name, e),
             NEW A, e.allocs \subseteq Object(name).allocs \cup A,
             \A x \in A : x.what = "definition" =>
               \A m \in DOMAIN input.definitions :
                 input.definitions[m].rva = x.rva => PutAt(m, x.offset)
      PROVE  PutInOrder'
  <2> SUFFICES ASSUME NEW home \in DOMAIN objects', NEW x \in objects'[home].allocs,
                      x.what = "definition",
                      NEW m \in DOMAIN input.definitions, input.definitions[m].rva = x.rva
               PROVE  PutAt(m, x.offset)
    BY <1>1 DEF PutInOrder, PutAt
  <2>1. \/ home \in DOMAIN objects /\ x \in objects[home].allocs
        \/ home = name /\ x \in A
    BY <1>3, HeldBefore
  <2> QED BY <1>3, <2>1 DEF PutInOrder
<1>4. CASE AddDataDefinition
  <2>1. PICK d, e, a :
          /\ Head(todo) = d /\ Allots(d.object, e, a, DefinitionName(d))
          /\ OfDefinition(d, a) /\ a.offset = DefinitionOffset(d) /\ ~Misplaced(d)
    BY <1>4, DefinitionStep
  <2>2. PICK name, A : name = d.object /\ A = {a}
    OBVIOUS
  <2>3. Updates(name, e) /\ e.allocs \subseteq Object(name).allocs \cup A
    BY <2>1, <2>2 DEF Allots, Places
  <2>4. phase = "definitions" /\ todo # <<>>
    BY <1>4 DEF AddDataDefinition
  <2>5. PICK k : /\ k \in DOMAIN input.definitions /\ d = input.definitions[k]
                 /\ DefinitionOffset(d) = PlacedAt(input.definitions, k, input.pad_rdata)
    BY <2>1, <2>4, NextInOrder
  <2>6. d.section_offset \subseteq {a.offset} /\ a.rva = d.rva
    BY <2>1 DEF Misplaced, OfDefinition
  <2>7. PutAt(k, a.offset)
    BY <2>1, <2>5, <2>6 DEF PutAt
  <2>8. ASSUME NEW m \in DOMAIN input.definitions, input.definitions[m].rva = a.rva
        PROVE  m = k
    <3>1. \A i, j \in DOMAIN input.definitions :
            input.definitions[i].rva = input.definitions[j].rva => i = j
      BY DEF Formed, TypeOK, IsInput
    <3> QED BY <2>5, <2>6, <2>8, <3>1
  <2> QED BY <1>3, <2>2, <2>3, <2>7, <2>8
<1>5. CASE AddFunction
  <2>1. PICK f, name, e, a :
          /\ Allots(name, e, a, FunctionName(f))
          /\ a = Appended(Object(name), "text", "function", f.rva, f.size, Cleared(f))
    BY <1>5, FunctionStep
  <2>2. Updates(name, e) /\ e.allocs \subseteq Object(name).allocs \cup {a}
    BY <2>1 DEF Allots, Places
  <2>3. a.what # "definition"
    BY <2>1 DEF Appended
  <2>4. PICK A : A = {a}
    OBVIOUS
  <2> QED BY <1>3, <2>2, <2>3, <2>4
<1>6. CASE ReferByName \/ CopyString \/ CopyWord
  <2>1. PICK c, b, e : Emits(c, b, e)
    BY <1>6, EmitStep
  <2>2. PICK A : /\ e.allocs = Object(b.object).allocs \cup A
                 /\ \A x \in A : x.what \in Copied
    BY <2>1, EmittedAllocs
  <2>3. PICK name : name = b.object
    OBVIOUS
  <2>4. Updates(name, e) /\ e.allocs \subseteq Object(name).allocs \cup A
    BY <2>1, <2>2, <2>3 DEF Emits
  <2>5. \A x \in A : x.what # "definition"
    BY <2>2 DEF Copied
  <2> QED BY <1>3, <2>4, <2>5
<1>7. Moves \/ AddDataRelocations \/ StartChain => UNCHANGED objects
  BY DEF Moves, AddDataRelocations, StartChain
<1> QED BY <1>2, <1>4, <1>5, <1>6, <1>7, Steps

\* A definition is refused for a candidate offset that is not where it comes.
LEMMA MismatchFoundStep ==
  ASSUME Formed, InOrder, MismatchFound, [Next]_vars
  PROVE  MismatchFound'
<1> DEFINE Cause == \E m \in DOMAIN input.definitions :
                      \E expected \in input.definitions[m].section_offset :
                        expected # PlacedAt(input.definitions, m, input.pad_rdata)
<1>1. input' = input
  BY Kept
<1>2. ASSUME phase' = "topology mismatch"
      PROVE  Cause
  <2>1. CASE phase = "topology mismatch"
    BY <2>1 DEF MismatchFound
  <2>2. CASE RefuseDefinition
    <3>1. phase = "definitions" /\ todo # <<>> /\ Misplaced(Head(todo))
      BY <1>2, <2>2 DEF RefuseDefinition, Fail
    <3>2. PICK m \in DOMAIN input.definitions :
            /\ Head(todo) = input.definitions[m]
            /\ DefinitionOffset(Head(todo)) = PlacedAt(input.definitions, m, input.pad_rdata)
      BY <3>1, NextInOrder
    <3> QED BY <3>1, <3>2 DEF Misplaced
  <2>3. CASE phase # "topology mismatch" /\ ~RefuseDefinition
    <3>1. RefuseBssRelocation \/ RefuseFunction \/ CopyOutside
            => phase' \in {"bss relocation", "panic"}
      BY DEF RefuseBssRelocation, RefuseFunction, CopyOutside, Fail
    <3>2. StartDataRelocations \/ StartFunctions \/ Finish
            => phase' \in {"data relocations", "functions", "built"}
      BY DEF StartDataRelocations, StartFunctions, Finish
    <3>3. AddDataDefinition \/ AddDataRelocations \/ SkipFunction \/ AddFunction \/ StartChain
            \/ ReferByName \/ CopyString \/ CopyWord \/ Stop \/ UNCHANGED vars
            => phase' = phase
      BY DEF AddDataDefinition, AddDataRelocations, SkipFunction, AddFunction, StartChain,
           ReferByName, CopyString, CopyWord, Stop, vars
    <3> QED BY <1>2, <2>3, <3>1, <3>2, <3>3 DEF Next
  <2> QED BY <2>1, <2>2, <2>3
<1> QED BY <1>1, <1>2 DEF MismatchFound

\* Branches are not conjured, and only what is conjured is copied.
LEMMA NothingCopiedStep ==
  ASSUME Formed, NothingCopied, [Next]_vars
  PROVE  NothingCopied'
<1> SUFFICES ASSUME \A s \in DOMAIN input'.relocs : ~Conjured(input'.relocs[s])
             PROVE  /\ \A s \in DOMAIN relocs_rva' : ~Conjured(relocs_rva'[s])
                    /\ \A c \in call' : ~Conjured(c.reloc)
                    /\ \A name \in DOMAIN objects' : \A a \in objects'[name].allocs :
                         a.what \notin Copied
  BY DEF NothingCopied, Conjured, Copied
<1> DEFINE Uncopied == \A name \in DOMAIN objects : \A a \in objects[name].allocs :
                         a.what \notin Copied
<1>1. /\ \A s \in DOMAIN relocs_rva : ~Conjured(relocs_rva[s])
      /\ \A c \in call : ~Conjured(c.reloc)
      /\ Uncopied
  BY Kept DEF NothingCopied
<1>2. \A s \in DOMAIN relocs_rva' : ~Conjured(relocs_rva'[s])
  <2>1. CASE AddFunction
    <3>1. PICK f : Extended(f)
      BY <2>1, FunctionStep
    <3> QED BY <1>1, <3>1 DEF Extended, Conjured
  <2>2. CASE ~AddFunction
    BY <1>1, <2>2, Kept
  <2> QED BY <2>1, <2>2
<1>3. \A c \in call' : ~Conjured(c.reloc)
  <2>1. CASE StartChain
    <3>1. \A c \in call' : \E s \in sites : c.reloc = relocs_rva[s]
      BY <2>1 DEF StartChain
    <3>2. sites \subseteq DOMAIN relocs_rva
      BY DEF Formed, TypeOK
    <3> QED BY <1>1, <3>1, <3>2
  <2>2. CASE ReferByName \/ CopyString
    BY <2>2 DEF ReferByName, CopyString
  <2>3. CASE CopyWord
    BY <1>1, <2>3 DEF CopyWord, Follow
  <2>4. Moves \/ AddDataDefinition \/ AddDataRelocations \/ AddFunction =>
          call' = {} \/ call' = call
    BY DEF Moves, AddDataDefinition, AddDataRelocations, AddFunction, Idle
  <2> QED BY <1>1, <2>1, <2>2, <2>3, <2>4, Steps
<1>4. ASSUME NEW home, NEW e, Updates(home, e), NEW A,
             e.allocs \subseteq Object(home).allocs \cup A,
             \A a \in A : a.what \notin Copied
      PROVE  Uncopied'
  <2> SUFFICES ASSUME NEW name \in DOMAIN objects', NEW a \in objects'[name].allocs
               PROVE  a.what \notin Copied
    BY DEF Copied
  <2> HIDE DEF Uncopied
  <2>1. Updates(home, e) /\ e.allocs \subseteq Object(home).allocs \cup A
    BY <1>4
  <2>2. \/ name \in DOMAIN objects /\ a \in objects[name].allocs
        \/ name = home /\ a \in A
    BY <2>1, HeldBefore
  <2> QED BY <1>1, <1>4, <2>2 DEF Uncopied
<1>5. Uncopied'
  <2>1. CASE AddDataDefinition
    <3>1. PICK d, e, a : Allots(d.object, e, a, DefinitionName(d)) /\ OfDefinition(d, a)
      BY <2>1, DefinitionStep
    <3>2. PICK home : home = d.object
      OBVIOUS
    <3>3. PICK A : A = {a}
      OBVIOUS
    <3>4. Updates(home, e) /\ e.allocs \subseteq Object(home).allocs \cup A
      BY <3>1, <3>2, <3>3 DEF Allots, Places
    <3>5. \A x \in A : x.what \notin Copied
      BY <3>1, <3>3 DEF OfDefinition, Copied
    <3> QED BY <1>4, <3>4, <3>5
  <2>2. CASE AddFunction
    <3>1. PICK f, home, e, a :
            /\ Allots(home, e, a, FunctionName(f))
            /\ a = Appended(Object(home), "text", "function", f.rva, f.size, Cleared(f))
      BY <2>2, FunctionStep
    <3>2. PICK A : A = {a}
      OBVIOUS
    <3>3. Updates(home, e) /\ e.allocs \subseteq Object(home).allocs \cup A
      BY <3>1, <3>2 DEF Allots, Places
    <3>4. \A x \in A : x.what \notin Copied
      BY <3>1, <3>2 DEF Appended, Copied
    <3> QED BY <1>4, <3>3, <3>4
  <2>3. CASE ReferByName \/ CopyString \/ CopyWord
    <3>1. PICK c, b, e : Emits(c, b, e)
      BY <2>3, EmitStep
    <3>2. PICK A : /\ e.allocs = Object(b.object).allocs \cup A
                   /\ \A x \in A : Conjured(c.reloc)
      BY <3>1, EmittedAllocs
    <3>3. PICK home : home = b.object
      OBVIOUS
    <3>4. c \in call /\ Updates(home, e) /\ e.allocs \subseteq Object(home).allocs \cup A
      BY <3>1, <3>2, <3>3 DEF Emits
    <3>5. \A x \in A : x.what \notin Copied
      BY <1>1, <3>2, <3>4
    <3> QED BY <1>4, <3>4, <3>5
  <2>4. Moves \/ AddDataRelocations \/ StartChain => UNCHANGED objects
    BY DEF Moves, AddDataRelocations, StartChain
  <2>5. UNCHANGED objects => Uncopied'
    BY <1>1
  <2> QED BY <2>1, <2>2, <2>3, <2>4, <2>5, Steps
<1> QED BY <1>2, <1>3, <1>5

\* A word of an object.
HasWord(name, x) ==
  name \in DOMAIN objects /\ x \in objects[name].allocs /\ x.what = "word"

\* Its type.
LEMMA WordFacts ==
  ASSUME Formed, AllLaidOut, Linked, NEW name, NEW x, HasWord(name, x)
  PROVE  /\ WellFormed(objects[name]) /\ LaidOut(name, objects[name])
         /\ x.section \in Sections /\ x.offset \in Nat /\ x.rva \in Nat /\ x.size = 4
         /\ x.rva <= x.rva /\ x.rva < x.rva + x.size
         /\ x.offset + 4 <= objects[name].size[x.section]
<1>1. WellFormed(objects[name]) /\ LaidOut(name, objects[name]) /\ x.size = 4
  BY DEF HasWord, Formed, ObjectsFormed, AllLaidOut, Linked
<1>2. x.section \in Sections /\ x.offset \in Nat /\ x.rva \in Nat
  BY <1>1 DEF HasWord, WellFormed, ObjectType, PlaceType
<1>3. x.rva <= x.rva /\ x.rva < x.rva + x.size
  BY <1>1, <1>2
<1>4. x.offset + 4 <= objects[name].size[x.section]
  BY <1>1 DEF HasWord, LaidOut
<1> QED BY <1>1, <1>2, <1>3, <1>4

\* A word about which nothing changes.
LEMMA StaysLinked ==
  ASSUME Formed, Linked, [Next]_vars, NEW name, NEW x, HasWord(name, x),
         x.rva \in DOMAIN relocs_rva, ~Overlapped(x)', NEW p, p = objects'[name],
         RelocsAt(p, x, x.rva) = RelocsAt(objects[name], x, x.rva),
         Pending(name, x)' <=> Pending(name, x)
  PROVE  LinkedAt(name, x)'
<1>1. ~Overlapped(x)
  BY Kept DEF Overlapped
<1>2. LinkedAt(name, x)
  BY <1>1 DEF Linked, HasWord
<1>3. \A n : RelocsAt(p, x, x.rva) = {n} => n \in DOMAIN p.relocs
  BY DEF RelocsAt
<1>4. PICK t : t = x.rva
  OBVIOUS
<1>5. OnCycle(x.rva) => OnCycle(x.rva)'
  BY <1>4, CycleStays
<1>6. RelocsAt(objects[name], x, x.rva)' = RelocsAt(p, x, x.rva)
  BY DEF RelocsAt
<1>7. CASE Pending(name, x)
  BY <1>2, <1>6, <1>7 DEF LinkedAt
<1>8. CASE ~Pending(name, x)
  BY <1>2, <1>3, <1>5, <1>6, <1>8 DEF LinkedAt
<1> QED BY <1>7, <1>8

\* A step that adds no relocation and no word, with no call before or after.
LEMMA LinkedByAllotment ==
  ASSUME Formed, AllLaidOut, Linked, [Next]_vars, call = {}, call' = {},
         NEW home, NEW e, NEW a, Updates(home, e), e.relocs = Object(home).relocs,
         e.allocs = Object(home).allocs \cup {a}, a.what # "word",
         \A name, x : HasWord(name, x) /\ x.rva \in DOMAIN relocs_rva' /\ ~Overlapped(x)' =>
           x.rva \in DOMAIN relocs_rva
  PROVE  Linked'
<1> SUFFICES ASSUME NEW name \in DOMAIN objects', NEW x \in objects'[name].allocs,
                    x.what = "word"
             PROVE  /\ x.size = 4
                    /\ x.rva \in DOMAIN relocs_rva' /\ ~Overlapped(x)' => LinkedAt(name, x)'
  BY DEF Linked
<1>1. PICK A : A = {a}
  OBVIOUS
<1>2. e.allocs \subseteq Object(home).allocs \cup A
  BY <1>1
<1>3. ASSUME NEW other \in DOMAIN objects', NEW y \in objects'[other].allocs
      PROVE  \/ other \in DOMAIN objects /\ y \in objects[other].allocs
             \/ other = home /\ y \in A
  BY <1>2, HeldBefore
<1>4. HasWord(name, x)
  BY <1>1, <1>3 DEF HasWord
<1>5. x.size = 4
  BY <1>4, WordFacts
<1>6. PICK p : p = objects'[name]
  OBVIOUS
<1>7. p.relocs = objects[name].relocs
  BY <1>4, <1>6, ObjectFacts DEF Updates, HasWord
<1>8. RelocsAt(p, x, x.rva) = RelocsAt(objects[name], x, x.rva)
  BY <1>7 DEF RelocsAt
<1>9. ~Pending(name, x)' /\ ~Pending(name, x)
  BY DEF Pending
<1>10. ASSUME x.rva \in DOMAIN relocs_rva', ~Overlapped(x)' PROVE LinkedAt(name, x)'
  <2>1. x.rva \in DOMAIN relocs_rva
    BY <1>4, <1>10
  <2> QED BY <1>4, <1>6, <1>8, <1>9, <1>10, <2>1, StaysLinked
<1> QED BY <1>5, <1>10

\* A function's branches are not in a word, unless the function lies over it.
LEMMA LinkedByFunction ==
  ASSUME Formed, AllLaidOut, Linked, [Next]_vars, AddFunction
  PROVE  Linked'
<1>1. call = {} /\ call' = {} /\ input' = input
  BY DEF AddFunction, Idle
<1>2. PICK n, home, e, a :
        LET f == input.functions[n]
        IN  /\ n \in DOMAIN input.functions
            /\ IsFunction(f) /\ home \in FunctionLocation(f)
            /\ Extended(f) /\ Allots(home, e, a, FunctionName(f))
            /\ a = Appended(Object(home), "text", "function", f.rva, f.size, Cleared(f))
  BY FunctionStep
<1>3. PICK f : f = input.functions[n]
  OBVIOUS
<1>4. /\ Updates(home, e) /\ e.relocs = Object(home).relocs
      /\ e.allocs = Object(home).allocs \cup {a} /\ a.what # "word"
  BY <1>2 DEF Allots, Places, Appended
<1>5. ASSUME NEW name, NEW x, HasWord(name, x), x.rva \in DOMAIN relocs_rva', ~Overlapped(x)'
      PROVE  x.rva \in DOMAIN relocs_rva
  <2>1. /\ IsFunction(f) /\ FunctionLocation(f) # {} /\ Extended(f)
        /\ f.rva \in Nat /\ f.size \in Nat
    BY <1>2, <1>3 DEF IsFunction
  <2>2. x.rva \in Nat /\ x.size = 4
    BY <1>5, WordFacts
  <2> SUFFICES ASSUME x.rva \in Cleared(f) PROVE FALSE
    BY <1>5, <2>1 DEF Extended
  <2>3. f.rva <= x.rva /\ x.rva + 4 <= f.rva + f.size
    BY <2>1, BranchFacts
  <2>4. f.rva < x.rva + x.size /\ x.rva < f.rva + f.size
    BY <2>1, <2>2, <2>3
  <2>5. ~Overlapped(x)
    BY <1>1, <1>5 DEF Overlapped
  <2> QED BY <1>2, <1>3, <1>5, <2>1, <2>4, <2>5 DEF Overlapped, HasWord
<1> QED BY <1>1, <1>4, <1>5, LinkedByAllotment

\* A definition is added before any word is copied.
LEMMA LinkedByDefinition ==
  ASSUME Formed, AllLaidOut, Linked, Relocating, [Next]_vars, AddDataDefinition
  PROVE  Linked'
<1>1. call = {} /\ call' = {} /\ relocs_rva' = relocs_rva
  BY DEF AddDataDefinition, Relocating, Formed, TypeOK
<1>2. PICK d, e, a : Allots(d.object, e, a, DefinitionName(d)) /\ OfDefinition(d, a)
  BY DefinitionStep
<1>3. PICK home : home = d.object
  OBVIOUS
<1>4. /\ Updates(home, e) /\ e.relocs = Object(home).relocs
      /\ e.allocs = Object(home).allocs \cup {a} /\ a.what # "word"
  BY <1>2, <1>3 DEF Allots, Places, OfDefinition
<1> QED BY <1>1, <1>4, LinkedByAllotment

\* The objects stay as they are, and no word is called for that was not.
LEMMA LinkedByRest ==
  ASSUME Formed, AllLaidOut, Linked, [Next]_vars, UNCHANGED <<objects, relocs_rva>>,
         \A name, x : HasWord(name, x) => (Pending(name, x)' <=> Pending(name, x))
  PROVE  Linked'
<1> SUFFICES ASSUME NEW name \in DOMAIN objects', NEW x \in objects'[name].allocs,
                    x.what = "word"
             PROVE  /\ x.size = 4
                    /\ x.rva \in DOMAIN relocs_rva' /\ ~Overlapped(x)' => LinkedAt(name, x)'
  BY DEF Linked
<1>1. HasWord(name, x)
  BY DEF HasWord
<1>2. PICK p : p = objects'[name]
  OBVIOUS
<1>3. RelocsAt(p, x, x.rva) = RelocsAt(objects[name], x, x.rva)
  BY <1>2
<1>4. ASSUME x.rva \in DOMAIN relocs_rva', ~Overlapped(x)' PROVE LinkedAt(name, x)'
  BY <1>1, <1>2, <1>3, <1>4, StaysLinked
<1> QED BY <1>1, <1>4, WordFacts

\* A chain starts at a site of the body, which is no word.
LEMMA LinkedByChain ==
  ASSUME Formed, AllLaidOut, Linked, Relocating, [Next]_vars, StartChain
  PROVE  Linked'
<1>1. /\ UNCHANGED <<objects, relocs_rva, body>> /\ call = {}
      /\ AtMostOne(body) /\ \A t \in sites, b \in body : b.rva <= t
      /\ sites \subseteq DOMAIN relocs_rva /\ \A t \in DOMAIN relocs_rva : t \in Nat
  BY DEF StartChain, Formed, TypeOK
<1>2. PICK t \in sites, b \in body :
        call' = {[reloc |-> relocs_rva[t],
                  at |-> [section |-> b.section, offset |-> b.offset + (t - b.rva)]]}
  BY DEF StartChain
<1>3. PICK a \in objects[b.object].allocs : BodyOf(b, a)
  BY DEF Relocating
<1>4. \A c \in call' : c.at = Place(a, t)
  BY <1>2, <1>3 DEF BodyOf, Place
<1>5. t \in Nat /\ a.rva <= t /\ t < a.rva + a.size /\ a.what # "word"
  BY <1>1, <1>2, <1>3 DEF BodyOf
<1>6. \A y \in body : y = b
  BY <1>1 DEF AtMostOne
<1>7. ASSUME NEW name, NEW x, HasWord(name, x) PROVE Pending(name, x)' <=> Pending(name, x)
  <2> SUFFICES ASSUME name = b.object, Place(x, x.rva) = Place(a, t) PROVE FALSE
    BY <1>1, <1>4, <1>6 DEF Pending, Place
  <2>1. PICK o : o = objects[name]
    OBVIOUS
  <2>2. PICK s : s = x.rva
    OBVIOUS
  <2>3. /\ WellFormed(o) /\ x \in o.allocs /\ a \in o.allocs
        /\ \A u, v \in o.allocs : u # v => Disjoint(u, v)
        /\ s \in Nat /\ x.rva <= s /\ s < x.rva + x.size /\ Place(x, s) = Place(a, t)
    BY <1>3, <1>7, <2>1, <2>2, WordFacts DEF HasWord, LaidOut
  <2>4. x = a
    BY <1>5, <2>3, SamePlace
  <2> QED BY <1>5, <1>7, <2>4 DEF HasWord
<1> QED BY <1>1, <1>7, LinkedByRest

\* A call relocates the word it is made for; the word it copies has no
\* relocation yet, and is called for next unless it closes a cycle.
LEMMA LinkedByCall ==
  ASSUME Formed, AllLaidOut, Linked, Relocating, ChainLinked, [Next]_vars,
         ReferByName \/ CopyString \/ CopyWord, AllLaidOut', Formed',
         NEW name, NEW x, HasWord(name, x)', x.size = 4,
         x.rva \in DOMAIN relocs_rva', ~Overlapped(x)'
  PROVE  LinkedAt(name, x)'
<1>1. PICK c, b, e : Emits(c, b, e)
  BY EmitStep
<1>2. /\ c \in call /\ b \in body /\ b.object \in DOMAIN objects
      /\ Updates(b.object, e) /\ Relocates(objects[b.object], e, c.at, NameOf(c.reloc))
      /\ UNCHANGED <<input, relocs_rva, phase, todo, body, sites>>
  BY <1>1 DEF Emits
<1>3. (\A y \in body : y = b) /\ (\A d \in call : d = c)
  BY <1>2 DEF Formed, TypeOK, AtMostOne
<1>4. PICK p : p = objects'[name]
  OBVIOUS
<1>5. PICK o : o = objects[b.object]
  OBVIOUS
<1>6. PICK r : r = x.rva
  OBVIOUS
<1>7. PICK at, symbol : at = c.at /\ symbol = NameOf(c.reloc)
  OBVIOUS
<1>8. /\ WellFormed(o) /\ WellFormed(e) /\ Grows(o, e) /\ Relocates(o, e, at, symbol)
      /\ LaidOut(b.object, o) /\ Object(b.object) = o
  BY <1>2, <1>5, <1>7, ObjectFacts DEF Updates, AllLaidOut
<1>9. /\ name \in DOMAIN objects' /\ x \in p.allocs /\ x.what = "word" /\ WellFormed(p)
      /\ \A u, v \in p.allocs : u # v => Disjoint(u, v)
  <2>1. name \in DOMAIN objects' /\ x \in p.allocs /\ x.what = "word" /\ WellFormed(p)
    BY <1>4 DEF HasWord, Formed, ObjectsFormed
  <2>2. LaidOut(name, p)'
    BY <1>4, <2>1 DEF AllLaidOut
  <2> QED BY <2>1, <2>2 DEF LaidOut, Disjoint
<1>10. x.section \in Sections /\ x.offset \in Nat /\ r \in Nat /\ x.rva <= r /\ r < x.rva + x.size
  <2>1. x.section \in Sections /\ x.offset \in Nat /\ r \in Nat
    BY <1>6, <1>9 DEF WellFormed, ObjectType, PlaceType
  <2> QED BY <1>6, <2>1
<1>11. PICK a, t :
         /\ a \in o.allocs /\ t \in DOMAIN relocs_rva /\ t \in Nat
         /\ a.rva <= t /\ t < a.rva + a.size
         /\ at = Place(a, t) /\ c.reloc = relocs_rva[t]
  BY <1>2, <1>5, <1>7, CallPlace
<1>12. /\ Place(x, r) # at => RelocsAt(e, x, r) = RelocsAt(o, x, r)
       /\ Place(x, r) = at /\ RelocsAt(o, x, r) = {} =>
            \E n \in DOMAIN e.relocs :
              RelocsAt(e, x, r) = {n} /\ e.symbols[e.relocs[n].symbol].name = symbol
  BY <1>8, <1>11, RelocsAfterCall
<1>13. Pending(name, x)' <=> name = b.object /\ \E d \in call' : d.at = Place(x, r)
  BY <1>2, <1>3, <1>6 DEF Pending, Place
<1>14. RelocsAt(objects[name], x, x.rva)' = RelocsAt(p, x, r)
  BY <1>4, <1>6 DEF RelocsAt
<1>15. CASE HasWord(name, x) /\ name # b.object
  <2>1. p = objects[name]
    BY <1>2, <1>4, <1>15 DEF Updates, HasWord
  <2>2. RelocsAt(p, x, x.rva) = RelocsAt(objects[name], x, x.rva)
    BY <2>1
  <2>3. Pending(name, x)' <=> Pending(name, x)
    BY <1>3, <1>13, <1>15 DEF Pending
  <2> QED BY <1>2, <1>4, <1>15, <2>2, <2>3, StaysLinked
<1>16. CASE HasWord(name, x) /\ name = b.object
  <2>1. p = e /\ x \in o.allocs /\ objects[name] = o
    BY <1>2, <1>4, <1>5, <1>16 DEF Updates, HasWord
  <2>2. ~Pending(name, x)'
    <3> SUFFICES ASSUME NEW d \in call', d.at = Place(x, r) PROVE FALSE
      BY <1>13
    <3>1. PICK z : CopiesInto(o, e, c.reloc, z)
      BY <1>1, <1>5 DEF Emits, Refers
    <3>2. /\ z.what = "word" /\ z.size = 4 /\ Places(o, e, z) /\ z.offset = o.size[z.section]
          /\ Follow(c.reloc, Place(z, z.rva))
      BY <3>1 DEF CopiesInto
    <3>3. PICK t2 : t2 = z.rva
      OBVIOUS
    <3>4. /\ z \in p.allocs /\ t2 \in Nat /\ z.rva <= t2 /\ t2 < z.rva + z.size
          /\ Place(x, r) = Place(z, t2)
      <4>1. z.rva \in Nat /\ z \in e.allocs
        BY <3>2 DEF Places
      <4>2. d.at = Place(z, z.rva)
        BY <3>2 DEF Follow
      <4> QED BY <2>1, <3>2, <3>3, <4>1, <4>2
    <3>5. x = z
      BY <1>9, <1>10, <3>4, SamePlace
    <3>6. x.offset + 4 <= o.size[x.section] /\ o.size[x.section] \in Nat
      BY <1>8, <1>10, <1>16, <2>1, WordFacts DEF WellFormed, ObjectType
    <3> QED BY <1>10, <3>2, <3>5, <3>6
  <2>3. CASE Place(x, r) = at
    <3>1. Pending(name, x)
      BY <1>2, <1>6, <1>7, <1>16, <2>3 DEF Pending
    <3>2. ~Overlapped(x) /\ x.rva \in DOMAIN relocs_rva
      BY <1>2 DEF Overlapped
    <3>3. RelocsAt(o, x, r) = {}
      BY <1>6, <1>16, <2>1, <3>1, <3>2 DEF Linked, LinkedAt, HasWord
    <3>4. PICK n \in DOMAIN e.relocs : RelocsAt(e, x, r) = {n}
      BY <1>12, <2>3, <3>3
    <3> QED BY <1>4, <1>14, <2>1, <2>2, <3>4 DEF LinkedAt
  <2>4. CASE Place(x, r) # at
    <3>1. ~Pending(name, x)
      BY <1>3, <1>6, <1>7, <2>4 DEF Pending
    <3>2. RelocsAt(p, x, x.rva) = RelocsAt(objects[name], x, x.rva)
      BY <1>6, <1>12, <2>1, <2>4
    <3> QED BY <1>2, <1>4, <1>16, <2>2, <3>1, <3>2, StaysLinked
  <2> QED BY <2>3, <2>4
<1>17. CASE ~HasWord(name, x)
  <2>1. PICK home : home = b.object
    OBVIOUS
  <2>2. PICK A : /\ e.allocs = o.allocs \cup A
                 /\ \A z \in A : CopiesInto(o, e, c.reloc, z)
    <3>1. CASE Refers(o, e)
      <4>1. PICK A : A = {}
        OBVIOUS
      <4> QED BY <3>1, <4>1 DEF Refers
    <3>2. CASE \E z : CopiesInto(o, e, c.reloc, z)
      <4>1. PICK z : CopiesInto(o, e, c.reloc, z)
        BY <3>2
      <4>2. PICK A : A = {z}
        OBVIOUS
      <4>3. e.allocs = o.allocs \cup A
        BY <4>1, <4>2 DEF CopiesInto, Places
      <4> QED BY <4>1, <4>2, <4>3
    <3> QED BY <1>1, <1>5, <3>1, <3>2 DEF Emits
  <2>3. e.allocs \subseteq Object(home).allocs \cup A /\ Updates(home, e)
    BY <1>2, <1>8, <2>1, <2>2
  <2>4. ASSUME NEW other \in DOMAIN objects', NEW y \in objects'[other].allocs
        PROVE  \/ other \in DOMAIN objects /\ y \in objects[other].allocs
               \/ other = home /\ y \in A
    BY <2>3, HeldBefore, Z3
  <2>5. name = home /\ x \in A
    BY <1>4, <1>9, <1>17, <2>4 DEF HasWord
  <2>6. p = e
    BY <1>2, <1>4, <2>1, <2>5 DEF Updates
  <2>7. /\ CopiesInto(o, e, c.reloc, x) /\ x.offset = o.size[x.section]
        /\ x.rva = c.reloc.target /\ Word(c.reloc) /\ Follow(c.reloc, Place(x, x.rva))
    BY <1>9, <2>2, <2>5 DEF CopiesInto
  <2>8. RelocsAt(o, x, r) = {}
    <3>1. o.size[x.section] <= x.offset
      BY <1>10, <2>7
    <3> QED BY <1>6, <1>8, <1>10, <3>1, Unrelocated
  <2>9. Place(x, r) # at
    <3>1. at.offset < o.size[at.section]
      BY <1>2, <1>5, <1>7, CallWithin
    <3> SUFFICES ASSUME Place(x, r) = at PROVE FALSE
      OBVIOUS
    <3>2. at.section = x.section /\ at.offset = x.offset + (r - r)
      BY <1>6 DEF Place
    <3> QED BY <1>10, <2>7, <3>1, <3>2
  <2>10. RelocsAt(p, x, r) = {}
    BY <1>12, <2>6, <2>8, <2>9
  <2>11. x.rva \in DOMAIN relocs_rva
    BY <1>2
  <2>12. CASE c.reloc.target \notin visited
    <3>1. \E d \in call' : d.at = Place(x, r)
      BY <1>6, <2>7, <2>11, <2>12 DEF Follow
    <3>2. Pending(name, x)'
      BY <1>13, <2>1, <2>5, <3>1
    <3> QED BY <1>14, <2>10, <3>2 DEF LinkedAt
  <2>13. CASE c.reloc.target \in visited
    <3>1. ~Pending(name, x)'
      BY <1>13, <2>7, <2>13 DEF Follow
    <3>2. OnCycle(c.reloc.target)
      BY <1>2, <2>7, <2>13, CycleFound
    <3>3. OnCycle(r)'
      BY <1>6, <2>7, <2>11, <3>2, CycleStays
    <3>4. OnCycle(x.rva)'
      BY <1>6, <3>3
    <3> QED BY <1>14, <2>10, <3>1, <3>4 DEF LinkedAt
  <2> QED BY <2>12, <2>13
<1> QED BY <1>15, <1>16, <1>17

\* A word that was copied is relocated, unless it closes a cycle.
LEMMA LinkedStep ==
  ASSUME Formed, AllLaidOut, Linked, Relocating, ChainLinked, [Next]_vars, AllLaidOut', Formed'
  PROVE  Linked'
<1>1. CASE ReferByName \/ CopyString \/ CopyWord
  <2> SUFFICES ASSUME NEW name \in DOMAIN objects', NEW x \in objects'[name].allocs,
                      x.what = "word"
               PROVE  /\ x.size = 4
                      /\ x.rva \in DOMAIN relocs_rva' /\ ~Overlapped(x)' => LinkedAt(name, x)'
    BY DEF Linked
  <2>1. HasWord(name, x)'
    BY DEF HasWord
  <2>2. x.size = 4
    <3>1. PICK c, b, e : Emits(c, b, e)
      BY <1>1, EmitStep
    <3>2. PICK home : home = b.object
      OBVIOUS
    <3>3. /\ Updates(home, e) /\ Object(home) = objects[home]
          /\ Refers(objects[home], e) \/ \E z : CopiesInto(objects[home], e, c.reloc, z)
      BY <3>1, <3>2, ObjectFacts DEF Emits
    <3>4. PICK A : /\ e.allocs \subseteq Object(home).allocs \cup A
                   /\ \A z \in A : z.what = "word" => z.size = 4
      <4>1. CASE Refers(objects[home], e)
        <5>1. PICK A : A = {}
          OBVIOUS
        <5> QED BY <3>3, <4>1, <5>1 DEF Refers
      <4>2. CASE \E z : CopiesInto(objects[home], e, c.reloc, z)
        <5>1. PICK z : CopiesInto(objects[home], e, c.reloc, z)
          BY <4>2
        <5>2. PICK A : A = {z}
          OBVIOUS
        <5>3. e.allocs = Object(home).allocs \cup A
          BY <3>3, <5>1, <5>2 DEF CopiesInto, Places
        <5>4. \A y \in A : y.what = "word" => y.size = 4
          BY <5>1, <5>2 DEF CopiesInto
        <5> QED BY <5>3, <5>4
      <4> QED BY <3>3, <4>1, <4>2
    <3>5. ASSUME NEW other \in DOMAIN objects', NEW y \in objects'[other].allocs
          PROVE  \/ other \in DOMAIN objects /\ y \in objects[other].allocs
                 \/ other = home /\ y \in A
      BY <3>3, <3>4, HeldBefore
    <3>6. \/ name \in DOMAIN objects /\ x \in objects[name].allocs
          \/ x \in A
      BY <3>5
    <3> QED BY <3>4, <3>6 DEF Linked
  <2> QED BY <1>1, <2>1, <2>2, LinkedByCall
<1>2. CASE Moves \/ AddDataRelocations
  <2>1. /\ UNCHANGED <<objects, relocs_rva>>
        /\ \/ call = {} /\ call' = {}
           \/ UNCHANGED <<call, body>>
    BY <1>2 DEF Moves, AddDataRelocations, Idle
  <2>2. \A name, x : HasWord(name, x) => (Pending(name, x)' <=> Pending(name, x))
    BY <2>1 DEF Pending, Place
  <2> QED BY <2>1, <2>2, LinkedByRest
<1> QED BY <1>1, <1>2, Steps, LinkedByDefinition, LinkedByFunction, LinkedByChain

-----------------------------------------------------------------------------
(* The invariant holds.                                                    *)

\* The stage begins with what it was given.
Begins ==
  /\ IsInput(input)
  /\ objects = EmptyMap /\ relocs_rva = input.relocs
  /\ phase = "definitions" /\ todo = input.definitions
  /\ body = {} /\ sites = {} /\ stack = <<>> /\ call = {} /\ visited = {}

\* At the start nothing is built.
LEMMA InitFormed == Begins => Formed
<1> SUFFICES ASSUME Begins PROVE Formed
  OBVIOUS
<1>1. /\ IsInput(input) /\ DOMAIN objects = {} /\ relocs_rva = input.relocs
      /\ phase = "definitions" /\ todo = input.definitions
      /\ body = {} /\ sites = {} /\ stack = <<>> /\ call = {} /\ visited = {}
  BY DEF Begins, EmptyMap
<1>2. /\ IsList(todo) /\ Left(input.definitions)
      /\ \A m, n \in DOMAIN todo : todo[m].rva = todo[n].rva => m = n
  BY <1>1 DEF IsInput, Left
<1>3. /\ IsFiniteSet(DOMAIN relocs_rva)
      /\ \A s \in DOMAIN relocs_rva :
           s \in Nat /\ relocs_rva[s] \in RelocType /\ StringKnown(relocs_rva[s])
  BY <1>1 DEF IsInput, StringKnown
<1>4. stack \in Seq(Nat)
  BY <1>1
<1>5. TypeOK
  BY <1>1, <1>2, <1>3, <1>4 DEF TypeOK, AtMostOne
<1> QED BY <1>1, <1>2, <1>3, <1>5 DEF Formed, ObjectsFormed, StringsKnown, Handed, Walking

\* Nor is anything else true of what is not there yet false.
LEMMA InitInv == Begins => IInv
<1> SUFFICES ASSUME Begins PROVE IInv
  OBVIOUS
<1>1. /\ IsInput(input) /\ DOMAIN objects = {} /\ relocs_rva = input.relocs
      /\ phase = "definitions" /\ todo = input.definitions
      /\ body = {} /\ stack = <<>> /\ call = {} /\ visited = {}
  BY DEF Begins, EmptyMap
<1>2. Formed
  BY InitFormed
<1>3. AllLaidOut /\ OneAllocation /\ Emitted /\ Linked /\ ReviewedDataIsNotPadded
  BY <1>1 DEF AllLaidOut, OneAllocation, Emitted, Linked, ReviewedDataIsNotPadded
<1>4. Defining
  BY <1>1 DEF Defining, OnlyDefinitions, NotLeft, AllPlaced
<1>5. BranchesKnown
  BY <1>1 DEF BranchesKnown, IsInput
<1>6. Relocating
  BY <1>1 DEF Relocating
<1>7. ChainCounted
  <2>1. Len(<<>>) = 0 /\ Cardinality({}) = 0
    BY FS_EmptySet
  <2> QED BY <1>1, <2>1 DEF ChainCounted
<1>8. ChainLinked /\ Ended
  BY <1>1 DEF ChainLinked, Ended
<1>9. DefinitionsEmitted /\ NothingCopied
  BY <1>1 DEF DefinitionsEmitted, NothingCopied
<1>10. PutInOrder /\ MismatchFound
  BY <1>1 DEF PutInOrder, MismatchFound
<1>11. InOrder
  <2>1. /\ 0 + Len(todo) = Len(input.definitions)
        /\ \A n \in DOMAIN todo : todo[n] = input.definitions[0 + n]
    <3>1. IsList(input.definitions)
      BY <1>1 DEF IsInput
    <3>2. DOMAIN todo = 1 .. Len(todo) /\ Len(todo) \in Nat
      BY <1>1, <3>1, ListDomain
    <3>3. \A n \in DOMAIN todo : 0 + n = n
      BY <3>2
    <3> QED BY <1>1, <3>2, <3>3
  <2>2. ASSUME NEW name, NEW section \in Sections
        PROVE  Object(name).size[section]
                 = SectionEnd(input.definitions, name, section, input.pad_rdata)[0]
    <3>1. Object(name) = Empty
      BY <1>1 DEF Object
    <3>2. Empty.size[section] = Padding(section, input.pad_rdata)
      BY DEF Empty
    <3>3. Len(input.definitions) \in Nat
      BY <1>1, ListDomain DEF IsInput
    <3>4. PICK end : end = SectionEnd(input.definitions, name, section, input.pad_rdata)
      OBVIOUS
    <3>5. end[0] = Padding(section, input.pad_rdata)
      BY <3>3, <3>4, SectionEndFacts
    <3> QED BY <3>1, <3>2, <3>4, <3>5
  <2>3. EndAfter(0)
    BY <2>2 DEF EndAfter
  <2> QED BY <2>1, <2>3 DEF InOrder
<1> QED BY <1>2, <1>3, <1>4, <1>5, <1>6, <1>7, <1>8, <1>9, <1>10, <1>11 DEF IInv

\* Every step keeps the invariant.
LEMMA StepInv == IInv /\ [Next]_vars => IInv'
<1> SUFFICES ASSUME IInv, [Next]_vars PROVE IInv'
  OBVIOUS
<1>1. /\ Formed /\ AllLaidOut /\ OneAllocation /\ Defining /\ BranchesKnown
      /\ Relocating /\ Emitted /\ Linked /\ ChainCounted /\ ChainLinked
      /\ Ended /\ ReviewedDataIsNotPadded /\ DefinitionsEmitted /\ NothingCopied
      /\ InOrder /\ PutInOrder /\ MismatchFound
  BY DEF IInv
<1>2. Formed'
  BY <1>1, FormedStep
<1>3. AllLaidOut'
  BY <1>1, LayoutStep
<1>4. OneAllocation' /\ Defining' /\ BranchesKnown'
  BY <1>1, OneAllocationStep, DefiningStep, BranchesKnownStep
<1>5. Relocating' /\ ChainCounted' /\ ChainLinked'
  BY <1>1, RelocatingStep, ChainCountedStep, ChainLinkedStep
<1>6. Emitted' /\ Linked'
  BY <1>1, <1>2, <1>3, EmittedStep, LinkedStep
<1>7. Ended' /\ ReviewedDataIsNotPadded'
  BY <1>1, EndedStep, UnpaddedStep
<1>8. DefinitionsEmitted' /\ NothingCopied'
  BY <1>1, DefinitionsEmittedStep, NothingCopiedStep
<1>9. InOrder' /\ PutInOrder' /\ MismatchFound'
  BY <1>1, InOrderStep, PutInOrderStep, MismatchFoundStep
<1> QED BY <1>2, <1>3, <1>4, <1>5, <1>6, <1>7, <1>8, <1>9 DEF IInv

\* The invariant holds in every state of the stage.
THEOREM BuildingInductive == Spec => []IInv
<1>1. Init => IInv
  BY InputsAssumption, InitInv DEF Init, Begins
<1>2. IInv /\ [Next]_vars => IInv'
  BY StepInv
<1> QED BY <1>1, <1>2, PTL DEF Spec

-----------------------------------------------------------------------------
(* What the stage establishes.                                             *)

\* Every variable of the stage has its type, in every state.
THEOREM BuildingTypeCorrect == Spec => []TypeOK
<1>1. IInv => TypeOK
  BY DEF IInv, Formed
<1> QED BY <1>1, BuildingInductive, PTL

\* An allocation of a definition is of the definition that its RVA says.
LEMMA ApartFromLayout == IInv => AllocationsApart
<1> SUFFICES ASSUME IInv, NEW name \in DOMAIN objects
             PROVE  LET o == objects[name]
                    IN  /\ \A a \in o.allocs : a.offset + a.size <= o.size[a.section]
                        /\ \A a, b \in o.allocs :
                             a # b /\ a.section = b.section /\ a.size > 0 /\ b.size > 0 =>
                               a.offset + a.size <= b.offset \/ b.offset + b.size <= a.offset
                        /\ \A a \in o.allocs : \A n \in DOMAIN input.definitions :
                             LET d == input.definitions[n]
                             IN  a.what = "definition" /\ a.rva = d.rva =>
                                   /\ a.offset % d.alignment = 0
                                   /\ a.offset = PlacedAt(input.definitions, n, input.pad_rdata)
                                   /\ d.section_offset \subseteq {a.offset}
  BY DEF AllocationsApart
<1>1. LaidOut(name, objects[name]) /\ IsInput(input)
  BY DEF IInv, AllLaidOut, Formed, TypeOK
<1>2. ASSUME NEW a \in objects[name].allocs, NEW n \in DOMAIN input.definitions,
             a.what = "definition", a.rva = input.definitions[n].rva
      PROVE  a.offset % input.definitions[n].alignment = 0
  <2>1. Accounted(name, a)
    BY <1>1 DEF LaidOut
  <2>2. PICK m \in DOMAIN input.definitions :
          /\ OfDefinition(input.definitions[m], a)
          /\ a.offset % input.definitions[m].alignment = 0
    BY <1>2, <2>1 DEF Accounted, OfFunction, Copied
  <2>3. m = n
    BY <1>1, <1>2, <2>2 DEF OfDefinition, IsInput
  <2> QED BY <2>2, <2>3
<1>3. ASSUME NEW a \in objects[name].allocs, NEW n \in DOMAIN input.definitions,
             a.what = "definition", a.rva = input.definitions[n].rva
      PROVE  PutAt(n, a.offset)
  BY <1>3 DEF IInv, PutInOrder
<1> QED BY <1>1, <1>2, <1>3 DEF LaidOut, Disjoint, PutAt

\* No two allocations of a section share a byte, each is within the section, and
\* each definition lies where the order of emission puts it, at its candidate
\* offset if it has one.
THEOREM AllocationsApartHolds == Spec => []AllocationsApart
BY ApartFromLayout, BuildingInductive, PTL

\* Once the stage has ended nothing is awaited, so that every site has its one
\* relocation.
LEMMA RelocatedOnceBuilt == IInv => BodiesRelocated
<1> SUFFICES ASSUME IInv, phase = "built", NEW name \in DOMAIN objects,
                    NEW a \in objects[name].allocs, a.what \notin Copied,
                    NEW s \in Within(a), Certain(a, s)
             PROVE  LET o == objects[name]
                    IN  /\ s \in DOMAIN relocs_rva =>
                             /\ Cardinality(RelocsAt(o, a, s)) = 1
                             /\ \A n \in RelocsAt(o, a, s) :
                                  o.symbols[o.relocs[n].symbol].name = NameOf(relocs_rva[s])
                        /\ s \notin DOMAIN relocs_rva => RelocsAt(o, a, s) = {}
  BY DEF BodiesRelocated, Within, Certain
<1>1. /\ Emitted /\ Running /\ sites = {} /\ call = {}
  BY DEF IInv, Running, Ended, Idle
<1>2. ~Awaited(name, a, s) /\ EmittedAt(name, a, s)
  BY <1>1 DEF Awaited, Emitted
<1>3. ASSUME s \in DOMAIN relocs_rva
      PROVE  /\ Cardinality(RelocsAt(objects[name], a, s)) = 1
             /\ \A n \in RelocsAt(objects[name], a, s) :
                  objects[name].symbols[objects[name].relocs[n].symbol].name
                    = NameOf(relocs_rva[s])
  <2>1. PICK n : /\ RelocsAt(objects[name], a, s) = {n}
                 /\ objects[name].symbols[objects[name].relocs[n].symbol].name
                      = NameOf(relocs_rva[s])
    BY <1>2, <1>3 DEF EmittedAt, RelocatedTo
  <2> QED BY <2>1, FS_Singleton
<1>4. s \notin DOMAIN relocs_rva => RelocsAt(objects[name], a, s) = {}
  BY <1>2 DEF EmittedAt
<1> QED BY <1>3, <1>4

\* The sites of an image are finitely many.
LEMMA FinitelyMany ==
  ASSUME NEW n \in Nat, NEW S, \A s \in S : s \in 0 .. n
  PROVE  IsFiniteSet(S)
<1>1. S \in SUBSET (0 .. n) /\ IsFiniteSet(0 .. n)
  BY FS_Interval
<1> QED BY <1>1, FS_Subset

\* What was handed over at a site is the name of a relocation there.
LEMMA HandedRelocated ==
  ASSUME IInv, phase = "built", NEW name \in DOMAIN objects,
         NEW a \in objects[name].allocs, a.what \notin Copied,
         NEW s \in DOMAIN input.relocs, a.rva <= s, s < a.rva + a.size
  PROVE  \E n \in RelocsAt(objects[name], a, s) :
           objects[name].symbols[objects[name].relocs[n].symbol].name
             = NameOf(input.relocs[s])
<1>1. /\ s \in DOMAIN relocs_rva /\ relocs_rva[s].kind = input.relocs[s].kind
      /\ relocs_rva[s].base = input.relocs[s].base
  BY DEF IInv, Formed, Handed
<1>2. NameOf(relocs_rva[s]) = NameOf(input.relocs[s])
  BY <1>1 DEF NameOf
<1>3. s \in Within(a) /\ Certain(a, s)
  <2>1. s \in Nat
    BY DEF IInv, Formed, TypeOK, IsInput
  <2>2. a.rva \in Nat /\ a.size \in Nat
    BY DEF IInv, Formed, TypeOK, ObjectType
  <2> QED BY <2>1, <2>2 DEF Within, Certain
<1>4. /\ Emitted /\ Running /\ sites = {} /\ call = {}
  BY DEF IInv, Running, Ended, Idle
<1>5. ~Awaited(name, a, s) /\ EmittedAt(name, a, s)
  BY <1>3, <1>4 DEF Awaited, Emitted
<1>6. PICK n : /\ RelocsAt(objects[name], a, s) = {n}
               /\ objects[name].symbols[objects[name].relocs[n].symbol].name
                    = NameOf(relocs_rva[s])
  BY <1>1, <1>5 DEF EmittedAt, RelocatedTo
<1> QED BY <1>2, <1>6

\* Each site in the image bytes of a definition or a function has one
\* relocation in the object, at the place the site has moved to, against the
\* symbol that classification named, and there is no other relocation there;
\* where functions overlap, this holds of the absolute sites.
THEOREM BodiesRelocatedHolds == Spec => []BodiesRelocated
BY RelocatedOnceBuilt, BuildingInductive, PTL

\* The branches recorded for a function are the relative sites in it: one of
\* another function would be of a function that lies over it, and one of the
\* same extent has the same branches.
LEMMA ClearedOnceBuilt == IInv => DisplacementsCleared
<1> SUFFICES ASSUME IInv, NEW name \in DOMAIN objects, NEW a \in objects[name].allocs,
                    a.what = "function", ~Overlapped(a)
             PROVE  a.cleared = {s \in SitesOf(a) : relocs_rva[s].encoding = "Relative"}
  BY DEF DisplacementsCleared
<1>1. Formed /\ AllLaidOut /\ BranchesKnown /\ IsInput(input)
  BY DEF IInv, Formed, TypeOK
<1>2. PICK n \in DOMAIN input.functions : OfFunction(input.functions[n], a)
  <2>1. Accounted(name, a)
    BY <1>1 DEF AllLaidOut, LaidOut
  <2> QED BY <2>1 DEF Accounted, OfDefinition, Copied
<1>3. PICK f : f = input.functions[n]
  OBVIOUS
<1>4. /\ a.rva = f.rva /\ a.size = f.size /\ a.cleared = Cleared(f)
      /\ \A s \in Cleared(f) : s \in DOMAIN relocs_rva /\ relocs_rva[s].encoding = "Relative"
      /\ IsFunction(f)
  BY <1>1, <1>2, <1>3, FunctionsTyped DEF OfFunction
<1>5. f.rva \in Nat /\ f.size \in Nat
  BY <1>4 DEF IsFunction
<1>6. ASSUME NEW s \in Cleared(f)
      PROVE  s \in SitesOf(a) /\ relocs_rva[s].encoding = "Relative"
  <2>1. s \in Nat /\ f.rva <= s /\ s + 4 <= f.rva + f.size
    BY <1>4, BranchFacts
  <2>2. s < f.rva + f.size
    BY <1>5, <2>1
  <2> QED BY <1>4, <2>1, <2>2 DEF SitesOf
<1>7. ASSUME NEW s \in SitesOf(a), relocs_rva[s].encoding = "Relative"
      PROVE  s \in Cleared(f)
  <2>1. s \in DOMAIN relocs_rva /\ s \in Nat /\ a.rva <= s /\ s < a.rva + a.size
    BY <1>1 DEF SitesOf, Formed, TypeOK
  <2>2. PICK k \in DOMAIN input.functions :
          FunctionLocation(input.functions[k]) # {} /\ s \in Cleared(input.functions[k])
    BY <1>1, <1>7, <2>1 DEF BranchesKnown
  <2>3. PICK g : g = input.functions[k]
    OBVIOUS
  <2>4. IsFunction(g)
    BY <1>1, <2>3, FunctionsTyped
  <2>5. g.rva <= s /\ s + 4 <= g.rva + g.size /\ g.rva \in Nat /\ g.size \in Nat
    <3>1. g.rva \in Nat /\ g.size \in Nat
      BY <2>4 DEF IsFunction
    <3> QED BY <2>2, <2>3, <2>4, <3>1, BranchFacts
  <2>6. g.rva < a.rva + a.size /\ a.rva < g.rva + g.size
    BY <1>4, <1>5, <2>1, <2>5
  <2>7. g.rva = f.rva /\ g.size = f.size
    BY <1>4, <2>2, <2>3, <2>6 DEF Overlapped
  <2>8. Cleared(g) = Cleared(f)
    BY <1>1, <1>3, <2>3, <2>7, SameBranches
  <2> QED BY <2>2, <2>3, <2>8
<1> QED BY <1>4, <1>6, <1>7

\* The displacement of a call or a jump out of a function is zero in the object
\* wherever a relocation supplies it, and the linked one where none does.
THEOREM DisplacementsClearedHolds == Spec => []DisplacementsCleared
BY ClearedOnceBuilt, BuildingInductive, PTL

\* Once the stage has ended no word waits to be followed.
LEMMA LinkedOnceBuilt == IInv => CopiesRelocated
<1> SUFFICES ASSUME IInv, phase = "built", NEW name \in DOMAIN objects,
                    NEW a \in objects[name].allocs,
                    a.what = "word", a.rva \in DOMAIN relocs_rva, ~Overlapped(a)
             PROVE  LET here == RelocsAt(objects[name], a, a.rva)
                    IN  Cardinality(here) = 1 \/ (here = {} /\ OnCycle(a.rva))
  BY DEF CopiesRelocated
<1>1. LinkedAt(name, a) /\ call = {}
  BY DEF IInv, Linked, Ended, Idle
<1>2. ~Pending(name, a)
  BY <1>1 DEF Pending
<1>3. CASE \E n \in DOMAIN objects[name].relocs : RelocsAt(objects[name], a, a.rva) = {n}
  BY <1>3, FS_Singleton
<1>4. CASE RelocsAt(objects[name], a, a.rva) = {} /\ OnCycle(a.rva)
  BY <1>4
<1> QED BY <1>1, <1>2, <1>3, <1>4 DEF LinkedAt

\* A copied pointer is relocated, once: the raw address of the linked image
\* never survives in a copy, except in the one that closes a cycle.
THEOREM CopiesRelocatedHolds == Spec => []CopiesRelocated
BY LinkedOnceBuilt, BuildingInductive, PTL

\* What a chain expands are pointers, none twice, and its last word may be none.
LEMMA BoundedByCount == IInv => ChainBounded
<1> SUFFICES ASSUME IInv PROVE ChainBounded
  OBVIOUS
<1>1. /\ IsFiniteSet(DOMAIN relocs_rva) /\ visited \subseteq DOMAIN relocs_rva
      /\ stack \in Seq(Nat) /\ Len(stack) <= Cardinality(visited) + 1
  BY DEF IInv, Formed, TypeOK, ChainCounted
<1>2. /\ IsFiniteSet(visited) /\ Cardinality(visited) <= Cardinality(DOMAIN relocs_rva)
  BY <1>1, FS_Subset
<1>3. /\ Cardinality(visited) \in Nat /\ Cardinality(DOMAIN relocs_rva) \in Nat
      /\ Len(stack) \in Nat
  BY <1>1, <1>2, FS_CardinalityType
<1> QED BY <1>1, <1>2, <1>3 DEF ChainBounded

\* A chain of copies is no longer than there are pointers, and one more: the
\* recursion of `add_relocation_at` is bounded on any image.
THEOREM ChainBoundedHolds == Spec => []ChainBounded
BY BoundedByCount, BuildingInductive, PTL

\* An object made of definitions alone holds nothing else: a relocation in
\* reviewed data names what it points at and copies none of it.
THEOREM ReviewedDataIsNotPaddedHolds == Spec => []ReviewedDataIsNotPadded
<1>1. IInv => ReviewedDataIsNotPadded
  BY DEF IInv
<1> QED BY <1>1, BuildingInductive, PTL

\* A function's branches are recorded over what is there only if they say the
\* same, as `assert_reinserted_branch_is_identical` requires.
LEMMA CalleesStep ==
  ASSUME Formed, [Next]_vars
  PROVE  \A s \in DOMAIN relocs_rva :
           /\ s \in DOMAIN relocs_rva'
           /\ relocs_rva'[s].kind = relocs_rva[s].kind
           /\ relocs_rva'[s].base = relocs_rva[s].base
<1>1. CASE AddFunction
  <2>1. PICK f : Extended(f)
    BY <1>1, FunctionStep
  <2> QED BY <2>1 DEF Extended
<1>2. CASE ~AddFunction
  BY <1>2, Kept
<1> QED BY <1>1, <1>2

\* A relocation never changes its callee: absolute relocations stay, and a site
\* visited again as a branch is the branch it was, or stops the run.
THEOREM CalleesStandHolds == Spec => CalleesStand
<1>1. IInv /\ [Next]_vars =>
        [\A s \in DOMAIN relocs_rva :
           /\ s \in DOMAIN relocs_rva'
           /\ relocs_rva'[s].kind = relocs_rva[s].kind
           /\ relocs_rva'[s].base = relocs_rva[s].base]_vars
  BY CalleesStep DEF IInv
<1> QED BY <1>1, BuildingInductive, PTL DEF Spec, CalleesStand
=============================================================================
