---------------------------- MODULE SymbolMatcher ----------------------------
(***************************************************************************)
(* The names of folded functions: src/src/symbol_matcher.rs.               *)
(*                                                                         *)
(* The linker folds identical functions to one location, which then has    *)
(* several names: its overloads.  A run of the delinker on the target      *)
(* records the name it chose for every folded location; a run on the base  *)
(* adopts those choices where it can.                                      *)
(***************************************************************************)
EXTENDS Integers, Lookup, SequencesExt

CONSTANTS
  Names,    \* the names of functions, numbered in the order of their bytes
  Length    \* the length of each

ASSUME NamesAssumption == Names \subseteq Nat \ {0} /\ Length \in [Names -> Nat]

\* A name cut short, which is nobody's.
Cut == 0

\* A location is folded if it has more than one name.
Folded(overloads) == Len(overloads) > 1

\* Mutant: the location's first name.
FirstName(overloads) == Head(overloads)

\* `canonical_name`: the shortest, ties broken by the order of bytes.
Canonical(overloads) ==
  CHOOSE n \in ToSet(overloads) : \A m \in ToSet(overloads) :
    Length[n] < Length[m] \/ (Length[n] = Length[m] /\ n <= m)

\* The members of a location, each once, where it comes first.
Members(overloads) ==
  LET seen(n) == \E m \in 1 .. n - 1 : overloads[m] = overloads[n]
  IN  FlattenSeq([n \in DOMAIN overloads |-> IF seen(n) THEN <<>> ELSE <<overloads[n]>>])

\* `write_function_map`: a line for each member of each folded location.
FunctionMap(functions) ==
  LET lines(overloads) ==
        IF Folded(overloads)
        THEN [n \in DOMAIN Members(overloads) |->
                [member |-> Members(overloads)[n], chosen |-> Canonical(overloads)]]
        ELSE <<>>
  IN  FlattenSeq([n \in DOMAIN functions |-> lines(functions[n])])

\* `SymbolMatcher::load`: of two lines of one member the last counts.
Load(lines) ==
  [member \in {lines[n].member : n \in DOMAIN lines} |->
     LET last == Max({n \in DOMAIN lines : lines[n].member = member})
     IN  lines[last].chosen]

\* Mutant: the first member is the only one looked up.
FirstOnly(overloads, target_choice) ==
  {target_choice[m] : m \in {overloads[1]} \cap DOMAIN target_choice}

\* "The first member we share with target tells us what target picked."
Chosen(overloads, target_choice) ==
  LET shared == {n \in DOMAIN overloads : overloads[n] \in DOMAIN target_choice}
  IN  {target_choice[overloads[n]] : n \in {m \in shared : \A k \in shared : m <= k}}

\* Mutant: the target's choice is not looked for here.
OutcomeUnchecked(matcher, overloads) ==
  IF matcher = {} \/ ~Folded(overloads) THEN "default"
  ELSE IF UNION {Chosen(overloads, choice) : choice \in matcher} = {} THEN "default"
       ELSE "reconciled"

\* What a pick comes to.  A matcher is a set: empty if it is off.
Outcome(matcher, overloads) ==
  IF matcher = {} \/ ~Folded(overloads) THEN "default"
  ELSE LET chosen == UNION {Chosen(overloads, choice) : choice \in matcher}
       IN  IF chosen = {} THEN "default"
           ELSE IF chosen \subseteq ToSet(overloads) THEN "reconciled" ELSE "fallback_missing"

\* `SymbolMatcher::pick`, the default being the canonical name.
Pick(matcher, overloads) ==
  IF Outcome(matcher, overloads) = "reconciled"
  THEN CHOOSE n \in UNION {Chosen(overloads, choice) : choice \in matcher} : TRUE
  ELSE Canonical(overloads)

\* Mutant: what was adopted counts as a change, the same name or not.
BecameSameAlways(matcher, overloads) == Outcome(matcher, overloads) = "reconciled"

\* An adopted name that this side would not have chosen.
BecameSame(matcher, overloads) ==
  Outcome(matcher, overloads) = "reconciled" /\ Pick(matcher, overloads) # Canonical(overloads)
=============================================================================
