------------------------------- MODULE Lookup -------------------------------
(***************************************************************************)
(* The ordered-map lookups the delinker is built on.  An optional result   *)
(* is a set: empty for None, a singleton for Some.                         *)
(***************************************************************************)
EXTENDS Naturals

\* What an option holds.
AtMostOne(option) == \A x, y \in option : x = y

\* `keys.range(..=rva).next_back()`: the greatest key at or below an RVA.
Predecessor(keys, rva) ==
  {k \in keys : k <= rva /\ \A j \in keys : j <= rva => j <= k}

\* Mutant: the address just past a definition still belongs to it.
OwnerInclusive(definitions, rva) ==
  {d \in definitions :
     /\ d.rva \in Predecessor({e.rva : e \in definitions}, rva)
     /\ rva - d.rva <= d.size}

\* `DataManifest::owner_and_addend_for_rva`: of the definitions that start at
\* or below an RVA the last one, if the RVA lies inside its extent.
Owner(definitions, rva) ==
  {d \in definitions :
     /\ d.rva \in Predecessor({e.rva : e \in definitions}, rva)
     /\ rva - d.rva < d.size}

\* `Option::or_else`
OrElse(first, second) == IF first # {} THEN first ELSE second

\* `BTreeMap::insert`
Insert(map, key, value) ==
  [k \in DOMAIN map \cup {key} |-> IF k = key THEN value ELSE map[k]]

\* An empty map.
EmptyMap == [k \in {} |-> k]

\* What `DataManifest::parse` establishes of the definitions it returns: no
\* two share an RVA, and no extent reaches into the next.
NonOverlapping(definitions) ==
  \A d, e \in definitions : d # e => d.rva + d.size <= e.rva \/ e.rva + e.size <= d.rva
=============================================================================
