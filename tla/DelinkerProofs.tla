--------------------------- MODULE DelinkerProofs ---------------------------
(***************************************************************************)
(* What successive runs establish, for every set of images, every command  *)
(* line, any number of runs, and any file an earlier or a failed run left. *)
(*                                                                         *)
(* The argument.  A pick is one of the location's own names whatever the   *)
(* map says, and without a map a function of the set of its names; so the  *)
(* objects of a run, and every object on disk, hold what was picked for    *)
(* their image.  What is not pending has been written.  That a map leads   *)
(* to the target's names is a fact about its lines, of which those of one  *)
(* member all come from the locations that have it.                        *)
(***************************************************************************)
EXTENDS Delinker, OrderProofs, FiniteSetTheorems

\* What a run without a map names the references of an object.
DefaultNames(b, key) ==
  [n \in DOMAIN b.objects[key] |-> Canonical(Overloads(b, key, n))]

\* What this run names them.
PickedNames ==
  [key \in DOMAIN build.objects |->
     [n \in DOMAIN build.objects[key] |-> Pick(matcher, Overloads(build, key, n))]]

\* The names of an object are those picked, once there are any.
Picked ==
  /\ phase \in {"matcher", "parse"} => objects = EmptyMap
  /\ phase \in {"write", "done"} => objects = PickedNames
  /\ objects \in {EmptyMap, PickedNames}

\* References whose pick came to an outcome, and those it made a difference to.
Reconciled ==
  {r \in AllReferences(build) :
     Outcome(matcher, Overloads(build, r[1], r[2])) = "reconciled"}

Same == {r \in AllReferences(build) : BecameSame(matcher, Overloads(build, r[1], r[2]))}

Counted ==
  phase \in {"write", "done"} =>
    stats.reconciled = Cardinality(Reconciled) /\ stats.became_same = Cardinality(Same)

\* An object on disk is one of its image; without a map its names are the
\* default ones.
ObjectsOnDisk ==
  \A p \in DOMAIN files : IsObject(p) =>
    LET t == files[p]
    IN  /\ t.key \in DOMAIN t.build.objects
        /\ ~t.adopted => t.names = DefaultNames(t.build, t.key)

\* The path of an object holds it, or the one that shares the path.
Current(key) ==
  \E k \in DOMAIN build.objects :
    /\ k.name = key.name
    /\ <<options.output, key.name>> \in DOMAIN files
    /\ files[<<options.output, key.name>>] = ObjectContent(k)

\* What is not pending has been written, and at the end nothing is.
Written ==
  /\ phase \in {"write", "done"} => \A key \in DOMAIN build.objects \ pending : Current(key)
  /\ phase = "done" => pending = {}

IInv == TypeOK /\ Picked /\ Counted /\ ObjectsOnDisk /\ Written
-----------------------------------------------------------------------------
(* Names.                                                                  *)

\* A location has a shortest name, of those the first in the order of bytes.
LEMMA CanonicalFacts ==
  ASSUME NEW overloads \in Seq(Names) \ {<<>>}
  PROVE  Canonical(overloads) \in ToSet(overloads)
<1> DEFINE S == ToSet(overloads)
           shortest == {n \in S : \A m \in S : Length[n] <= Length[m]}
<1>1. S \subseteq Names /\ S # {}
  <2>1. 1 \in DOMAIN overloads /\ \A n \in DOMAIN overloads : overloads[n] \in Names
    OBVIOUS
  <2> QED BY <2>1 DEF ToSet
<1>2. /\ S \subseteq Nat /\ \A n \in S : Length[n] \in Nat
  BY <1>1, NamesAssumption
<1>3. shortest # {}
  <2> DEFINE lengths == {Length[n] : n \in S}
  <2>1. lengths \in SUBSET Nat /\ lengths # {}
    BY <1>1, <1>2
  <2>2. PICK l \in lengths : \A k \in lengths : l <= k
    BY <2>1, LeastExists
  <2>3. PICK n \in S : l = Length[n]
    BY <2>2
  <2> QED BY <2>2, <2>3
<1>4. shortest \in SUBSET Nat
  BY <1>2
<1>5. PICK n \in shortest : \A m \in shortest : n <= m
  BY <1>3, <1>4, LeastExists
<1>6. \A m \in S : Length[n] < Length[m] \/ (Length[n] = Length[m] /\ n <= m)
  <2> TAKE m \in S
  <2>1. Length[n] <= Length[m] /\ Length[n] \in Nat /\ Length[m] \in Nat
    BY <1>2, <1>5
  <2>2. CASE Length[n] = Length[m]
    <3>1. m \in shortest
      BY <1>5, <2>2
    <3> QED BY <1>5, <2>2, <3>1
  <2>3. CASE Length[n] # Length[m]
    BY <2>1, <2>3
  <2> QED BY <2>2, <2>3
<1> QED BY <1>5, <1>6 DEF Canonical

\* A pick is one of the location's names, whatever the map says; and not the
\* canonical one only if it was reconciled.
LEMMA PickFacts ==
  ASSUME NEW m, NEW overloads \in Seq(Names) \ {<<>>}
  PROVE  /\ Pick(m, overloads) \in ToSet(overloads)
         /\ BecameSame(m, overloads) <=> Pick(m, overloads) # Canonical(overloads)
         /\ m = {} => Pick(m, overloads) = Canonical(overloads)
<1>1. Canonical(overloads) \in ToSet(overloads)
  BY CanonicalFacts
<1> DEFINE chosen == UNION {Chosen(overloads, choice) : choice \in m}
<1>2. CASE Outcome(m, overloads) = "reconciled"
  <2>1. m # {} /\ chosen # {} /\ chosen \subseteq ToSet(overloads)
    BY <1>2 DEF Outcome
  <2>2. Pick(m, overloads) = CHOOSE n \in chosen : TRUE
    BY <1>2 DEF Pick
  <2>3. Pick(m, overloads) \in chosen
    BY <2>1, <2>2
  <2> QED BY <1>2, <2>1, <2>3 DEF BecameSame
<1>3. CASE Outcome(m, overloads) # "reconciled"
  BY <1>1, <1>3 DEF Pick, BecameSame
<1> QED BY <1>2, <1>3

\* A reference is to a location of the image, which has names.
LEMMA OverloadsType ==
  ASSUME NEW b \in Builds, NEW key \in DOMAIN b.objects, NEW n \in DOMAIN b.objects[key]
  PROVE  /\ Overloads(b, key, n) \in Seq(Names) \ {<<>>}
         /\ Overloads(b, key, n) \in ToSet(b.functions)
<1>1. b.objects[key] \in Seq(DOMAIN b.functions) /\ b.functions \in Seq(Seq(Names) \ {<<>>})
  BY BuildsAssumption
<1>2. b.objects[key][n] \in DOMAIN b.functions
  BY <1>1
<1>3. b.functions[b.objects[key][n]] \in Seq(Names) \ {<<>>}
  BY <1>1, <1>2
<1> QED BY <1>2, <1>3 DEF Overloads, ToSet

\* An image has finitely many references.
LEMMA ReferencesFinite ==
  ASSUME NEW b \in Builds
  PROVE  IsFiniteSet(AllReferences(b))
<1> DEFINE K == DOMAIN b.objects
           rows == {{key} \X DOMAIN b.objects[key] : key \in K}
           row == [key \in K |-> {key} \X DOMAIN b.objects[key]]
<1>1. IsFiniteSet(K)
  BY BuildsAssumption
<1>2. row \in Surjection(K, rows)
  BY DEF Surjection
<1>3. IsFiniteSet(rows)
  BY <1>1, <1>2, FS_Surjection
<1>4. ASSUME NEW key \in K PROVE IsFiniteSet({key} \X DOMAIN b.objects[key])
  <2>1. b.objects[key] \in Seq(DOMAIN b.functions)
    BY BuildsAssumption
  <2>2. Len(b.objects[key]) \in Nat /\ DOMAIN b.objects[key] = 1 .. Len(b.objects[key])
    BY <2>1
  <2>3. IsFiniteSet(DOMAIN b.objects[key])
    BY <2>2, FS_Interval
  <2>4. IsFiniteSet({key})
    BY FS_Singleton
  <2> QED BY <2>3, <2>4, FS_Product
<1>5. \A T \in rows : IsFiniteSet(T)
  BY <1>4
<1>6. IsFiniteSet(UNION rows)
  BY <1>3, <1>5, FS_UNION
<1> QED BY <1>6 DEF AllReferences

\* A reference of an image is an object of it and a place there.
LEMMA ReferenceType ==
  ASSUME NEW b, NEW r \in AllReferences(b)
  PROVE  r[1] \in DOMAIN b.objects /\ r[2] \in DOMAIN b.objects[r[1]]
BY DEF AllReferences

\* The references of a run are those of its image, or there are none yet.
LEMMA ReferencesOfRun ==
  ASSUME Picked
  PROVE  /\ objects = PickedNames => References = AllReferences(build)
         /\ objects = EmptyMap => References = {}
BY DEF References, AllReferences, PickedNames, EmptyMap
-----------------------------------------------------------------------------
(* Files.                                                                  *)

\* The path of an object is not the one of the map.
LEMMA PathFacts ==
  ASSUME NEW key
  PROVE  /\ PathOf(key) # MapPath /\ IsObject(PathOf(key))
         /\ PathOf(key) = <<options.output, key.name>> /\ Len(PathOf(key)) = 2
<1>1. Len(<<options.output, key.name>>) = 2 /\ Len(MapPath) = 1
  BY DEF MapPath
<1> QED BY <1>1 DEF PathOf, IsObject

\* A file that is written replaces the one at its path, and no other.
LEMMA InsertFacts ==
  ASSUME NEW q, NEW content, files' = Insert(files, q, content)
  PROVE  /\ q \in DOMAIN files' /\ files'[q] = content
         /\ \A p \in DOMAIN files : p \in DOMAIN files' /\ (p = q \/ files'[p] = files[p])
         /\ \A p \in DOMAIN files' : p = q \/ p \in DOMAIN files
BY SMTT(30) DEF Insert

\* What is put at a path: an object, or part of one, or the map.
PutsObject(p, content) ==
  \E key \in pending :
    /\ p = PathOf(key) /\ content.key = key
    /\ content.names = objects[key] /\ content.adopted = (matcher # {})

PutsMap(p) == p = MapPath /\ pending = {} /\ options.write

Puts ==
  \E p, content :
    /\ phase = "write" /\ UNCHANGED <<config, matcher, objects>>
    /\ files' = Insert(files, p, content) /\ content.build = build
    /\ PutsObject(p, content) \/ PutsMap(p)

\* A write that fails puts a part of an object, or of the map.
LEMMA TornPuts ==
  ASSUME Torn, phase = "write", UNCHANGED <<config, matcher, objects>>
  PROVE  Puts
<1>1. CASE \E key \in pending :
             files' = Insert(files, PathOf(key), [ObjectContent(key) EXCEPT !.whole = FALSE])
  <2>1. PICK key \in pending :
          files' = Insert(files, PathOf(key), [ObjectContent(key) EXCEPT !.whole = FALSE])
    BY <1>1
  <2>2. PICK content : content = [ObjectContent(key) EXCEPT !.whole = FALSE]
    OBVIOUS
  <2>3. /\ content.build = build /\ content.key = key
        /\ content.names = objects[key] /\ content.adopted = (matcher # {})
    BY <2>2 DEF ObjectContent
  <2>4. PutsObject(PathOf(key), content)
    BY <2>3 DEF PutsObject
  <2> QED BY <2>1, <2>2, <2>3, <2>4 DEF Puts
<1>2. CASE /\ pending = {} /\ options.write
           /\ \E n \in 1 .. Len(MapContent.lines) :
                LET first == SubSeq(MapContent.lines, 1, n - 1)
                    cut == [MapContent.lines[n] EXCEPT !.chosen = Cut]
                IN  \E part \in {first, Append(first, cut)} :
                      files' = Insert(files, MapPath,
                                      [MapContent EXCEPT !.lines = part, !.whole = FALSE])
  <2>1. PICK part :
          files' = Insert(files, MapPath, [MapContent EXCEPT !.lines = part, !.whole = FALSE])
    BY <1>2
  <2>2. PICK content : content = [MapContent EXCEPT !.lines = part, !.whole = FALSE]
    OBVIOUS
  <2>3. content.build = build
    BY <2>2 DEF MapContent
  <2>4. PutsMap(MapPath)
    BY <1>2 DEF PutsMap
  <2> QED BY <2>1, <2>2, <2>3, <2>4 DEF Puts
<1> QED BY <1>1, <1>2 DEF Torn

\* No other step writes than those that put an object or the map.
LEMMA FilesStep ==
  ASSUME [Next]_vars
  PROVE  files' = files \/ Puts
<1>1. CASE WriteObject
  <2>1. PICK key \in pending : WriteTo(key)
    BY <1>1 DEF WriteObject
  <2>2. PICK content : content = ObjectContent(key)
    OBVIOUS
  <2>3. files' = Insert(files, PathOf(key), content)
    BY <2>1, <2>2 DEF WriteTo
  <2>4. /\ content.build = build /\ content.key = key
        /\ content.names = objects[key] /\ content.adopted = (matcher # {})
    BY <2>2 DEF ObjectContent
  <2>5. PutsObject(PathOf(key), content)
    BY <2>4 DEF PutsObject
  <2> QED BY <1>1, <2>3, <2>4, <2>5 DEF Puts, WriteObject
<1>2. CASE WriteMap
  <2>1. CASE options.write
    <3>1. PICK content : content = MapContent
      OBVIOUS
    <3>2. content.build = build /\ files' = Insert(files, MapPath, content)
      BY <1>2, <2>1, <3>1 DEF MapContent, WriteMap
    <3>3. PutsMap(MapPath)
      BY <1>2, <2>1 DEF PutsMap, WriteMap
    <3> QED BY <1>2, <3>2, <3>3 DEF Puts, WriteMap
  <2>2. CASE ~options.write
    BY <1>2, <2>2 DEF WriteMap
  <2> QED BY <2>1, <2>2
<1>3. CASE Fail
  BY <1>3, TornPuts DEF Fail
<1>4. CASE Start \/ LoadMatcher \/ Parse \/ Stop \/ UNCHANGED vars
  BY <1>4 DEF Start, LoadMatcher, Parse, Stop, vars
<1> QED BY <1>1, <1>2, <1>3, <1>4 DEF Next

\* What is put on disk is a file of an image.
LEMMA FilesType ==
  ASSUME TypeOK, [Next]_vars
  PROVE  \A p \in DOMAIN files' : files'[p].build \in Builds
<1>1. CASE files' = files
  BY <1>1 DEF TypeOK
<1>2. CASE Puts
  <2>1. PICK q, content : files' = Insert(files, q, content) /\ content.build = build
    BY <1>2 DEF Puts
  <2>2. build \in Builds /\ \A p \in DOMAIN files : files[p].build \in Builds
    BY DEF TypeOK
  <2> QED BY <2>1, <2>2, InsertFacts
<1> QED BY <1>1, <1>2, FilesStep
-----------------------------------------------------------------------------
(* The steps.                                                              *)

\* Every step keeps the types.
LEMMA NextType ==
  ASSUME TypeOK, Picked, [Next]_vars
  PROVE  TypeOK'
<1> DEFINE OnDisk == \A p \in DOMAIN files' : files'[p].build \in Builds
<1>1. OnDisk
  BY FilesType
<1>2. MaxRuns \in Nat /\ runs \in 1 .. MaxRuns
  BY BuildsAssumption DEF TypeOK
<1> HIDE DEF OnDisk
<1>3. CASE Start
  <2>1. runs' \in 1 .. MaxRuns
    BY <1>2, <1>3 DEF Start
  <2>2. /\ DOMAIN objects' = {} /\ pending' = {} /\ Len(path') <= 2
    BY <1>3 DEF Start, EmptyMap
  <2>3. stats' \in [reconciled : Nat, became_same : Nat, fallback_missing : Nat]
    BY <1>3 DEF Start, NoStats
  <2> QED BY <1>1, <1>3, <2>1, <2>2, <2>3 DEF Start, TypeOK, OnDisk
<1>4. CASE LoadMatcher
  BY <1>1, <1>4 DEF LoadMatcher, TypeOK, OnDisk, config
<1>5. CASE Parse
  <2>1. build \in Builds
    BY DEF TypeOK
  <2>2. \A S : IsFiniteSet({r \in AllReferences(build) : r \in S})
    BY <2>1, ReferencesFinite, FS_Subset
  <2>3. stats' \in [reconciled : Nat, became_same : Nat, fallback_missing : Nat]
    <3> DEFINE R == AllReferences(build)
               A == {r \in R : Outcome(matcher, Overloads(build, r[1], r[2])) = "reconciled"}
               B == {r \in R : BecameSame(matcher, Overloads(build, r[1], r[2]))}
               C == {r \in R :
                       Outcome(matcher, Overloads(build, r[1], r[2])) = "fallback_missing"}
    <3>1. IsFiniteSet(R) /\ A \in SUBSET R /\ B \in SUBSET R /\ C \in SUBSET R
      BY <2>1, ReferencesFinite
    <3>2. IsFiniteSet(A) /\ IsFiniteSet(B) /\ IsFiniteSet(C)
      BY <3>1, FS_Subset
    <3>3. Cardinality(A) \in Nat /\ Cardinality(B) \in Nat /\ Cardinality(C) \in Nat
      BY <3>2, FS_CardinalityType
    <3>4. stats' = [reconciled |-> Cardinality(A), became_same |-> Cardinality(B),
                    fallback_missing |-> Cardinality(C)]
      BY <1>5 DEF Parse
    <3> HIDE DEF A, B, C
    <3> QED BY <3>3, <3>4
  <2>4. DOMAIN objects' = DOMAIN build.objects /\ pending' = DOMAIN build.objects
    BY <1>5 DEF Parse
  <2>5. Len(path') <= 2
    BY <1>5 DEF Parse
  <2>6. phase' = "write" /\ UNCHANGED <<runs, build, options>>
    BY <1>5 DEF Parse, config
  <2> QED BY <1>1, <2>3, <2>4, <2>5, <2>6 DEF TypeOK, OnDisk
<1>6. CASE WriteObject
  <2>1. Len(path') = 2 /\ pending' \subseteq pending
    BY <1>6, PathFacts DEF WriteObject, WriteTo
  <2> QED BY <1>1, <1>6, <2>1 DEF WriteObject, TypeOK, OnDisk, config
<1>7. CASE WriteMap
  BY <1>1, <1>7 DEF WriteMap, TypeOK, OnDisk, config
<1>8. CASE Fail
  BY <1>1, <1>8 DEF Fail, TypeOK, OnDisk, config
<1>9. CASE Stop \/ UNCHANGED vars
  BY <1>1, <1>9 DEF Stop, vars, config, TypeOK, OnDisk
<1> QED BY <1>3, <1>4, <1>5, <1>6, <1>7, <1>8, <1>9 DEF Next

\* The names picked stay as long as the image and the map do.
LEMMA NextPicked ==
  ASSUME TypeOK, Picked, [Next]_vars
  PROVE  Picked'
<1>1. CASE Start
  BY <1>1 DEF Start, Picked
<1>2. CASE LoadMatcher
  BY <1>2 DEF LoadMatcher, Picked
<1>3. CASE Parse
  <2>1. UNCHANGED <<build, matcher>> /\ phase' = "write"
    BY <1>3 DEF Parse, config
  <2>2. objects' = PickedNames
    BY <1>3 DEF Parse, PickedNames
  <2>3. PickedNames' = PickedNames
    BY <2>1 DEF PickedNames
  <2> QED BY <2>1, <2>2, <2>3 DEF Picked
<1>4. CASE WriteObject \/ WriteMap \/ Fail \/ Stop \/ UNCHANGED vars
  <2>1. UNCHANGED <<build, matcher, objects>>
    BY <1>4 DEF WriteObject, WriteMap, Fail, Stop, vars, config
  <2>2. PickedNames' = PickedNames
    BY <2>1 DEF PickedNames
  <2>3. \/ phase' = phase
        \/ phase' \in {"write", "done"} /\ phase \in {"write", "done"}
        \/ phase' = "failed"
    BY <1>4 DEF WriteObject, WriteMap, Fail, Stop, vars
  <2> QED BY <2>1, <2>2, <2>3 DEF Picked
<1> QED BY <1>1, <1>2, <1>3, <1>4 DEF Next

\* The counts are of the names picked, and stay as they do.
LEMMA NextCounted ==
  ASSUME TypeOK, Counted, [Next]_vars
  PROVE  Counted'
<1>1. CASE Start \/ LoadMatcher
  BY <1>1 DEF Start, LoadMatcher, Counted
<1>2. CASE Parse
  <2>1. UNCHANGED <<build, matcher>>
    BY <1>2 DEF Parse, config
  <2>2. Reconciled' = Reconciled /\ Same' = Same
    BY <2>1 DEF Reconciled, Same
  <2>3. stats'.reconciled = Cardinality(Reconciled) /\ stats'.became_same = Cardinality(Same)
    BY <1>2 DEF Parse, Reconciled, Same
  <2> QED BY <2>2, <2>3 DEF Counted
<1>3. CASE WriteObject \/ WriteMap \/ Fail \/ Stop \/ UNCHANGED vars
  <2>1. UNCHANGED <<build, matcher, stats>>
    BY <1>3 DEF WriteObject, WriteMap, Fail, Stop, vars, config
  <2>2. Reconciled' = Reconciled /\ Same' = Same
    BY <2>1 DEF Reconciled, Same
  <2>3. phase' \in {"write", "done"} => phase \in {"write", "done"}
    BY <1>3 DEF WriteObject, WriteMap, Fail, Stop, vars
  <2> QED BY <2>1, <2>2, <2>3 DEF Counted
<1> QED BY <1>1, <1>2, <1>3 DEF Next

\* An object that is put on disk is of its image, with the names picked for it.
LEMMA NextOnDisk ==
  ASSUME TypeOK, Picked, ObjectsOnDisk, [Next]_vars
  PROVE  ObjectsOnDisk'
<1>1. CASE files' = files
  BY <1>1 DEF ObjectsOnDisk
<1>2. CASE Puts
  <2>1. PICK q, content :
          /\ phase = "write"
          /\ files' = Insert(files, q, content) /\ content.build = build
          /\ PutsObject(q, content) \/ PutsMap(q)
    BY <1>2 DEF Puts
  <2>2. objects = PickedNames /\ build \in Builds
    BY <2>1 DEF Picked, TypeOK
  <2>3. IsObject(q) => /\ content.key \in DOMAIN build.objects
                       /\ ~content.adopted => content.names = DefaultNames(build, content.key)
    <3> SUFFICES ASSUME IsObject(q)
                 PROVE  /\ content.key \in DOMAIN build.objects
                        /\ ~content.adopted => content.names = DefaultNames(build, content.key)
      OBVIOUS
    <3>1. PutsObject(q, content)
      BY <2>1 DEF PutsMap, IsObject
    <3>2. PICK key \in pending :
            /\ content.key = key
            /\ content.names = objects[key] /\ content.adopted = (matcher # {})
      BY <3>1 DEF PutsObject
    <3>3. key \in DOMAIN build.objects
      BY DEF TypeOK
    <3>4. content.names = [n \in DOMAIN build.objects[key] |-> Pick(matcher, Overloads(build, key, n))]
      BY <2>2, <3>2, <3>3 DEF PickedNames
    <3>5. ASSUME matcher = {}, NEW n \in DOMAIN build.objects[key]
          PROVE  Pick(matcher, Overloads(build, key, n)) = Canonical(Overloads(build, key, n))
      BY <2>2, <3>3, <3>5, OverloadsType, PickFacts
    <3> QED BY <3>2, <3>3, <3>4, <3>5 DEF DefaultNames
  <2>4. ASSUME NEW p \in DOMAIN files', IsObject(p)
        PROVE  /\ files'[p].key \in DOMAIN files'[p].build.objects
               /\ ~files'[p].adopted => files'[p].names = DefaultNames(files'[p].build, files'[p].key)
    <3>1. CASE p = q
      BY <2>1, <2>3, <2>4, <3>1, InsertFacts
    <3>2. CASE p # q
      <4>1. p \in DOMAIN files /\ files'[p] = files[p]
        BY <2>1, <3>2, InsertFacts
      <4> QED BY <2>4, <4>1 DEF ObjectsOnDisk
    <3> QED BY <3>1, <3>2
  <2> QED BY <2>4 DEF ObjectsOnDisk, IsObject
<1> QED BY <1>1, <1>2, FilesStep

\* Objects that are current stay so when another is put at its path: at the
\* same path it is current as well.
LEMMA WriteKeepsCurrent ==
  ASSUME TypeOK, NEW key \in DOMAIN build.objects, NEW other \in pending, WriteTo(other),
         UNCHANGED <<config, matcher, objects>>, Current(key) \/ key = other
  PROVE  Current(key)'
<1> DEFINE P(k) == <<options.output, k.name>>
<1>1. /\ files' = Insert(files, P(other), ObjectContent(other))
      /\ \A k : ObjectContent(k)' = ObjectContent(k)
      /\ UNCHANGED <<build, options>>
  BY DEF WriteTo, PathOf, ObjectContent, config
<1>2. other \in DOMAIN build.objects
  BY DEF TypeOK
<1>3. CASE P(key) = P(other)
  <2>1. other.name = key.name
    BY <1>3
  <2>2. P(key) \in DOMAIN files' /\ files'[P(key)] = ObjectContent(other)
    BY <1>1, <1>3, InsertFacts
  <2> QED BY <1>1, <1>2, <2>1, <2>2 DEF Current
<1>4. CASE P(key) # P(other)
  <2>1. Current(key)
    BY <1>4
  <2>2. PICK k \in DOMAIN build.objects :
          k.name = key.name /\ P(key) \in DOMAIN files /\ files[P(key)] = ObjectContent(k)
    BY <2>1 DEF Current
  <2>3. P(key) \in DOMAIN files' /\ files'[P(key)] = ObjectContent(k)
    BY <1>1, <1>4, <2>2, InsertFacts
  <2> QED BY <1>1, <2>2, <2>3 DEF Current
<1> QED BY <1>3, <1>4

\* The map at its path leaves every object current.
LEMMA MapKeepsCurrent ==
  ASSUME NEW key, Current(key), UNCHANGED <<config, matcher, objects>>,
         files' = files \/ \E content : files' = Insert(files, MapPath, content)
  PROVE  Current(key)'
<1> DEFINE P == <<options.output, key.name>>
<1>1. UNCHANGED <<build, options>> /\ \A k : ObjectContent(k)' = ObjectContent(k)
  BY DEF ObjectContent, config
<1>2. PICK k \in DOMAIN build.objects :
        k.name = key.name /\ P \in DOMAIN files /\ files[P] = ObjectContent(k)
  BY DEF Current
<1>3. P # MapPath
  BY PathFacts
<1>4. P \in DOMAIN files' /\ files'[P] = files[P]
  BY <1>2, <1>3, InsertFacts
<1> QED BY <1>1, <1>2, <1>4 DEF Current

\* What is not pending is current, and nothing is pending at the end.
LEMMA NextWritten ==
  ASSUME TypeOK, Written, [Next]_vars
  PROVE  Written'
<1>1. CASE Start \/ LoadMatcher \/ Fail
  BY <1>1 DEF Start, LoadMatcher, Fail, Written
<1>2. CASE Parse
  <2>1. DOMAIN build'.objects \ pending' = {} /\ phase' = "write"
    BY <1>2 DEF Parse, config
  <2> QED BY <2>1 DEF Written
<1>3. CASE WriteObject
  <2>1. PICK other \in pending : WriteTo(other) /\ pending' = pending \ {other}
    BY <1>3 DEF WriteObject
  <2>2. /\ phase = "write" /\ phase' = "write" /\ UNCHANGED <<config, matcher, objects>>
        /\ build' = build
    BY <1>3 DEF WriteObject, config
  <2>3. ASSUME NEW key \in DOMAIN build.objects \ pending' PROVE Current(key)'
    <3>1. Current(key) \/ key = other
      BY <2>1, <2>2 DEF Written
    <3> QED BY <2>1, <2>2, <3>1, WriteKeepsCurrent
  <2> QED BY <2>2, <2>3 DEF Written
<1>4. CASE WriteMap
  <2>1. /\ phase = "write" /\ pending = {} /\ pending' = pending
        /\ UNCHANGED <<config, matcher, objects>> /\ build' = build
        /\ files' = files \/ \E content : files' = Insert(files, MapPath, content)
    BY <1>4 DEF WriteMap, config
  <2>2. ASSUME NEW key \in DOMAIN build.objects PROVE Current(key)'
    <3>1. Current(key)
      BY <2>1 DEF Written
    <3> QED BY <2>1, <3>1, MapKeepsCurrent
  <2> QED BY <2>1, <2>2 DEF Written
<1>5. CASE Stop \/ UNCHANGED vars
  <2>1. UNCHANGED vars
    BY <1>5 DEF Stop
  <2>2. \A key : Current(key) => Current(key)'
    BY <2>1, MapKeepsCurrent DEF vars
  <2> QED BY <2>1, <2>2 DEF Written, vars, config
<1> QED BY <1>1, <1>2, <1>3, <1>4, <1>5 DEF Next

-----------------------------------------------------------------------------
(* The lines of a map.                                                     *)

\* What two sequences joined hold.
LEMMA ConcatElements ==
  ASSUME NEW T, NEW a \in Seq(T), NEW b \in Seq(T)
  PROVE  ToSet(a \o b) = ToSet(a) \cup ToSet(b)
<1>1. /\ Len(a) \in Nat /\ Len(b) \in Nat
      /\ DOMAIN a = 1 .. Len(a) /\ DOMAIN b = 1 .. Len(b)
      /\ DOMAIN (a \o b) = 1 .. Len(a) + Len(b)
      /\ \A i \in 1 .. Len(a) + Len(b) :
           (a \o b)[i] = IF i <= Len(a) THEN a[i] ELSE b[i - Len(a)]
  OBVIOUS
<1>2. \A i \in DOMAIN (a \o b) : (a \o b)[i] \in ToSet(a) \cup ToSet(b)
  <2> TAKE i \in DOMAIN (a \o b)
  <2>1. CASE i <= Len(a)
    <3>1. i \in DOMAIN a /\ (a \o b)[i] = a[i]
      BY <1>1, <2>1
    <3> QED BY <3>1 DEF ToSet
  <2>2. CASE ~(i <= Len(a))
    <3>1. i - Len(a) \in DOMAIN b /\ (a \o b)[i] = b[i - Len(a)]
      BY <1>1, <2>2
    <3> QED BY <3>1 DEF ToSet
  <2> QED BY <2>1, <2>2
<1>3. \A i \in DOMAIN a : a[i] \in ToSet(a \o b)
  <2> TAKE i \in DOMAIN a
  <2>1. i \in DOMAIN (a \o b) /\ (a \o b)[i] = a[i]
    BY <1>1
  <2> QED BY <2>1 DEF ToSet
<1>4. \A i \in DOMAIN b : b[i] \in ToSet(a \o b)
  <2> TAKE i \in DOMAIN b
  <2>1. i + Len(a) \in DOMAIN (a \o b) /\ (a \o b)[i + Len(a)] = b[i]
    BY <1>1
  <2> QED BY <2>1 DEF ToSet
<1>5. ToSet(a \o b) \subseteq ToSet(a) \cup ToSet(b)
  BY <1>2 DEF ToSet
<1>6. ToSet(a) \subseteq ToSet(a \o b) /\ ToSet(b) \subseteq ToSet(a \o b)
  BY <1>3, <1>4 DEF ToSet
<1> QED BY <1>5, <1>6

\* Sequences flattened hold what they hold.  The recursion is on the number
\* of sequences joined so far.
LEMMA FlattenFacts ==
  ASSUME NEW T, NEW s \in Seq(Seq(T))
  PROVE  FlattenSeq(s) \in Seq(T) /\ ToSet(FlattenSeq(s)) = UNION {ToSet(s[i]) : i \in DOMAIN s}
<1> DEFINE N == Len(s)
           Joins(g, k) == \A i \in 1 .. k : g[i] = IF i = 1 THEN s[i] ELSE g[i - 1] \o s[i]
           Joined == CHOOSE g : g = [i \in 1 .. N |-> IF i = 1 THEN s[i] ELSE g[i - 1] \o s[i]]
           Upto(k) == UNION {ToSet(s[j]) : j \in 1 .. k}
<1>1. N \in Nat /\ DOMAIN s = 1 .. N /\ \A i \in 1 .. N : s[i] \in Seq(T)
  OBVIOUS
<1>2. CASE N = 0
  <2>1. FlattenSeq(s) = s /\ s = <<>> /\ DOMAIN s = {}
    BY <1>1, <1>2 DEF FlattenSeq
  <2>2. FlattenSeq(s) \in Seq(T)
    BY <2>1
  <2>3. ToSet(s) = {} /\ UNION {ToSet(s[i]) : i \in DOMAIN s} = {}
    BY <2>1 DEF ToSet
  <2> QED BY <2>1, <2>2, <2>3
<1>3. CASE N # 0
  <2> DEFINE S == {k \in Nat : k <= N => \E g \in [1 .. k -> Seq(T)] : Joins(g, k)}
  <2>1. 0 \in S
    <3>1. PICK g : g = [i \in 1 .. 0 |-> <<>>]
      OBVIOUS
    <3>2. g \in [1 .. 0 -> Seq(T)] /\ Joins(g, 0)
      BY <3>1
    <3> QED BY <3>2
  <2>2. ASSUME NEW k \in Nat, k \in S PROVE k + 1 \in S
    <3> HIDE DEF Joins
    <3> SUFFICES ASSUME k + 1 <= N
                 PROVE  \E g \in [1 .. k + 1 -> Seq(T)] : Joins(g, k + 1)
      OBVIOUS
    <3>1. PICK g \in [1 .. k -> Seq(T)] : Joins(g, k)
      BY <1>1, <2>2
    <3> DEFINE next == IF k = 0 THEN s[1] ELSE g[k] \o s[k + 1]
               h == [i \in 1 .. k + 1 |-> IF i = k + 1 THEN next ELSE g[i]]
    <3>2. next \in Seq(T)
      <4>1. CASE k = 0
        BY <1>1, <1>3, <4>1
      <4>2. CASE k # 0
        <5>1. g[k] \in Seq(T) /\ s[k + 1] \in Seq(T)
          BY <1>1, <3>1, <4>2
        <5> QED BY <4>2, <5>1
      <4> QED BY <4>1, <4>2
    <3> HIDE DEF next
    <3>3. h \in [1 .. k + 1 -> Seq(T)]
      BY <3>1, <3>2
    <3>4. \A i \in 1 .. k : h[i] = g[i] /\ i # k + 1 /\ (i # 1 => i - 1 \in 1 .. k /\ h[i - 1] = g[i - 1])
      OBVIOUS
    <3>5. h[k + 1] = next
      OBVIOUS
    <3>6. k # 0 => h[k] = g[k]
      OBVIOUS
    <3> HIDE DEF h
    <3>7. ASSUME NEW i \in 1 .. k + 1
          PROVE  h[i] = IF i = 1 THEN s[i] ELSE h[i - 1] \o s[i]
      <4>1. CASE i = k + 1
        <5>1. k = 0 => i = 1
          BY <4>1
        <5>2. k # 0 => i # 1 /\ i - 1 = k
          BY <4>1
        <5> QED BY <3>5, <3>6, <4>1, <5>1, <5>2 DEF next
      <4>2. CASE i # k + 1
        <5>1. i \in 1 .. k
          BY <4>2
        <5> QED BY <3>1, <3>4, <5>1 DEF Joins
      <4> QED BY <4>1, <4>2
    <3>8. Joins(h, k + 1)
      BY <3>7 DEF Joins
    <3> QED BY <3>3, <3>8
  <2>3. Nat \subseteq S
    <3> HIDE DEF S
    <3> QED BY <2>1, <2>2, Induction
  <2>4. PICK g \in [1 .. N -> Seq(T)] : Joins(g, N)
    <3> HIDE DEF Joins
    <3> QED BY <1>1, <2>3
  <2>5. g = [i \in 1 .. N |-> IF i = 1 THEN s[i] ELSE g[i - 1] \o s[i]]
    BY <2>4
  <2>6. Joined = [i \in 1 .. N |-> IF i = 1 THEN s[i] ELSE Joined[i - 1] \o s[i]]
    BY <2>5
  <2>7. FlattenSeq(s) = Joined[N]
    BY <1>3 DEF FlattenSeq
  <2> HIDE DEF Joined
  <2>8. PICK f : f = Joined
    OBVIOUS
  <2>9. \A i \in 1 .. N : f[i] = IF i = 1 THEN s[i] ELSE f[i - 1] \o s[i]
    BY <2>6, <2>8
  <2> DEFINE R == {k \in Nat : k \in 1 .. N => f[k] \in Seq(T) /\ ToSet(f[k]) = Upto(k)}
  <2>10. 0 \in R
    BY <1>1
  <2>11. ASSUME NEW k \in Nat, k \in R PROVE k + 1 \in R
    <3> SUFFICES ASSUME k + 1 \in 1 .. N
                 PROVE  f[k + 1] \in Seq(T) /\ ToSet(f[k + 1]) = Upto(k + 1)
      OBVIOUS
    <3>1. CASE k = 0
      <4>1. f[k + 1] = s[1] /\ s[1] \in Seq(T) /\ 1 .. k + 1 = {1}
        BY <1>1, <2>9, <3>1
      <4> QED BY <4>1
    <3>2. CASE k # 0
      <4>1. k \in 1 .. N /\ f[k] \in Seq(T) /\ ToSet(f[k]) = Upto(k)
        BY <1>1, <2>11, <3>2
      <4>2. f[k + 1] = f[k] \o s[k + 1] /\ s[k + 1] \in Seq(T)
        <5>1. k + 1 # 1 /\ (k + 1) - 1 = k
          BY <3>2
        <5> QED BY <1>1, <2>9, <5>1
      <4>3. f[k + 1] \in Seq(T)
        BY <4>1, <4>2
      <4>4. ToSet(f[k + 1]) = ToSet(f[k]) \cup ToSet(s[k + 1])
        BY <4>1, <4>2, ConcatElements
      <4>5. Upto(k + 1) = Upto(k) \cup ToSet(s[k + 1])
        <5>1. 1 .. k + 1 = (1 .. k) \cup {k + 1}
          OBVIOUS
        <5> QED BY <5>1
      <4> QED BY <4>1, <4>3, <4>4, <4>5
    <3> QED BY <3>1, <3>2
  <2>12. Nat \subseteq R
    <3> HIDE DEF R
    <3> QED BY <2>10, <2>11, Induction
  <2>13. f[N] \in Seq(T) /\ ToSet(f[N]) = Upto(N)
    <3>1. N \in 1 .. N
      BY <1>1, <1>3
    <3>2. N \in R
      <4> HIDE DEF R
      <4> QED BY <1>1, <2>12
    <3> HIDE DEF Upto
    <3> QED BY <3>1, <3>2
  <2> QED BY <1>1, <2>7, <2>8, <2>13
<1> QED BY <1>2, <1>3

LineType == [member : Names, chosen : Names]

\* An empty sequence has no elements.
LEMMA NoElements == ToSet(<<>>) = {}
<1>1. DOMAIN <<>> = {}
  OBVIOUS
<1> QED BY <1>1 DEF ToSet

\* What is kept of a location's members is each of them.
LEMMA MembersFacts ==
  ASSUME NEW f \in Seq(Names)
  PROVE  Members(f) \in Seq(Names) /\ ToSet(Members(f)) = ToSet(f)
<1> DEFINE seen(n) == \E m \in 1 .. n - 1 : f[m] = f[n]
           kept(n) == IF seen(n) THEN <<>> ELSE <<f[n]>>
           parts == [n \in DOMAIN f |-> kept(n)]
<1>1. Len(f) \in Nat /\ DOMAIN f = 1 .. Len(f) /\ \A n \in DOMAIN f : f[n] \in Names
  OBVIOUS
<1>2. \A n \in DOMAIN f : kept(n) \in Seq(Names)
  BY <1>1
<1>3. parts \in Seq(Seq(Names)) /\ DOMAIN parts = DOMAIN f
  <2> HIDE DEF kept
  <2>1. parts \in [1 .. Len(f) -> Seq(Names)]
    BY <1>1, <1>2
  <2> QED BY <1>1, <2>1
<1>4. Members(f) = FlattenSeq(parts)
  BY DEF Members
<1>5. /\ Members(f) \in Seq(Names)
      /\ ToSet(Members(f)) = UNION {ToSet(parts[i]) : i \in DOMAIN parts}
  <2> HIDE DEF parts
  <2> QED BY <1>3, <1>4, FlattenFacts
<1>6. \A n \in DOMAIN f : parts[n] = kept(n)
  OBVIOUS
<1>7. ASSUME NEW x \in ToSet(Members(f)) PROVE x \in ToSet(f)
  <2>1. PICK n \in DOMAIN f : x \in ToSet(parts[n])
    <3> HIDE DEF parts
    <3> QED BY <1>3, <1>5
  <2>2. ~seen(n)
    BY <2>1, <1>6, NoElements
  <2>3. parts[n] = <<f[n]>>
    BY <1>6, <2>2
  <2>4. x = f[n]
    BY <2>1, <2>3 DEF ToSet
  <2> QED BY <2>4 DEF ToSet
<1>8. ASSUME NEW x \in ToSet(f) PROVE x \in ToSet(Members(f))
  <2> DEFINE places == {n \in DOMAIN f : f[n] = x}
  <2>1. places \subseteq Nat /\ places # {}
    BY <1>1 DEF ToSet
  <2>2. PICK n \in places : \A m \in places : n <= m
    <3> HIDE DEF places
    <3> QED BY <2>1, LeastExists
  <2>3. n \in DOMAIN f /\ f[n] = x
    BY <2>2
  <2>4. ~seen(n)
    BY <1>1, <2>2, <2>3
  <2>5. parts[n] = <<x>>
    BY <1>6, <2>3, <2>4
  <2>6. x \in ToSet(parts[n])
    BY <2>5 DEF ToSet
  <2> HIDE DEF parts
  <2> QED BY <1>3, <1>5, <2>3, <2>6
<1> QED BY <1>5, <1>7, <1>8

\* The lines of a map are those of the folded locations: each says what its
\* location's name is, and each member has one.
LEMMA MapLines ==
  ASSUME NEW functions \in Seq(Seq(Names) \ {<<>>})
  PROVE  /\ FunctionMap(functions) \in Seq(LineType)
         /\ \A line \in ToSet(FunctionMap(functions)) :
              \E f \in ToSet(functions) :
                Folded(f) /\ line.member \in ToSet(f) /\ line.chosen = Canonical(f)
         /\ \A f \in ToSet(functions) : \A m \in ToSet(f) :
              Folded(f) => \E line \in ToSet(FunctionMap(functions)) : line.member = m
<1> DEFINE T == LineType
           lines(f) ==
             IF Folded(f)
             THEN [n \in DOMAIN Members(f) |->
                     [member |-> Members(f)[n], chosen |-> Canonical(f)]]
             ELSE <<>>
           parts == [n \in DOMAIN functions |-> lines(functions[n])]
<1>1. /\ Len(functions) \in Nat /\ DOMAIN functions = 1 .. Len(functions)
      /\ \A i \in DOMAIN functions : functions[i] \in Seq(Names) \ {<<>>}
  OBVIOUS
<1>2. ASSUME NEW f \in Seq(Names) \ {<<>>} PROVE lines(f) \in Seq(T)
  <2> DEFINE g == Members(f)
  <2>1. g \in Seq(Names) /\ ToSet(f) \subseteq Names
    <3>1. f \in Seq(Names) /\ \A n \in DOMAIN f : f[n] \in Names
      OBVIOUS
    <3> QED BY <3>1, MembersFacts DEF ToSet
  <2>2. Canonical(f) \in Names
    <3>1. Canonical(f) \in ToSet(f)
      BY CanonicalFacts
    <3> QED BY <2>1, <3>1
  <2>3. CASE Folded(f)
    <3>1. lines(f) = [n \in DOMAIN g |-> [member |-> g[n], chosen |-> Canonical(f)]]
      BY <2>3
    <3> HIDE DEF g
    <3>2. Len(g) \in Nat /\ DOMAIN g = 1 .. Len(g) /\ \A n \in DOMAIN g : g[n] \in Names
      BY <2>1
    <3>3. lines(f) \in [1 .. Len(g) -> T]
      BY <2>2, <3>1, <3>2 DEF LineType
    <3> HIDE DEF T, lines
    <3>4. \A k \in Nat : \A h : h \in [1 .. k -> T] => h \in Seq(T)
      OBVIOUS
    <3> QED BY <3>2, <3>3, <3>4
  <2>4. CASE ~Folded(f)
    BY <2>4
  <2> QED BY <2>3, <2>4
<1>3. parts \in Seq(Seq(T)) /\ DOMAIN parts = DOMAIN functions
  <2> HIDE DEF T, lines
  <2>1. parts \in [1 .. Len(functions) -> Seq(T)]
    BY <1>1, <1>2
  <2> QED BY <1>1, <2>1
<1>4. FunctionMap(functions) = FlattenSeq(parts)
  BY DEF FunctionMap
<1>5. /\ FunctionMap(functions) \in Seq(T)
      /\ ToSet(FunctionMap(functions)) = UNION {ToSet(parts[i]) : i \in DOMAIN parts}
  <2> HIDE DEF T, parts
  <2> QED BY <1>3, <1>4, FlattenFacts
<1>6. ASSUME NEW line \in ToSet(FunctionMap(functions))
      PROVE  \E f \in ToSet(functions) :
               Folded(f) /\ line.member \in ToSet(f) /\ line.chosen = Canonical(f)
  <2>1. PICK i \in DOMAIN functions : line \in ToSet(parts[i])
    BY <1>3, <1>5
  <2>2. PICK f : f = functions[i]
    OBVIOUS
  <2>3. f \in ToSet(functions) /\ parts[i] = lines(f)
    BY <2>1, <2>2 DEF ToSet
  <2>4. Folded(f)
    BY <2>1, <2>3, NoElements
  <2>5. PICK n \in DOMAIN Members(f) :
          line = [member |-> Members(f)[n], chosen |-> Canonical(f)]
    <3>1. parts[i] =
            [n \in DOMAIN Members(f) |-> [member |-> Members(f)[n], chosen |-> Canonical(f)]]
      BY <2>3, <2>4
    <3> QED BY <2>1, <3>1 DEF ToSet
  <2>6. Members(f)[n] \in ToSet(f)
    <3>1. f \in Seq(Names)
      BY <1>1, <2>2
    <3>2. Members(f)[n] \in ToSet(Members(f))
      BY DEF ToSet
    <3> QED BY <3>1, <3>2, MembersFacts
  <2> QED BY <2>3, <2>4, <2>5, <2>6
<1>7. ASSUME NEW f \in ToSet(functions), NEW m \in ToSet(f), Folded(f)
      PROVE  \E line \in ToSet(FunctionMap(functions)) : line.member = m
  <2>1. PICK i \in DOMAIN functions : functions[i] = f
    BY DEF ToSet
  <2>2. PICK n \in DOMAIN Members(f) : Members(f)[n] = m
    <3>1. f \in Seq(Names)
      BY <1>1, <2>1
    <3>2. m \in ToSet(Members(f))
      BY <3>1, MembersFacts
    <3> QED BY <3>2 DEF ToSet
  <2>3. parts[i] =
          [k \in DOMAIN Members(f) |-> [member |-> Members(f)[k], chosen |-> Canonical(f)]]
    BY <1>7, <2>1
  <2>4. [member |-> m, chosen |-> Canonical(f)] \in ToSet(parts[i])
    BY <2>2, <2>3 DEF ToSet
  <2>5. [member |-> m, chosen |-> Canonical(f)] \in ToSet(FunctionMap(functions))
    BY <1>3, <1>5, <2>1, <2>4
  <2> QED BY <2>5
<1> QED BY <1>5, <1>6, <1>7

\* What is loaded of a member is what one of its lines says.
LEMMA LoadFacts ==
  ASSUME NEW T, NEW lines \in Seq(T)
  PROVE  /\ \A line \in ToSet(lines) : line.member \in DOMAIN Load(lines)
         /\ \A m \in DOMAIN Load(lines) :
              \E line \in ToSet(lines) : line.member = m /\ Load(lines)[m] = line.chosen
<1>1. Len(lines) \in Nat /\ DOMAIN lines = 1 .. Len(lines)
  OBVIOUS
<1>2. DOMAIN Load(lines) = {lines[n].member : n \in DOMAIN lines}
  BY DEF Load
<1>3. ASSUME NEW m \in DOMAIN Load(lines)
      PROVE  \E line \in ToSet(lines) : line.member = m /\ Load(lines)[m] = line.chosen
  <2> DEFINE places == {n \in DOMAIN lines : lines[n].member = m}
  <2>1. places \in SUBSET Nat /\ places # {} /\ \A n \in places : n <= Len(lines)
    BY <1>1, <1>2
  <2>2. \E l \in places : \A n \in places : n <= l
    BY <1>1, <2>1, GreatestExists
  <2>3. \E l \in places : \A n \in places : l >= n
    BY <2>1, <2>2
  <2>4. Max(places) \in places
    BY <2>3 DEF Max
  <2>5. Load(lines)[m] = lines[Max(places)].chosen
    BY <1>2 DEF Load
  <2> QED BY <2>4, <2>5 DEF ToSet
<1>4. \A line \in ToSet(lines) : line.member \in DOMAIN Load(lines)
  BY <1>2 DEF ToSet
<1> QED BY <1>3, <1>4

\* A folded location that shares names with one folded location of a target,
\* and with no other, and has the name the target gave it, is given it too.
LEMMA MapLeads ==
  ASSUME NEW functions \in Seq(Seq(Names) \ {<<>>}),
         NEW g \in ToSet(functions), NEW h \in Seq(Names) \ {<<>>},
         Folded(g), Folded(h), SharesName(g, h),
         \A f \in ToSet(functions) : Folded(f) /\ SharesName(f, h) => f = g,
         Canonical(g) \in ToSet(h)
  PROVE  Pick({Load(FunctionMap(functions))}, h) = Canonical(g)
<1> DEFINE map == FunctionMap(functions)
           choice == Load(map)
           shared == {n \in DOMAIN h : h[n] \in DOMAIN choice}
<1>1. /\ \A line \in ToSet(map) :
           \E f \in ToSet(functions) :
             Folded(f) /\ line.member \in ToSet(f) /\ line.chosen = Canonical(f)
      /\ \A m \in ToSet(g) : \E line \in ToSet(map) : line.member = m
  BY MapLines
<1>2. /\ \A line \in ToSet(map) : line.member \in DOMAIN choice
      /\ \A m \in DOMAIN choice :
           \E line \in ToSet(map) : line.member = m /\ choice[m] = line.chosen
  <2>1. map \in Seq(LineType)
    BY MapLines
  <2> QED BY <2>1, LoadFacts
<1> HIDE DEF map, choice
<1>3. ASSUME NEW n \in shared PROVE choice[h[n]] = Canonical(g)
  <2>1. PICK line \in ToSet(map) : line.member = h[n] /\ choice[h[n]] = line.chosen
    BY <1>2
  <2>2. PICK f \in ToSet(functions) :
          Folded(f) /\ line.member \in ToSet(f) /\ line.chosen = Canonical(f)
    BY <1>1
  <2>3. h[n] \in ToSet(h)
    BY DEF ToSet
  <2>4. SharesName(f, h)
    BY <2>1, <2>2, <2>3 DEF SharesName
  <2> QED BY <2>1, <2>2, <2>4
<1>4. shared \in SUBSET Nat /\ shared # {}
  <2>1. PICK m : m \in ToSet(g) /\ m \in ToSet(h)
    BY DEF SharesName
  <2>2. m \in DOMAIN choice
    BY <1>1, <1>2, <2>1
  <2>3. PICK n \in DOMAIN h : h[n] = m
    BY <2>1 DEF ToSet
  <2>4. DOMAIN h \subseteq Nat
    OBVIOUS
  <2> QED BY <2>2, <2>3, <2>4
<1>5. PICK first \in shared : \A k \in shared : first <= k
  BY <1>4, LeastExists
<1>6. Chosen(h, choice) = {Canonical(g)}
  <2>1. Chosen(h, choice) = {choice[h[n]] : n \in {m \in shared : \A k \in shared : m <= k}}
    BY DEF Chosen
  <2>2. first \in {m \in shared : \A k \in shared : m <= k}
    BY <1>5
  <2> HIDE DEF shared
  <2> QED BY <1>3, <2>1, <2>2
<1>7. UNION {Chosen(h, c) : c \in {choice}} = {Canonical(g)}
  BY <1>6
<1>8. Outcome({choice}, h) = "reconciled"
  BY <1>7 DEF Outcome
<1>9. Pick({choice}, h) = CHOOSE n \in {Canonical(g)} : TRUE
  BY <1>7, <1>8 DEF Pick
<1> QED BY <1>9 DEF choice, map
-----------------------------------------------------------------------------
(* The properties.                                                         *)

\* In every state of any number of runs: the types, the names picked and
\* counted, the objects on disk, and what has been written.
THEOREM RunsInductive == Spec => []IInv
<1>1. Init => IInv
  <2> SUFFICES ASSUME Init PROVE IInv
    OBVIOUS
  <2>1. DOMAIN EmptyMap = {}
    BY DEF EmptyMap
  <2>2. TypeOK
    <3>1. 1 \in 1 .. MaxRuns
      BY BuildsAssumption
    <3>2. stats \in [reconciled : Nat, became_same : Nat, fallback_missing : Nat]
      BY DEF Init, NoStats
    <3> QED BY <2>1, <3>1, <3>2 DEF Init, TypeOK
  <2>3. Picked /\ Counted /\ ObjectsOnDisk /\ Written
    BY <2>1 DEF Init, Picked, Counted, ObjectsOnDisk, Written
  <2> QED BY <2>2, <2>3 DEF IInv
<1>2. IInv /\ [Next]_vars => IInv'
  BY NextType, NextPicked, NextCounted, NextOnDisk, NextWritten DEF IInv
<1> QED BY <1>1, <1>2, PTL DEF Spec

\* The state of successive runs has its types, whatever earlier ones left.
THEOREM RunsTypeCorrect == Spec => []TypeOK
<1>1. IInv => TypeOK
  BY DEF IInv
<1> QED BY <1>1, RunsInductive, PTL

\* A location is named by one of its own names, whatever map is on disk
\* (`SymbolMatcher::pick`).
THEOREM NamesAreOwnHolds == Spec => []NamesAreOwn
<1>1. ASSUME TypeOK, Picked PROVE NamesAreOwn
  <2>1. ASSUME NEW r \in References
        PROVE  objects[r[1]][r[2]] \in ToSet(Overloads(build, r[1], r[2]))
    <3>1. objects = PickedNames /\ r \in AllReferences(build) /\ build \in Builds
      BY <1>1, ReferencesOfRun DEF Picked, TypeOK
    <3>2. r[1] \in DOMAIN build.objects /\ r[2] \in DOMAIN build.objects[r[1]]
      BY <3>1, ReferenceType
    <3>3. objects[r[1]][r[2]] = Pick(matcher, Overloads(build, r[1], r[2]))
      BY <3>1, <3>2 DEF PickedNames
    <3> QED BY <3>1, <3>2, <3>3, OverloadsType, PickFacts
  <2> QED BY <2>1 DEF NamesAreOwn
<1>2. IInv => NamesAreOwn
  BY <1>1 DEF IInv
<1> QED BY <1>2, RunsInductive, PTL

\* The names of runs without a map depend on the set of folded names only
\* (`canonical_name`).
THEOREM SameGroupSameNameHolds == Spec => []SameGroupSameName
<1>1. ASSUME ObjectsOnDisk PROVE SameGroupSameName
  <2> SUFFICES ASSUME NEW p \in DOMAIN files, NEW q \in DOMAIN files, IsObject(p), IsObject(q),
                      ~files[p].adopted, ~files[q].adopted,
                      NEW m \in DOMAIN files[p].names, NEW n \in DOMAIN files[q].names,
                      ToSet(Overloads(files[p].build, files[p].key, m))
                        = ToSet(Overloads(files[q].build, files[q].key, n))
               PROVE  files[p].names[m] = files[q].names[n]
    BY DEF SameGroupSameName
  <2>1. \A f \in DOMAIN files : \A k \in DOMAIN files[f].names :
          IsObject(f) /\ ~files[f].adopted =>
            files[f].names[k] = Canonical(Overloads(files[f].build, files[f].key, k))
    BY <1>1 DEF ObjectsOnDisk, DefaultNames
  <2>2. ASSUME NEW g, NEW h, ToSet(g) = ToSet(h) PROVE Canonical(g) = Canonical(h)
    BY <2>2 DEF Canonical
  <2> QED BY <2>1, <2>2
<1>2. IInv => SameGroupSameName
  BY <1>1 DEF IInv
<1> QED BY <1>2, RunsInductive, PTL

\* A run that adopts a target's whole map names a location as the target's
\* objects do, if the map can tell which of the target's it is.
THEOREM FoldedNamesAgreeHolds == Spec => []FoldedNamesAgree
<1>1. ASSUME TypeOK, Picked, ObjectsOnDisk PROVE FoldedNamesAgree
  <2> SUFFICES ASSUME phase = "done", NEW p \in DOMAIN files, IsObject(p), ~files[p].adopted,
                      matcher = {Load(FunctionMap(files[p].build.functions))},
                      NEW m \in DOMAIN files[p].names, NEW r \in References,
                      NEW g, g = Overloads(files[p].build, files[p].key, m),
                      NEW h, h = Overloads(build, r[1], r[2]),
                      Folded(g), Folded(h), SharesName(g, h),
                      \A f \in ToSet(files[p].build.functions) :
                        Folded(f) /\ SharesName(f, h) => f = g,
                      files[p].names[m] \in ToSet(h)
               PROVE  objects[r[1]][r[2]] = files[p].names[m]
    BY DEF FoldedNamesAgree
  <2>1. PICK b : b = files[p].build
    OBVIOUS
  <2>2. b \in Builds /\ build \in Builds /\ b.functions \in Seq(Seq(Names) \ {<<>>})
    BY <1>1, <2>1, BuildsAssumption DEF TypeOK
  <2>3. /\ files[p].key \in DOMAIN b.objects
        /\ m \in DOMAIN b.objects[files[p].key] /\ files[p].names[m] = Canonical(g)
    BY <1>1, <2>1 DEF ObjectsOnDisk, DefaultNames
  <2>4. g \in ToSet(b.functions)
    BY <2>1, <2>2, <2>3, OverloadsType
  <2>5. objects = PickedNames /\ r \in AllReferences(build)
    BY <1>1, ReferencesOfRun DEF Picked
  <2>6. r[1] \in DOMAIN build.objects /\ r[2] \in DOMAIN build.objects[r[1]]
    BY <2>5, ReferenceType
  <2>7. objects[r[1]][r[2]] = Pick(matcher, h) /\ h \in Seq(Names) \ {<<>>}
    BY <2>2, <2>5, <2>6, OverloadsType DEF PickedNames
  <2>8. Pick({Load(FunctionMap(b.functions))}, h) = Canonical(g)
    BY <2>1, <2>2, <2>3, <2>4, <2>7, MapLeads
  <2> QED BY <2>1, <2>3, <2>7, <2>8
<1>2. IInv => FoldedNamesAgree
  BY <1>1 DEF IInv
<1> QED BY <1>2, RunsInductive, PTL

\* The verification number counts the references a map made a difference to,
\* and is at most the number of those it decided.
THEOREM StatsCountAdoptionsHolds == Spec => []StatsCountAdoptions
<1>1. ASSUME TypeOK, Picked, Counted PROVE StatsCountAdoptions
  <2> SUFFICES ASSUME phase \in {"write", "done"}
               PROVE  /\ stats.became_same =
                           Cardinality({r \in References :
                             objects[r[1]][r[2]] # Canonical(Overloads(build, r[1], r[2]))})
                      /\ stats.became_same <= stats.reconciled
    BY DEF StatsCountAdoptions
  <2>1. /\ objects = PickedNames /\ References = AllReferences(build) /\ build \in Builds
        /\ stats.reconciled = Cardinality(Reconciled) /\ stats.became_same = Cardinality(Same)
    BY <1>1, ReferencesOfRun DEF Picked, Counted, TypeOK
  <2>2. ASSUME NEW r \in AllReferences(build)
        PROVE  BecameSame(matcher, Overloads(build, r[1], r[2]))
                 <=> objects[r[1]][r[2]] # Canonical(Overloads(build, r[1], r[2]))
    <3>1. r[1] \in DOMAIN build.objects /\ r[2] \in DOMAIN build.objects[r[1]]
      BY ReferenceType
    <3>2. objects[r[1]][r[2]] = Pick(matcher, Overloads(build, r[1], r[2]))
      BY <2>1, <3>1 DEF PickedNames
    <3> QED BY <2>1, <3>1, <3>2, OverloadsType, PickFacts
  <2>3. Same = {r \in References :
                  objects[r[1]][r[2]] # Canonical(Overloads(build, r[1], r[2]))}
    BY <2>1, <2>2 DEF Same
  <2>4. Same \in SUBSET Reconciled /\ Reconciled \in SUBSET AllReferences(build)
    BY DEF Same, Reconciled, BecameSame
  <2>5. Cardinality(Same) <= Cardinality(Reconciled)
    <3>1. IsFiniteSet(Reconciled)
      BY <2>1, <2>4, ReferencesFinite, FS_Subset
    <3> QED BY <2>4, <3>1, FS_Subset
  <2> QED BY <2>1, <2>3, <2>5
<1>2. IInv => StatsCountAdoptions
  BY <1>1 DEF IInv
<1> QED BY <1>2, RunsInductive, PTL

\* A run that succeeds leaves its own objects, whole (`ObjectFiles::write`).
THEOREM OutputsCurrentHolds == Spec => []OutputsCurrent
<1>1. Written => OutputsCurrent
  BY DEF Written, OutputsCurrent, Current
<1>2. IInv => OutputsCurrent
  BY <1>1 DEF IInv
<1> QED BY <1>2, RunsInductive, PTL

\* A map on disk changes only once every object of its image is written.
THEOREM MapNeverAheadHolds == Spec => MapNeverAhead
<1> DEFINE Changed == /\ MapPath \in DOMAIN files'
                      /\ MapPath \in DOMAIN files => files'[MapPath] # files[MapPath]
           Behind == \A key \in DOMAIN build.objects :
                       \E k \in DOMAIN build.objects :
                         /\ <<options.output, key.name>> \in DOMAIN files
                         /\ files[<<options.output, key.name>>] = ObjectContent(k)
<1>1. ASSUME IInv, [Next]_vars, Changed PROVE Behind
  <2>1. files' # files
    BY <1>1
  <2>2. PICK q, content :
          /\ phase = "write" /\ files' = Insert(files, q, content)
          /\ PutsObject(q, content) \/ PutsMap(q)
    BY <1>1, <2>1, FilesStep DEF Puts
  <2>3. MapPath = q
    BY <1>1, <2>2, InsertFacts
  <2>4. PutsMap(q)
    BY <2>2, <2>3, PathFacts DEF PutsObject
  <2>5. \A key \in DOMAIN build.objects : Current(key)
    BY <1>1, <2>2, <2>4 DEF PutsMap, IInv, Written
  <2> QED BY <2>5 DEF Current
<1>2. IInv /\ [Next]_vars => [Changed => Behind]_vars
  BY <1>1
<1> QED BY <1>2, RunsInductive, PTL DEF Spec, MapNeverAhead
=============================================================================
