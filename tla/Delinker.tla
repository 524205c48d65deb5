------------------------------ MODULE Delinker ------------------------------
(***************************************************************************)
(* Runs of the program: `process_executable` of src/src/main.rs from the   *)
(* symbol matcher on, and `ObjectFiles::write`.                            *)
(*                                                                         *)
(* What remains of a run is files: the objects in its output directory,    *)
(* written one by one in the order of a hash map, and then the symbol map. *)
(* Any step may fail and end the run, a write leaving part of a file;      *)
(* the next run, of the same or of another build, finds what is there.     *)
(***************************************************************************)
EXTENDS SymbolMatcher

CONSTANTS
  Builds,    \* linked images: their functions, and what their objects refer to
  Options,   \* the command lines to consider: output directory and map flags
  MaxRuns    \* bounds the runs of a behaviour

\* `functions` by ascending RVA; for each object, by its key in the hash map,
\* the functions it names, in order; a key's path is its name with `\` as `/`.
ASSUME BuildsAssumption ==
  /\ MaxRuns \in Nat \ {0}
  /\ \A b \in Builds :
       /\ b.functions \in Seq(Seq(Names) \ {<<>>})
       /\ IsFiniteSet(DOMAIN b.objects)
       /\ \A key \in DOMAIN b.objects : b.objects[key] \in Seq(DOMAIN b.functions)
  /\ \A o \in Options : o.read \in BOOLEAN /\ o.write \in BOOLEAN

VARIABLES
  files,     \* path -> content
  runs,      \* how many runs were begun
  phase,     \* where the run is
  build, options,
  matcher,   \* `SymbolMatcher`: the loaded choices, if any
  objects,   \* the names each object was given
  stats,
  pending,   \* objects not yet written
  path       \* the buffer the paths of objects are put together in

config == <<runs, build, options>>
vars == <<files, phase, config, matcher, objects, stats, pending, path>>

MapPath == <<"map">>

NoStats == [reconciled |-> 0, became_same |-> 0, fallback_missing |-> 0]

Init ==
  /\ files = EmptyMap /\ runs = 1
  /\ phase = "matcher" /\ build \in Builds /\ options \in Options
  /\ matcher = {} /\ objects = EmptyMap /\ stats = NoStats
  /\ pending = {} /\ path = <<>>

\* Another run, with the files the last one left.
Start ==
  /\ phase \in {"done", "failed"} /\ runs < MaxRuns
  /\ runs' = runs + 1
  /\ phase' = "matcher" /\ build' \in Builds /\ options' \in Options
  /\ matcher' = {} /\ objects' = EmptyMap /\ stats' = NoStats
  /\ pending' = {} /\ path' = <<>>
  /\ UNCHANGED files

\* A map that is not there yet is tolerated.
LoadMatcher ==
  /\ phase = "matcher"
  /\ matcher' = {Load(files[p].lines) : p \in IF options.read THEN {MapPath} \cap DOMAIN files ELSE {}}
  /\ phase' = "parse"
  /\ UNCHANGED <<files, config, objects, stats, pending, path>>

\* The names of the function an object refers to.
Overloads(b, key, n) == b.functions[b.objects[key][n]]

\* Every reference, by its object and its place there.
AllReferences(b) == UNION {{key} \X DOMAIN b.objects[key] : key \in DOMAIN b.objects}

\* `ObjectFiles::parse`, of which only the names it picks matter here: each
\* reference to a folded function is a pick, and counted.
Parse ==
  /\ phase = "parse"
  /\ objects' = [key \in DOMAIN build.objects |->
                   [n \in DOMAIN build.objects[key] |-> Pick(matcher, Overloads(build, key, n))]]
  /\ LET outcomes(outcome) ==
           {r \in AllReferences(build) : Outcome(matcher, Overloads(build, r[1], r[2])) = outcome}
         same == {r \in AllReferences(build) : BecameSame(matcher, Overloads(build, r[1], r[2]))}
     IN  stats' = [reconciled |-> Cardinality(outcomes("reconciled")),
                   became_same |-> Cardinality(same),
                   fallback_missing |-> Cardinality(outcomes("fallback_missing"))]
  /\ pending' = DOMAIN build.objects
  /\ path' = <<options.output>>
  /\ phase' = "write"
  /\ UNCHANGED <<files, config, matcher>>

\* Mutant: the buffer is not cut back to the output directory.
PathKept(key) == Append(path, key.name)

\* The buffer with a key's path: cut back, then extended.
PathOf(key) == <<options.output, key.name>>

\* What an object is made of: its build, and the names the run picked.
ObjectContent(key) ==
  [build |-> build, key |-> key, names |-> objects[key], adopted |-> matcher # {},
   whole |-> TRUE]

\* Mutant: an object that is there already is not written again.
WriteNewObject(key) ==
  /\ path' = PathOf(key)
  /\ files' = IF path' \in DOMAIN files THEN files ELSE Insert(files, path', ObjectContent(key))

\* `create_dir_all`, `fs::write`
WriteTo(key) ==
  /\ path' = PathOf(key)
  /\ files' = Insert(files, path', ObjectContent(key))

WriteObject ==
  /\ phase = "write"
  /\ \E key \in pending : WriteTo(key) /\ pending' = pending \ {key}
  /\ UNCHANGED <<phase, config, matcher, objects, stats>>

MapContent ==
  [build |-> build, lines |-> FunctionMap(build.functions), whole |-> TRUE]

\* Mutant: the map does not wait for the objects.
WriteMapEarly ==
  /\ phase = "write"
  /\ files' = IF options.write THEN Insert(files, MapPath, MapContent) ELSE files
  /\ phase' = "done"
  /\ UNCHANGED <<config, matcher, objects, stats, pending, path>>

\* The symbol map, if asked for, once every object is written.
WriteMap ==
  /\ phase = "write" /\ pending = {}
  /\ files' = IF options.write THEN Insert(files, MapPath, MapContent) ELSE files
  /\ phase' = "done"
  /\ UNCHANGED <<config, matcher, objects, stats, pending, path>>

\* A write that fails leaves a part of its file: of an object nothing usable,
\* of the map its first lines, the last perhaps cut short.
Torn ==
  \/ \E key \in pending :
       files' = Insert(files, PathOf(key), [ObjectContent(key) EXCEPT !.whole = FALSE])
  \/ /\ pending = {} /\ options.write
     /\ \E n \in 1 .. Len(MapContent.lines) :
          LET first == SubSeq(MapContent.lines, 1, n - 1)
              cut == [MapContent.lines[n] EXCEPT !.chosen = Cut]
          IN  \E lines \in {first, Append(first, cut)} :
                files' = Insert(files, MapPath, [MapContent EXCEPT !.lines = lines, !.whole = FALSE])

\* An error ends the run where it is.
Fail ==
  /\ phase \in {"matcher", "parse", "write"}
  /\ phase' = "failed"
  /\ files' = files \/ (phase = "write" /\ Torn)
  /\ UNCHANGED <<config, matcher, objects, stats, pending, path>>

Stop == phase \in {"done", "failed"} /\ runs = MaxRuns /\ UNCHANGED vars

Next == Start \/ LoadMatcher \/ Parse \/ WriteObject \/ WriteMap \/ Fail \/ Stop

Spec == Init /\ [][Next]_vars
-----------------------------------------------------------------------------
(* Properties.                                                              *)

IsObject(p) == p # MapPath

\* Everything this run picks a name for: an object and a reference in it.
References == UNION {{key} \X DOMAIN objects[key] : key \in DOMAIN objects}

\* The type invariant.
TypeOK ==
  /\ phase \in {"matcher", "parse", "write", "done", "failed"}
  /\ runs \in 1 .. MaxRuns /\ build \in Builds /\ options \in Options
  /\ pending \subseteq DOMAIN objects /\ DOMAIN objects \subseteq DOMAIN build.objects
  /\ stats \in [reconciled : Nat, became_same : Nat, fallback_missing : Nat]
  /\ Len(path) <= 2
  /\ \A p \in DOMAIN files : files[p].build \in Builds

\* The name of a location is one of its own, whatever the map on disk says:
\* a map of another image, a torn one, a line cut short.
NamesAreOwn ==
  \A r \in References : objects[r[1]][r[2]] \in ToSet(Overloads(build, r[1], r[2]))

\* "Two binaries that fold the same names independently arrive at the same
\* representative without any map": objects of runs without a map name the
\* same set of folded functions the same, in whatever order each PDB lists it.
SameGroupSameName ==
  \A p, q \in DOMAIN files : IsObject(p) /\ IsObject(q) =>
    LET t == files[p]
        u == files[q]
    IN  ~t.adopted /\ ~u.adopted =>
          \A m \in DOMAIN t.names, n \in DOMAIN u.names :
            ToSet(Overloads(t.build, t.key, m)) = ToSet(Overloads(u.build, u.key, n))
              => t.names[m] = u.names[n]

SharesName(g, h) == ToSet(g) \cap ToSet(h) # {}

\* The purpose of the map.  A run that has loaded the whole map of a target
\* gives a folded location the name that location has in the target's objects,
\* if it is folded there too and has that name here; and if no other folded
\* location of the target has a share in it, which the map cannot tell apart.
FoldedNamesAgree ==
  phase = "done" /\ matcher # {} =>
    \A p \in DOMAIN files : IsObject(p) =>
      LET t == files[p]
      IN  ~t.adopted /\ matcher = {Load(FunctionMap(t.build.functions))} =>
            \A m \in DOMAIN t.names, r \in References :
              LET g == Overloads(t.build, t.key, m)
                  h == Overloads(build, r[1], r[2])
              IN  /\ Folded(g) /\ Folded(h) /\ SharesName(g, h)
                  /\ \A f \in ToSet(t.build.functions) : Folded(f) /\ SharesName(f, h) => f = g
                  /\ t.names[m] \in ToSet(h)
                  => objects[r[1]][r[2]] = t.names[m]

\* "`became_same` is the verification number": it counts the references whose
\* name is not the one a run without a map would have given them.
StatsCountAdoptions ==
  phase \in {"write", "done"} =>
    /\ stats.became_same =
         Cardinality({r \in References :
           objects[r[1]][r[2]] # Canonical(Overloads(build, r[1], r[2]))})
    /\ stats.became_same <= stats.reconciled

\* A run that succeeds leaves all its objects, whole and its own, whatever was
\* there before; of objects that share a path, one.
OutputsCurrent ==
  phase = "done" =>
    \A key \in DOMAIN build.objects :
      \E k \in DOMAIN build.objects :
        /\ k.name = key.name
        /\ <<options.output, key.name>> \in DOMAIN files
        /\ files[<<options.output, key.name>>] = ObjectContent(k)

\* A map on disk is never ahead of its objects: when it changes, every object
\* of its image has been written.
MapNeverAhead ==
  [][(MapPath \in DOMAIN files' /\ (MapPath \in DOMAIN files => files'[MapPath] # files[MapPath]))
     => \A key \in DOMAIN build.objects :
          \E k \in DOMAIN build.objects :
            /\ <<options.output, key.name>> \in DOMAIN files
            /\ files[<<options.output, key.name>>] = ObjectContent(k)]_vars
-----------------------------------------------------------------------------
(* What a comment says of the matcher, and the code does not do.           *)

\* symbol_matcher.rs: "we try to adopt target's recorded choice for the group
\* -- found via any member name we share with target -- provided that exact
\* name also exists in this side's overloads".  A location that shares members
\* with two locations of the target follows the first only, and keeps its
\* default although it has the name the target chose for the other: of a whole
\* map, with none of its lines cut short.
AdoptsSharedChoice ==
  \A r \in References, b \in Builds :
    LET h == ToSet(Overloads(build, r[1], r[2]))
        choice == Load(FunctionMap(b.functions))
        choices == {choice[m] : m \in h \cap DOMAIN choice}
    IN  matcher = {choice} /\ Cardinality(h) > 1 /\ choices \cap h # {}
          => objects[r[1]][r[2]] \in choices
=============================================================================
