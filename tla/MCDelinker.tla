----------------------------- MODULE MCDelinker -----------------------------
(***************************************************************************)
(* A target image and a base image, each rebuilt once.  Names 1 to 6, the  *)
(* lower the shorter, but for 4 and 5, of one length.                      *)
(***************************************************************************)
EXTENDS Delinker, TLC

MCLength == (1 :> 1 @@ 2 :> 2 @@ 3 :> 3 @@ 4 :> 4 @@ 5 :> 4 @@ 6 :> 5)

Key(name, slash) == [name |-> name, slash |-> slash]

Image(functions, references) == [functions |-> functions, objects |-> references]

A == Key("a", "\\")

\* Two folded locations, the second with a name twice, and a plain one.
Target == Image(<<<<5, 4>>, <<6, 2, 6>>, <<3>>>>, (A :> <<1, 2>> @@ Key("b", "\\") :> <<3, 1>>))

\* Folded otherwise: the first in another order, a member of the second alone,
\* a name the target lacks.
Rebuilt == Image(<<<<4, 5>>, <<2, 6, 1>>>>, (A :> <<2, 1>>))

\* A base that folds a name more with the target's first location, and parts
\* of both its locations; two of its objects differ only in a slash.
Base ==
  Image(<<<<3, 5, 4>>, <<6, 4, 1>>, <<2>>>>,
        (A :> <<1, 2>> @@ Key("c", "\\") :> <<2, 3>> @@ Key("c", "/") :> <<1>>))

MCBuilds == {Target, Rebuilt, Base}

\* A target run, a base run, and one of each without a map.
MCOptions ==
  {[output |-> "target", read |-> FALSE, write |-> TRUE],
   [output |-> "base", read |-> TRUE, write |-> FALSE],
   [output |-> "base", read |-> FALSE, write |-> FALSE]}
=============================================================================
