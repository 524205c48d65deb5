----------------------------- MODULE Resolution -----------------------------
(***************************************************************************)
(* What resolving absolute relocations promises, whatever the source of    *)
(* the sites: src/src/relocs.rs.                                           *)
(*                                                                         *)
(* A run is to relocate some sites of an image, each of which holds an     *)
(* address the linker wrote.  It records them one at a time, each as a     *)
(* reference to that address, never revises a record, and is done when all *)
(* are recorded; or it gives up.  Nothing is said of the order, of what    *)
(* symbol a reference is made with, or of what gives a run up.             *)
(***************************************************************************)
EXTENDS Naturals, Lookup

VARIABLES
  linked,    \* site -> the address it holds, of the sites to relocate; constant
  resolved,  \* site -> the address its record stands for, of those recorded
  status     \* "running", "done" or "failed"

vars == <<linked, resolved, status>>

Init == resolved = EmptyMap /\ status = "running"

Resolve ==
  /\ status = "running"
  /\ \E site \in DOMAIN linked : resolved' = Insert(resolved, site, linked[site])
  /\ UNCHANGED <<linked, status>>

Finish ==
  /\ status = "running" /\ resolved = linked
  /\ status' = "done"
  /\ UNCHANGED <<linked, resolved>>

GiveUp ==
  /\ status = "running"
  /\ status' = "failed"
  /\ UNCHANGED <<linked, resolved>>

Next == Resolve \/ Finish \/ GiveUp

\* What a run may do.
Safety == Init /\ [][Next]_vars

\* A run comes to an end.
Spec == Safety /\ <>(status # "running")
=============================================================================
