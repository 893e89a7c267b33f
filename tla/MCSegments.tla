------------------------------- MODULE MCSegments ------------------------------
(***************************************************************************)
(* A small instance of TestRunForm and Segments.  Locations, scripts and   *)
(* values are interchangeable.                                             *)
(***************************************************************************)
EXTENDS TestRunForm

Symmetry ==
    Permutations(Locations) \cup Permutations(Scripts) \cup Permutations(Values)

================================================================================
