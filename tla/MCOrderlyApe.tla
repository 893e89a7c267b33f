------------------------------ MODULE MCOrderlyApe -----------------------------
(***************************************************************************)
(* Small instances of OrderlyApe.                                          *)
(***************************************************************************)
EXTENDS OrderlyApe, TLC

AllUsers == {"start", "cancel", "delete"}
StartOnly == {"start"}

Symmetry == Permutations(Locations)

================================================================================
