----------------------------- MODULE TestLocations -----------------------------
(***************************************************************************)
(* The test locations.  A TestLocation row of the web app and the operator *)
(* of the cluster that serves it share the location's name, the path of    *)
(* the workers API that the operator calls is built from it, and a test    *)
(* run has at most one job per location (unique_together).                 *)
(***************************************************************************)
CONSTANT Locations  \* TestLocation.name

================================================================================
