-------------------------------- MODULE MCWebApp -------------------------------
(***************************************************************************)
(* Small instances of WebApp.                                              *)
(***************************************************************************)
EXTENDS WebApp

AllStatuses == Status

Users == {"start", "cancel"}
AllUsers == RequestKinds

================================================================================
