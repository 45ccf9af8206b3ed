------------------------------ MODULE MCCloudLink -------------------------------
(***************************************************************************)
(* Instances of CloudLink for TLC.  The .cfg files give every constant a   *)
(* value; nothing is redefined here.                                       *)
(***************************************************************************)
EXTENDS CloudLink
=================================================================================
