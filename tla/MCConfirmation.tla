--------------------------- MODULE MCConfirmation ---------------------------
(***************************************************************************)
(* Instances of Confirmation for TLC. The run has liveness properties, so  *)
(* its calls are not taken as interchangeable.                             *)
(***************************************************************************)
EXTENDS Confirmation, TLC

=============================================================================
