----------------------------- MODULE MCHistory -----------------------------
(***************************************************************************)
(* The instances of MCReboot, with the history variables of RebootHistory. *)
(***************************************************************************)
EXTENDS MCReboot, RebootHistory

=============================================================================
