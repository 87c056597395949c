-------------------------- MODULE MCSpoolProgress --------------------------
(* Instances of SpoolProgress for TLC.  The segment takes a few lines in one *)
(* behaviour, so that it can be closed, reopened, removed and written again. *)
EXTENDS SpoolProgress
=============================================================================
