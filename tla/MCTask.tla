------------------------------- MODULE MCTask -------------------------------
(* Small instances of Task.                                                 *)
EXTENDS Task

=============================================================================
