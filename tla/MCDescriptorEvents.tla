-------------------------- MODULE MCDescriptorEvents --------------------------
(* Small instances of DescriptorEvents.                                     *)
EXTENDS DescriptorEvents
=============================================================================
