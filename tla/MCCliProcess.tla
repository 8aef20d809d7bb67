---------------------------- MODULE MCCliProcess ----------------------------
(***************************************************************************)
(* CliProcess for TLC: both platforms, a pipe of three units, and commands *)
(* that print nothing, less than the pipe, exactly the pipe and more.      *)
(***************************************************************************)
EXTENDS CliProcess

MCOutputSizes == 0..4
MCCapacity == 3
=============================================================================
