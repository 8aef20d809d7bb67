-------------------------- MODULE MCOpenclOffline --------------------------
(***************************************************************************)
(* Small command lines: a target of each sort, an unknown name, two        *)
(* kernels.                                                                *)
(***************************************************************************)
EXTENDS OpenclOffline

MCKnown == {1}
MCExtra == {3}
MCUnknown == {4}
MCKernel == {1, 2}
MCCommands == {{"bin"}, {"il", "md"}, {"isa", "bin", "livereg", "sgpr", "session"},
               {"stats", "livereg"}, {"isa", "stats", "csv", "md"}, {"cfg", "il", "session"}}
=============================================================================
