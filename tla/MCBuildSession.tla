--------------------------- MODULE MCBuildSession ---------------------------
(***************************************************************************)
(* BuildSession for TLC: two builds of up to two targets.                  *)
(***************************************************************************)
EXTENDS BuildSession

Setup(api, platform, targets, edits) ==
    [api |-> api, platform |-> platform, targets |-> targets, edits |-> edits]

\* The project left alone during builds, in every mode and, for a source
\* project, on both platforms; and changed during builds, as a source and
\* as a binary project.
MCSetups ==
    {Setup("opencl", "linux", 2, FALSE), Setup("opencl", "windows", 2, FALSE),
     Setup("vulkan", "linux", 2, FALSE), Setup("binary", "windows", 1, FALSE),
     Setup("opencl", "linux", 1, TRUE), Setup("binary", "linux", 1, TRUE)}

MCOpencl == {Setup("opencl", "linux", 1, FALSE)}
MCOpenclEdits == {Setup("opencl", "linux", 1, TRUE)}
MCBinary == {Setup("binary", "linux", 1, FALSE)}
=============================================================================
