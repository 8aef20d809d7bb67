------------------------------- MODULE CliCall -------------------------------
(***************************************************************************)
(* What a caller of osExecAndGrabOutput may rely on: a call that is        *)
(* running owns one process; it reports an outcome of its own ("ok" or     *)
(* "failed") only once that process is gone; a canceled call comes back    *)
(* "aborted", and has ended the process first where the platform's         *)
(* implementation kills it.  CliProcess implements this specification; the *)
(* build thread of BuildSession is written against it.                     *)
(***************************************************************************)

VARIABLES
    kills,   \* does a canceled call end the process before it returns?
    status,  \* "idle", "running", or the outcome of the last call
    alive    \* is the process of the current or the last call still running?

callVars == <<kills, status, alive>>

Outcomes == {"ok", "failed", "aborted"}

CallInit ==
    /\ kills \in BOOLEAN
    /\ status = "idle"
    /\ alive = FALSE

\* A call launches its process.
Begin ==
    /\ status = "idle"
    /\ status' = "running"
    /\ alive' = TRUE
    /\ UNCHANGED kills

\* The launch fails: the call fails at once, and there is no process.
BeginFails ==
    /\ status = "idle"
    /\ status' = "failed"
    /\ alive' = FALSE
    /\ UNCHANGED kills

\* The process of a running call, or the one an aborted call left, ends.
Exit ==
    /\ alive
    /\ alive' = FALSE
    /\ UNCHANGED <<kills, status>>

\* The call reports what the process did: only a process that has ended.
Report ==
    /\ status = "running"
    /\ ~alive
    /\ status' \in {"ok", "failed"}
    /\ UNCHANGED <<kills, alive>>

\* A canceled call gives up on its process, ending it only where it kills.
Abort ==
    /\ status = "running"
    /\ status' = "aborted"
    /\ alive' = (alive /\ ~kills)
    /\ UNCHANGED kills

\* The caller is ready for its next call; a process left alive is forgotten.
Forget ==
    /\ status \in Outcomes
    /\ status' = "idle"
    /\ alive' = FALSE
    /\ UNCHANGED kills

CallNext == Begin \/ BeginFails \/ Exit \/ Report \/ Abort \/ Forget

CallSpec == CallInit /\ [][CallNext]_callVars
=============================================================================
