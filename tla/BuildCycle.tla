----------------------------- MODULE BuildCycle -----------------------------
(***************************************************************************)
(* What a user may rely on who leaves a project alone while it is built:   *)
(* builds come one after the other, each ends in one announcement, and one *)
(* that is stopped in time announces nothing but that; the project is left *)
(* only between builds.  What is not promised is that a canceled build is  *)
(* all over when it is announced: its thread has yet to tell of it, while  *)
(* the next build may begin or the project be left, and then it is lost.   *)
(* A build may also end without a word, and nothing can then be done but   *)
(* to end the program.  Nothing is promised to a user who changes the      *)
(* project during a build.  BuildSession implements this specification.    *)
(***************************************************************************)
EXTENDS Naturals

VARIABLES
    quiet,    \* is the project left alone during builds?
    open,     \* is a project open?
    begun,    \* the number of builds begun
    phase,    \* "idle", "building", or how the last build ended: "ended" until
              \* that is announced, for good if it was "silent" or "crashed"
    stopped,  \* the build was told to stop, in time
    outcome,  \* what is to be announced
    telling,  \* canceled builds whose thread has yet to tell of it
    lost      \* those that had when the project was left

threads == <<telling, lost>>
cycleVars == <<quiet, open, begun, phase, stopped, outcome, threads>>

CycleInit ==
    /\ quiet \in BOOLEAN
    /\ open = FALSE
    /\ begun = 0
    /\ phase = "idle"
    /\ stopped = FALSE
    /\ outcome = "none"
    /\ telling = {}
    /\ lost = {}

Enter ==
    /\ phase = "idle" /\ ~open
    /\ open' = TRUE
    /\ UNCHANGED <<quiet, begun, phase, stopped, outcome, threads>>

Leave ==
    /\ phase = "idle" /\ open
    /\ open' = FALSE
    /\ lost' = lost \cup telling
    /\ telling' = {}
    /\ UNCHANGED <<quiet, begun, phase, stopped, outcome>>

Begin ==
    /\ phase = "idle" /\ open
    /\ phase' = "building"
    /\ begun' = begun + 1
    /\ UNCHANGED <<quiet, open, stopped, outcome, threads>>

\* A click on Cancel that comes too early or too late changes nothing.
Stop ==
    /\ phase = "building"
    /\ stopped' = TRUE
    /\ UNCHANGED <<quiet, open, begun, phase, outcome, threads>>

\* The build ends with a result that will be announced.
End ==
    /\ phase = "building"
    /\ phase' = "ended"
    /\ outcome' \in {"success", "failure", "canceled"}
    /\ stopped => outcome' = "canceled"
    /\ stopped' = FALSE
    /\ telling' = IF outcome' = "canceled" THEN telling \cup {begun} ELSE telling
    /\ UNCHANGED <<quiet, open, begun, lost>>

\* A thread tells of a cancellation, sooner or later.
Tell ==
    /\ \E b \in telling : telling' = telling \ {b}
    /\ UNCHANGED <<quiet, open, begun, phase, stopped, outcome, lost>>

\* It ends without one, or takes the program with it.
Vanish ==
    /\ phase = "building" /\ ~stopped
    /\ phase' \in {"silent", "crashed"}
    /\ UNCHANGED <<quiet, open, begun, stopped, outcome, threads>>

Announce ==
    /\ phase = "ended"
    /\ phase' = "idle"
    /\ outcome' = "none"
    /\ UNCHANGED <<quiet, open, begun, stopped, threads>>

\* Anything may happen to a user who does not leave the project alone.
Disturbed == ~quiet /\ UNCHANGED quiet

CycleNext ==
    Enter \/ Leave \/ Begin \/ Stop \/ End \/ Tell \/ Vanish \/ Announce \/ Disturbed

CycleSpec == CycleInit /\ [][CycleNext]_cycleVars
=============================================================================
