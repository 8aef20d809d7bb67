------------------------------ MODULE CliProcess ------------------------------
(***************************************************************************)
(* One thread calls osExecAndGrabOutput to run the RGA command line tool   *)
(* and collect what it prints, while another thread may raise the cancel   *)
(* flag.  On Linux the caller launches a shell through popen2, polls with  *)
(* waitpid, and reads the pipe once after the process has ended; on        *)
(* Windows the process writes a temporary file and the caller waits on its *)
(* handle.  The flag is a plain bool that the caller re-reads, so every    *)
(* read of it is a step of its own.                                        *)
(*                                                                         *)
(* Sizes are counted in units: Capacity is both the capacity of a Linux    *)
(* pipe and BUFF_SIZE, the 65536 bytes the caller reads at once.           *)
(***************************************************************************)
EXTENDS Integers

CONSTANTS
    Platforms,    \* the builds of the wrapper that are considered
    OutputSizes,  \* how much a command may print
    Capacity,     \* room in the pipe, and size of the read buffer
    MaxCalls      \* bound: calls made in one behaviour

ASSUME CliAssumption ==
    /\ Platforms \subseteq {"linux", "windows"}
    /\ OutputSizes \subseteq Nat
    /\ Capacity \in Nat \ {0}
    /\ MaxCalls \in Nat

VARIABLES
    platform,      \* fixed by Init
    pc,            \* where the caller is in osExecAndGrabOutput
    cancelSignal,  \* the flag passed by reference
    child,         \* "none", "running", "zombie" or "reaped"
    size,          \* how much the command prints when it is not cut short
    printed,       \* how much it has printed
    captured,      \* how much the caller returned in cmdOutput
    ret,           \* the return value
    outcome,       \* "none", or how the last call ended
    helper,        \* the command's child: "unborn", "running" or "gone"
    listed,        \* that child when the caller listed the children
    strayKill,     \* a signal was sent to a process id already reaped
    calls          \* calls made so far

tree == <<helper, listed>>
vars == <<platform, pc, cancelSignal, child, size, printed, captured, ret,
          outcome, tree, strayKill, calls>>

InCall == pc \in {"poll", "wait", "stopped", "kill", "closed"}

TypeOK ==
    /\ platform \in Platforms
    /\ pc \in {"idle", "poll", "wait", "stopped", "kill", "closed", "done"}
    /\ cancelSignal \in BOOLEAN
    /\ child \in {"none", "running", "zombie", "reaped"}
    /\ size \in Nat
    /\ printed \in Nat
    /\ captured \in Nat
    /\ ret \in BOOLEAN
    /\ outcome \in {"none", "ok", "failed", "aborted"}
    /\ helper \in {"unborn", "running", "gone"}
    /\ listed \in {"unborn", "running", "gone"}
    /\ strayKill \in BOOLEAN
    /\ calls \in Nat

Init ==
    /\ platform \in Platforms
    /\ pc = "idle"
    /\ cancelSignal = FALSE
    /\ child = "none"
    /\ size = 0
    /\ printed = 0
    /\ captured = 0
    /\ ret = FALSE
    /\ outcome = "none"
    /\ helper = "unborn"
    /\ listed = "unborn"
    /\ strayKill = FALSE
    /\ calls = 0

-----------------------------------------------------------------------------
(* Slips that the properties below must notice: each is one of the actions   *)
(* with a plausible mistake, and no action uses it.                          *)

\* The buffer's terminator is written over the last character read.
ReadOnceShort(n) == {n - 1}

\* A wait that timed out counts as the end of the process.
WaitPidTimesOut ==
    /\ platform = "linux"
    /\ pc = "wait"
    /\ pc' = "stopped"
    /\ child' = IF child = "running" THEN child ELSE "reaped"
    /\ UNCHANGED <<platform, cancelSignal, size, printed, captured, ret,
                   outcome, tree, strayKill, calls>>

\* The end of the process is never noticed.
WaitPidBlind ==
    /\ platform = "linux"
    /\ pc = "wait"
    /\ pc' = "poll"
    /\ UNCHANGED <<platform, cancelSignal, child, size, printed, captured, ret,
                   outcome, tree, strayKill, calls>>

\* The loop's condition forgets the flag.
PollFlagBlind ==
    /\ pc = "poll"
    /\ pc' = "wait"
    /\ UNCHANGED <<platform, cancelSignal, child, size, printed, captured, ret,
                   outcome, tree, strayKill, calls>>

\* The flag only leaves the loop: no signal is sent.
KillChildNot ==
    /\ platform = "linux"
    /\ pc = "kill"
    /\ outcome' = "aborted"
    /\ pc' = "done"
    /\ UNCHANGED <<platform, cancelSignal, child, size, printed, captured, ret,
                   tree, strayKill, calls>>

\* The output is read whatever ended the loop.
GrabOutputAlways ==
    /\ platform = "linux"
    /\ pc = "stopped"
    /\ captured' = printed
    /\ ret' = (captured' > 0)
    /\ outcome' = IF captured' > 0 THEN "ok" ELSE "failed"
    /\ pc' = "done"
    /\ UNCHANGED <<platform, cancelSignal, child, size, printed, tree, strayKill, calls>>

-----------------------------------------------------------------------------
(* The caller *)

\* cmdOutput is emptied and the command is launched; the loop starts.
Launch ==
    /\ pc = "idle"
    /\ calls < MaxCalls
    /\ calls' = calls + 1
    /\ size' \in OutputSizes
    /\ child' = "running"
    /\ printed' = 0
    /\ captured' = 0
    /\ ret' = FALSE
    /\ pc' = IF platform = "linux" THEN "poll" ELSE "wait"
    /\ UNCHANGED <<platform, cancelSignal, outcome, tree, strayKill>>

\* popen2 or CreateProcess fails: false, and nothing was captured.
LaunchFails ==
    /\ pc = "idle"
    /\ calls < MaxCalls
    /\ calls' = calls + 1
    /\ child' = "none"
    /\ captured' = 0
    /\ ret' = FALSE
    /\ outcome' = "failed"
    /\ pc' = "done"
    /\ UNCHANGED <<platform, cancelSignal, size, printed, tree, strayKill>>

\* Linux, the left operand of the loop's condition: is the flag up?
PollFlag ==
    /\ pc = "poll"
    /\ pc' = IF cancelSignal THEN "stopped" ELSE "wait"
    /\ UNCHANGED <<platform, cancelSignal, child, size, printed, captured, ret,
                   outcome, tree, strayKill, calls>>

\* Linux, the right operand: 50 ms later waitpid(WNOHANG) reaps the process
\* or finds it running.
WaitPid ==
    /\ platform = "linux"
    /\ pc = "wait"
    /\ IF child = "running"
         THEN pc' = "poll" /\ UNCHANGED child
         ELSE pc' = "stopped" /\ child' = "reaped"
    /\ UNCHANGED <<platform, cancelSignal, size, printed, captured, ret,
                   outcome, tree, strayKill, calls>>

\* Linux, after the loop with the flag up: osTerminateProcess first lists the
\* children of the process.  Those of one that has ended are not found.
ListChildren ==
    /\ platform = "linux"
    /\ pc = "stopped"
    /\ cancelSignal
    /\ listed' = IF child = "running" THEN helper ELSE "unborn"
    /\ pc' = "kill"
    /\ UNCHANGED <<platform, cancelSignal, child, size, printed, captured, ret,
                   outcome, helper, strayKill, calls>>

\* Then it kills those it has listed and the process itself, and reaps it.  A
\* process that the loop had already reaped is signalled by an id it no longer
\* owns.
KillChild ==
    /\ platform = "linux"
    /\ pc = "kill"
    /\ helper' = IF listed = "running" THEN "gone" ELSE helper
    /\ listed' = "unborn"
    /\ strayKill' = (strayKill \/ child = "reaped")
    /\ child' = "reaped"
    /\ outcome' = "aborted"
    /\ pc' = "done"
    /\ UNCHANGED <<platform, cancelSignal, size, printed, captured, ret, calls>>

\* What one read of BUFF_SIZE bytes makes of n bytes in the pipe.  The buffer
\* holds no terminator when it is full, so the conversion to a string may run
\* past it.
ReadOnce(n) == IF n < Capacity THEN {n} ELSE {Capacity, Capacity + 1}

\* Linux, after the loop with the flag down: one non-blocking read.  The
\* caller still holds a write end, so an empty pipe reads as an error.
GrabOutput ==
    /\ platform = "linux"
    /\ pc = "stopped"
    /\ ~cancelSignal
    /\ captured' \in ReadOnce(printed)
    /\ ret' = (captured' > 0)
    /\ outcome' = IF captured' > 0 THEN "ok" ELSE "failed"
    /\ pc' = "done"
    /\ UNCHANGED <<platform, cancelSignal, child, size, printed, tree, strayKill, calls>>

\* Windows: WaitForSingleObject returns.  On a timeout with the flag up the
\* handles are closed, so the next wait fails and the loop is left.
WaitHandle ==
    /\ platform = "windows"
    /\ pc = "wait"
    /\ \/ child # "running" /\ pc' = "stopped"
       \/ child = "running" /\ cancelSignal /\ pc' = "closed"
    /\ UNCHANGED <<platform, cancelSignal, child, size, printed, captured, ret,
                   outcome, tree, strayKill, calls>>

\* Windows: the temporary file is read as it is now, if it can be opened; the
\* call succeeds either way.
ReadTempFile ==
    /\ platform = "windows"
    /\ pc \in {"stopped", "closed"}
    /\ captured' \in {printed, 0}
    /\ ret' = TRUE
    /\ outcome' = IF pc = "closed" THEN "aborted" ELSE "ok"
    /\ pc' = "done"
    /\ UNCHANGED <<platform, cancelSignal, child, size, printed, tree, strayKill, calls>>

-----------------------------------------------------------------------------
(* The command, and the thread that owns the flag *)

\* The command prints one unit.  A full pipe blocks it; a file never does.
Print1 ==
    /\ child = "running"
    /\ printed < size
    /\ platform = "linux" => printed < Capacity
    /\ printed' = printed + 1
    /\ UNCHANGED <<platform, pc, cancelSignal, child, size, captured, ret,
                   outcome, tree, strayKill, calls>>

\* The command starts a process of its own: the shell the tool, or the tool a
\* compiler.  (Bound: one per call, which prints through the command.)
SpawnHelper ==
    /\ child = "running"
    /\ helper = "unborn"
    /\ helper' = "running"
    /\ UNCHANGED <<platform, pc, cancelSignal, child, size, printed, captured, ret,
                   outcome, listed, strayKill, calls>>

HelperExits ==
    /\ helper = "running"
    /\ helper' = "gone"
    /\ UNCHANGED <<platform, pc, cancelSignal, child, size, printed, captured, ret,
                   outcome, listed, strayKill, calls>>

\* The command ends, having waited for its child and printed everything.
ChildExits ==
    /\ child = "running"
    /\ helper # "running"
    /\ printed = size
    /\ child' = "zombie"
    /\ UNCHANGED <<platform, pc, cancelSignal, size, printed, captured, ret,
                   outcome, tree, strayKill, calls>>

\* The command crashes before it has printed everything.
ChildCrashes ==
    /\ child = "running"
    /\ printed < size
    /\ child' = "zombie"
    /\ size' = printed
    /\ UNCHANGED <<platform, pc, cancelSignal, printed, captured, ret,
                   outcome, tree, strayKill, calls>>

\* CancelCurrentBuild raises the flag, at any time.
SetCancel ==
    /\ ~cancelSignal
    /\ cancelSignal' = TRUE
    /\ UNCHANGED <<platform, pc, child, size, printed, captured, ret,
                   outcome, tree, strayKill, calls>>

\* The caller's next call: the flag is down, left so or lowered by the next
\* build, as the routine's comment asks.
NextCall ==
    /\ pc = "done"
    /\ cancelSignal' = FALSE
    /\ pc' = "idle"
    /\ child' = "none"
    /\ helper' = "unborn"
    /\ outcome' = "none"
    /\ UNCHANGED <<platform, size, printed, captured, ret, listed, strayKill, calls>>

-----------------------------------------------------------------------------

CallerStep ==
    \/ PollFlag \/ WaitPid \/ ListChildren \/ KillChild \/ GrabOutput
    \/ WaitHandle \/ ReadTempFile

CommandStep == Print1 \/ HelperExits \/ ChildExits

Next ==
    \/ Launch \/ LaunchFails \/ NextCall
    \/ CallerStep
    \/ CommandStep \/ SpawnHelper \/ ChildCrashes
    \/ SetCancel

\* The operating system runs the calling thread; nothing is assumed of the
\* command.
Spec == Init /\ [][Next]_vars /\ WF_vars(CallerStep)

\* The command, too, runs on until it has printed everything and ends.
CommandRuns == WF_vars(CommandStep)

FairCommandSpec == Spec /\ CommandRuns

-----------------------------------------------------------------------------
(* Correctness *)

\* A Linux call that returned has left no process of its own behind: the one
\* popen2 launched has ended or was killed (osProcess.cpp, the two branches
\* after the polling loop), however the flag raced with its end.
LinuxNoOrphan == platform = "linux" /\ pc = "done" => child # "running"

\* A canceled call leaves nothing of its command running, on either platform,
\* as the routine's description promises of the flag: "it allows the caller to
\* terminate the command's execution".
NoOrphan ==
    pc = "done" /\ outcome = "aborted" => child # "running" /\ helper # "running"

\* A successful Linux call returns all that the command printed, although it
\* reads the pipe only once, as long as that is less than the buffer.
CompleteOutput ==
    platform = "linux" /\ pc = "done" /\ ret /\ size < Capacity => captured = size

\* Success on Linux means that the command was waited for and not canceled:
\* the build thread loads outputs only behind such a call.
LinuxSuccess ==
    platform = "linux" /\ pc = "done" /\ ret => outcome = "ok" /\ child = "reaped"

\* The detailed call implements the abstract one.
Call == INSTANCE CliCall WITH
    kills  <- platform = "linux",
    status <- IF InCall THEN "running" ELSE IF pc = "idle" THEN "idle" ELSE outcome,
    alive  <- child = "running"

CallImplemented == Call!CallSpec

\* A canceled call returns, whatever its command does: also one that hangs or
\* is blocked on a full pipe.
CancelReturns == cancelSignal /\ InCall ~> pc = "done"

\* A call whose command fits the pipe returns by itself when the command runs
\* on, on both platforms.
SmallOutputReturns ==
    CommandRuns => (InCall /\ size <= Capacity ~> pc = "done")

\* The routine "captures its output": a command that runs on is waited for
\* and its call returns, however much it prints.
EveryCallReturns == InCall ~> pc = "done"
=============================================================================
