--------------------------- MODULE CliProcess_proofs ---------------------------
(***************************************************************************)
(* Proofs about CliProcess, for every pipe capacity, every amount of       *)
(* output and any number of calls.                                         *)
(***************************************************************************)
EXTENDS CliProcess, TLAPS

(* What holds between the calls and at each place of the caller: which     *)
(* platform is there, and what it knows of the process.  The safety        *)
(* properties speak only of pc = "done"; they are inductive only together  *)
(* with what the caller has learnt when it leaves the loop.                *)

IdleInv == pc = "idle" => child = "none"

PlatformInv ==
    /\ pc = "poll" => platform = "linux"
    /\ pc = "kill" => platform = "linux"
    /\ pc = "closed" => platform = "windows"

\* Leaving the loop: the flag is up, or the process has ended, and then it has
\* printed all that it was going to print.
LoopInv ==
    /\ pc \in {"poll", "wait"} => child \in {"running", "zombie"}
    /\ child = "zombie" => printed = size
    /\ platform = "linux" /\ pc = "stopped" =>
           \/ cancelSignal
           \/ child = "reaped" /\ printed = size
    /\ platform # "linux" /\ pc = "stopped" => child # "running"

\* Until a call returns it has not succeeded; when it has, it has an outcome.
ReturnInv ==
    /\ InCall => ~ret
    /\ pc = "done" => outcome \in {"ok", "failed", "aborted"}
    /\ platform = "linux" /\ pc = "done" => child \in {"none", "reaped"}

CallInv ==
    /\ TypeOK
    /\ IdleInv
    /\ PlatformInv
    /\ LoopInv
    /\ ReturnInv
    /\ LinuxSuccess
    /\ CompleteOutput

\* A read of n characters returns a number of them, and all when they fit.
LEMMA ReadOnceFact ==
    ASSUME NEW n \in Nat
    PROVE  /\ ReadOnce(n) \subseteq Nat
           /\ n < Capacity => ReadOnce(n) = {n}
BY CliAssumption DEF ReadOnce

\* Initially there is no call.
LEMMA InitCallInv == Init => CallInv
<1> SUFFICES ASSUME Init PROVE CallInv
  OBVIOUS
<1>1. TypeOK
  BY DEF Init, TypeOK
<1>2. IdleInv /\ PlatformInv /\ LoopInv
  BY DEF Init, IdleInv, PlatformInv, LoopInv
<1>3. ReturnInv /\ LinuxSuccess /\ CompleteOutput
  BY DEF Init, ReturnInv, InCall, LinuxSuccess, CompleteOutput
<1>4. QED
  BY <1>1, <1>2, <1>3 DEF CallInv

\* Every step of the caller, of the command and of the owner of the flag
\* preserves the invariant.
LEMMA NextCallInv == CallInv /\ [Next]_vars => CallInv'
<1> SUFFICES ASSUME CallInv, [Next]_vars PROVE CallInv'
  OBVIOUS
<1> USE CliAssumption
        DEF CallInv, tree, TypeOK, IdleInv, PlatformInv, LoopInv, ReturnInv, InCall,
            LinuxSuccess, CompleteOutput
<1>1. CASE Launch
  <2>1. TypeOK'
    <3>1. ret' \in BOOLEAN /\ cancelSignal' \in BOOLEAN /\ strayKill' \in BOOLEAN
      BY <1>1, Zenon DEF Launch
    <3>2. calls' \in Nat /\ captured' \in Nat /\ size' \in Nat /\ printed' \in Nat
      BY <1>1 DEF Launch
    <3>3. QED
      BY <1>1, <3>1, <3>2 DEF Launch
  <2>2. IdleInv' /\ PlatformInv' /\ LoopInv'
    BY <1>1 DEF Launch
  <2>3. ReturnInv'
    BY <1>1 DEF Launch
  <2>4. LinuxSuccess' /\ CompleteOutput'
    BY <1>1 DEF Launch
  <2>5. QED
    BY <2>1, <2>2, <2>3, <2>4 DEF CallInv
<1>2. CASE LaunchFails
  <2>1. TypeOK'
    <3>1. ret' \in BOOLEAN /\ cancelSignal' \in BOOLEAN /\ strayKill' \in BOOLEAN
      BY <1>2, Zenon DEF LaunchFails
    <3>2. calls' \in Nat /\ captured' \in Nat /\ size' \in Nat /\ printed' \in Nat
      BY <1>2 DEF LaunchFails
    <3>3. QED
      BY <1>2, <3>1, <3>2 DEF LaunchFails
  <2>2. IdleInv' /\ PlatformInv' /\ LoopInv'
    BY <1>2 DEF LaunchFails
  <2>3. ReturnInv'
    BY <1>2 DEF LaunchFails
  <2>4. LinuxSuccess' /\ CompleteOutput'
    BY <1>2 DEF LaunchFails
  <2>5. QED
    BY <2>1, <2>2, <2>3, <2>4 DEF CallInv
<1>3. CASE NextCall
  BY <1>3 DEF NextCall
<1>4. CASE PollFlag
  BY <1>4 DEF PollFlag
<1>5. CASE WaitPid
  BY <1>5 DEF WaitPid
<1>6. CASE KillChild
  <2>1. TypeOK'
    BY <1>6 DEF KillChild
  <2>2. IdleInv' /\ PlatformInv' /\ LoopInv'
    BY <1>6 DEF KillChild
  <2>3. ReturnInv'
    BY <1>6 DEF KillChild
  <2>4. LinuxSuccess' /\ CompleteOutput'
    BY <1>6 DEF KillChild
  <2>5. QED
    BY <2>1, <2>2, <2>3, <2>4 DEF CallInv
<1>7. CASE GrabOutput
  BY <1>7, ReadOnceFact DEF GrabOutput
<1>8. CASE WaitHandle
  BY <1>8 DEF WaitHandle
<1>9. CASE ReadTempFile
  BY <1>9 DEF ReadTempFile
<1>10. CASE Print1
  BY <1>10 DEF Print1
<1>11. CASE ChildExits
  BY <1>11 DEF ChildExits
<1>12. CASE ChildCrashes
  BY <1>12 DEF ChildCrashes
<1>13. CASE SetCancel
  BY <1>13 DEF SetCancel
<1>14. CASE ListChildren
  BY <1>14 DEF ListChildren
<1>15. CASE SpawnHelper
  BY <1>15 DEF SpawnHelper
<1>16. CASE HelperExits
  BY <1>16 DEF HelperExits
<1>17. CASE UNCHANGED vars
  BY <1>17 DEF vars
<1>18. QED
  BY <1>1, <1>2, <1>3, <1>4, <1>5, <1>6, <1>7, <1>8, <1>9, <1>10, <1>11, <1>12,
     <1>13, <1>14, <1>15, <1>16, <1>17
     DEF Next, CallerStep, CommandStep

\* CallInv is an invariant of the calls, with or without fairness.
LEMMA CallInvariant == Spec => []CallInv
<1>1. Init => CallInv
  BY InitCallInv
<1>2. CallInv /\ [Next]_vars => CallInv'
  BY NextCallInv
<1>3. QED
  BY <1>1, <1>2, PTL DEF Spec

\* The variables keep their types.
THEOREM CliTypeCorrect == Spec => []TypeOK
<1>1. CallInv => TypeOK
  BY DEF CallInv
<1>2. QED
  BY <1>1, CallInvariant, PTL

\* A Linux call never returns while its command is running: osExecAndGrabOutput
\* leaves its loop only when waitpid has reaped the process or the flag is up,
\* and then kills and reaps it.
THEOREM LinuxCallsLeaveNoOrphan == Spec => []LinuxNoOrphan
<1>1. CallInv => LinuxNoOrphan
  BY DEF CallInv, ReturnInv, LinuxNoOrphan
<1>2. QED
  BY <1>1, CallInvariant, PTL

\* A Linux call that succeeds has waited for its command.
THEOREM LinuxSuccessIsWaitedFor == Spec => []LinuxSuccess
<1>1. CallInv => LinuxSuccess
  BY DEF CallInv
<1>2. QED
  BY <1>1, CallInvariant, PTL

\* A Linux call that succeeds returns the whole output of its command when that
\* is less than the buffer of the one read it makes.
THEOREM LinuxOutputIsComplete == Spec => []CompleteOutput
<1>1. CallInv => CompleteOutput
  BY DEF CallInv
<1>2. QED
  BY <1>1, CallInvariant, PTL

-----------------------------------------------------------------------------
(* The refinement of CliCall *)

\* The initial states of the detailed call are initial states of the abstract.
LEMMA InitCall == Init => Call!CallInit
BY DEF Init, InCall, Call!CallInit

\* A step of the detailed call is a step of the abstract one or a stutter: the
\* polling, the reaping and the printing are invisible.
LEMMA NextCallStep ==
    CallInv /\ [Next]_vars => [Call!CallNext]_(Call!callVars)
<1> SUFFICES ASSUME CallInv, [Next]_vars
             PROVE  [Call!CallNext]_(Call!callVars)
  OBVIOUS
<1> USE DEF CallInv, TypeOK, IdleInv, PlatformInv, LoopInv, ReturnInv, InCall,
            Call!CallNext, Call!callVars, Call!Outcomes
<1>1. CASE Launch
  BY <1>1 DEF Launch, Call!Begin
<1>2. CASE LaunchFails
  BY <1>2 DEF LaunchFails, Call!BeginFails
<1>3. CASE NextCall
  BY <1>3 DEF NextCall, Call!Forget
<1>4. CASE PollFlag
  BY <1>4 DEF PollFlag
<1>5. CASE WaitPid
  BY <1>5 DEF WaitPid
<1>6. CASE KillChild
  BY <1>6 DEF KillChild, Call!Abort
<1>7. CASE GrabOutput
  BY <1>7 DEF GrabOutput, Call!Report
<1>8. CASE WaitHandle
  BY <1>8 DEF WaitHandle
<1>9. CASE ReadTempFile
  BY <1>9 DEF ReadTempFile, Call!Report, Call!Abort
<1>10. CASE Print1
  BY <1>10 DEF Print1
<1>11. CASE ChildExits
  BY <1>11 DEF ChildExits, Call!Exit
<1>12. CASE ChildCrashes
  BY <1>12 DEF ChildCrashes, Call!Exit
<1>13. CASE SetCancel
  BY <1>13 DEF SetCancel
<1>14. CASE ListChildren
  BY <1>14 DEF ListChildren
<1>15. CASE SpawnHelper
  BY <1>15 DEF SpawnHelper
<1>16. CASE HelperExits
  BY <1>16 DEF HelperExits
<1>17. CASE UNCHANGED vars
  BY <1>17 DEF vars
<1>18. QED
  BY <1>1, <1>2, <1>3, <1>4, <1>5, <1>6, <1>7, <1>8, <1>9, <1>10, <1>11, <1>12,
     <1>13, <1>14, <1>15, <1>16, <1>17
     DEF Next, CallerStep, CommandStep

\* osExecAndGrabOutput implements the abstract call on both platforms.
THEOREM CliProcessImplementsCliCall == Spec => CallImplemented
<1>1. Init => Call!CallInit
  BY InitCall
<1>2. CallInv /\ [Next]_vars => [Call!CallNext]_(Call!callVars)
  BY NextCallStep
<1>3. QED
  BY <1>1, <1>2, CallInvariant, PTL DEF Spec, CallImplemented, Call!CallSpec
=============================================================================
