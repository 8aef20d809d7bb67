----------------------------- MODULE BuildSession -----------------------------
(***************************************************************************)
(* A project that is open in the RGA GUI, the detached threads that build  *)
(* it, and the command line processes those threads run.                   *)
(*                                                                         *)
(* The GUI thread (RgMainWindow, RgBuildView) reacts to the user and to    *)
(* the end signals that the build threads post to its event queue.  A      *)
(* build thread (the lambda of RgBuildView::BuildCurrentProject and        *)
(* RgCliLauncher) shares with it, without a lock, the cancel flag, the     *)
(* list of input files, the output folder and the map of loaded outputs;   *)
(* so every access of a thread to one of them is a step of its own.        *)
(*                                                                         *)
(* An artifact (a session metadata file and what it lists) is named by the *)
(* build that produced it; 0 is no artifact.                               *)
(***************************************************************************)
EXTENDS Naturals, Sequences, FiniteSets

CONSTANTS
    Setups,     \* the configurations considered
    MaxFiles,   \* bound: input files of the project
    NumTargets, \* bound: target GPUs of a build
    MaxBuilds   \* bound: builds started in one behaviour

\* The mode of the project, the platform, the number of target GPUs in the
\* build settings, and whether the user changes the project while it is built.
SetupType == [api      : {"opencl", "vulkan", "binary"},
              platform : {"linux", "windows"},
              targets  : 1 .. NumTargets,
              edits    : BOOLEAN]

ASSUME SessionAssumption ==
    /\ Setups \subseteq SetupType
    /\ MaxFiles \in Nat
    /\ NumTargets \in Nat \ {0}
    /\ MaxBuilds \in Nat

Targets == 1 .. NumTargets
Builds == 1 .. MaxBuilds
Artifact == 0 .. MaxBuilds
NoArtifacts == [t \in Targets |-> 0]

VARIABLES
    setup,        \* fixed by Init
    files,        \* the number of the project's input files
    atHome,       \* the home page is shown; there is no RgBuildView
    buildAction,  \* build_project_action_ (binary: disassemble_binaries_action_)
    cancelAction, \* cancel_build_action_
    homeAction,   \* back_to_home_action_
    cancelSignal, \* cancel_bulid_signal_
    disk,         \* the clone's output folder: artifact per target
    outputs,      \* build_outputs_: loaded artifact per target
    queue,        \* end signals posted to the GUI thread
    started,      \* builds started so far
    pc,           \* where the thread of a build is
    job,          \* its local variables
    cli,          \* its command: "none", "running", or how it ended
    orphans,      \* commands (or processes they started) still running that
                  \* nobody waits for: build and target
    escaped,      \* history: all that ever were such
    cancelled,    \* history: builds not yet announced when Cancel was clicked
    caught        \* history: those whose thread had yet to check the flag and
                  \* whose end the GUI has not seen

gui == <<files, atHome, buildAction, cancelAction, homeAction>>
artifacts == <<disk, outputs>>
left == <<orphans, escaped>>
thread == <<pc, job, cli, left>>
history == <<cancelled, caught>>
vars == <<setup, gui, cancelSignal, artifacts, queue, started, thread, history>>

Binary == setup.api = "binary"
Linux == setup.platform = "linux"

\* All code objects of a binary project share one session metadata file.
ProjectTargets == IF Binary THEN {1} ELSE 1 .. setup.targets

\* A thread is building until its build ends.  That of a canceled build goes on
\* to tell the user so, in the output window of the view ("notify"), and any
\* thread that still has to use the view may lose it ("dangling").
BuildingPc == {"prepare", "reset", "launch", "wait", "check", "load", "insert"}
EndedPc == {"notify", "done", "silent", "crashed", "dangling"}
Building(b) == pc[b] \in BuildingPc
Running(b) == Building(b) \/ pc[b] = "notify"
EndQueued(b) == \E i \in 1 .. Len(queue) : queue[i].build = b

JobType == [todo   : SUBSET Targets,  \* targets to launch, or to load
            target : Targets,         \* the target being launched or loaded
            ret    : BOOLEAN,         \* is_project_built
            gpus   : SUBSET Targets,  \* gpus_with_build_outputs
            read   : Artifact,        \* gpu_output
            loaded : BOOLEAN,         \* is_loaded
            only   : BOOLEAN]         \* binaries_to_build is not empty

SignalType == [kind : {"success", "failure", "canceled"}, build : Builds]

TypeOK ==
    /\ setup \in Setups
    /\ files \in 0 .. MaxFiles
    /\ atHome \in BOOLEAN
    /\ buildAction \in BOOLEAN
    /\ cancelAction \in BOOLEAN
    /\ homeAction \in BOOLEAN
    /\ cancelSignal \in BOOLEAN
    /\ disk \in [Targets -> Artifact]
    /\ outputs \in [Targets -> Artifact]
    /\ queue \in Seq(SignalType)
    /\ started \in 0 .. MaxBuilds
    /\ pc \in [Builds -> BuildingPc \cup EndedPc \cup {"unused"}]
    /\ job \in [Builds -> JobType]
    /\ cli \in [Builds -> {"none", "running", "quiet", "printed", "built"}]
    /\ orphans \subseteq Builds \X Targets
    /\ escaped \subseteq Builds \X Targets
    /\ cancelled \subseteq Builds
    /\ caught \subseteq Builds

NewJob(only) == [todo |-> ProjectTargets, target |-> 1, ret |-> TRUE, gpus |-> {},
                 read |-> 0, loaded |-> FALSE, only |-> only]

Init ==
    /\ setup \in Setups
    /\ files \in 0 .. MaxFiles
    /\ atHome = TRUE
    /\ buildAction = FALSE
    /\ cancelAction = FALSE
    /\ homeAction = FALSE
    /\ cancelSignal = FALSE
    /\ disk = NoArtifacts
    /\ outputs = NoArtifacts
    /\ queue = <<>>
    /\ started = 0
    /\ pc = [b \in Builds |-> "unused"]
    /\ job = [b \in Builds |-> NewJob(FALSE)]
    /\ cli = [b \in Builds |-> "none"]
    /\ orphans = {}
    /\ escaped = {}
    /\ cancelled = {}
    /\ caught = {}

-----------------------------------------------------------------------------
(* Steps that actions share *)

\* The thread of a build moves on.
Goto(b, l) == pc' = [pc EXCEPT ![b] = l]

\* Its build is over, and its local variables are of no more use.
BuildOver(b, l) ==
    /\ Goto(b, l)
    /\ job' = [job EXCEPT ![b] = NewJob(FALSE)]

\* A build thread emits an end signal; the connection is queued.
Post(kind, b) == queue' = Append(queue, [kind |-> kind, build |-> b])

-----------------------------------------------------------------------------
(* Slips that the properties below must notice: each is one of the           *)
(* definitions that follow with a plausible mistake, and no action uses it.  *)

\* HandleProjectBuildStarted forgets the Build action.
StartBuildEnabled(only) ==
    /\ started < MaxBuilds
    /\ started' = started + 1
    /\ disk' = IF only THEN disk ELSE NoArtifacts
    /\ outputs' = IF only THEN outputs ELSE NoArtifacts
    /\ pc' = [pc EXCEPT ![started'] = "prepare"]
    /\ job' = [job EXCEPT ![started'] = NewJob(only)]
    /\ cancelAction' = TRUE
    /\ homeAction' = FALSE
    /\ UNCHANGED buildAction

\* HandleProjectBuildStarted forgets the way back to the home page.
StartBuildHomeEnabled(only) ==
    /\ started < MaxBuilds
    /\ started' = started + 1
    /\ disk' = IF only THEN disk ELSE NoArtifacts
    /\ outputs' = IF only THEN outputs ELSE NoArtifacts
    /\ pc' = [pc EXCEPT ![started'] = "prepare"]
    /\ job' = [job EXCEPT ![started'] = NewJob(only)]
    /\ buildAction' = FALSE
    /\ cancelAction' = TRUE
    /\ UNCHANGED homeAction

\* BuildCurrentProject keeps the artifacts of earlier builds.
StartBuildKeeps(only) ==
    /\ started < MaxBuilds
    /\ started' = started + 1
    /\ pc' = [pc EXCEPT ![started'] = "prepare"]
    /\ job' = [job EXCEPT ![started'] = NewJob(only)]
    /\ buildAction' = FALSE
    /\ cancelAction' = TRUE
    /\ homeAction' = FALSE
    /\ UNCHANGED artifacts

\* The menu of an OpenCL project does not report that its last file is gone.
CloseSourceUnreported ==
    /\ ~atHome /\ (setup.edits \/ ~cancelAction)
    /\ setup.api = "opencl"
    /\ files > 0
    /\ files' = files - 1
    /\ UNCHANGED <<setup, atHome, buildAction, cancelAction, homeAction, cancelSignal,
                   artifacts, queue, started, thread, history>>

\* HandleProjectFileCountChanged leaves Cancel enabled.
AddFileKeepsCancel ==
    /\ ~atHome /\ (setup.edits \/ ~cancelAction)
    /\ ~Binary
    /\ files < MaxFiles
    /\ files' = files + 1
    /\ buildAction' = TRUE
    /\ UNCHANGED <<setup, atHome, cancelAction, homeAction, cancelSignal, artifacts,
                   queue, started, thread, history>>

\* The launcher stops only after its last target.
StopLaunchingLate(b) ==
    /\ pc[b] = "launch"
    /\ job[b].todo = {}
    /\ Goto(b, "check")
    /\ UNCHANGED <<setup, gui, cancelSignal, artifacts, queue, started, job, cli,
                   left, history>>

\* The call does not look at the flag.
CliAbortsNever(b) ==
    /\ pc[b] = "wait"
    /\ FALSE
    /\ UNCHANGED vars

\* The outputs are loaded without verifying that the build was not canceled.
BeginLoadAlways(b) ==
    /\ pc[b] = "check"
    /\ job[b].ret
    /\ job' = [job EXCEPT ![b].todo = IF job[b].gpus = {} THEN ProjectTargets ELSE job[b].gpus]
    /\ Goto(b, "load")
    /\ UNCHANGED <<setup, gui, cancelSignal, artifacts, queue, started, cli, left,
                   history>>

\* A canceled build reports it and goes on to load.
ReportCanceledGoesOn(b) ==
    /\ pc[b] = "check"
    /\ cancelSignal
    /\ Post("canceled", b)
    /\ Goto(b, "load")
    /\ UNCHANGED <<setup, gui, cancelSignal, artifacts, started, job, cli, left,
                   history>>

\* The entry is stored one off.
InsertOutputOff(b) ==
    /\ pc[b] = "insert"
    /\ outputs' = [outputs EXCEPT ![job[b].target] = job[b].read + 1]
    /\ job' = [job EXCEPT ![b].loaded = TRUE]
    /\ Goto(b, "load")
    /\ UNCHANGED <<setup, gui, cancelSignal, disk, queue, started, cli, left, history>>

\* Success is reported whether or not anything was loaded.
ReportLoadedAlways(b) ==
    /\ pc[b] = "load"
    /\ job[b].todo = {}
    /\ Post("success", b)
    /\ BuildOver(b, "done")
    /\ UNCHANGED <<setup, gui, cancelSignal, artifacts, started, cli, left,
                   history>>

-----------------------------------------------------------------------------
(* The GUI thread: builds *)

\* BuildCurrentProject and, before it returns, HandleProjectBuildStarted.  A
\* build of only the code objects just added keeps the earlier outputs.
StartBuild(only) ==
    /\ started < MaxBuilds
    /\ started' = started + 1
    /\ disk' = IF only THEN disk ELSE NoArtifacts
    /\ outputs' = IF only THEN outputs ELSE NoArtifacts
    /\ pc' = [pc EXCEPT ![started'] = "prepare"]
    /\ job' = [job EXCEPT ![started'] = NewJob(only)]
    /\ buildAction' = FALSE
    /\ cancelAction' = TRUE
    /\ homeAction' = FALSE

\* The user builds.  (When the user declines to save the build settings
\* nothing happens.)
ClickBuild ==
    /\ ~atHome
    /\ buildAction
    /\ StartBuild(FALSE)
    /\ UNCHANGED <<setup, files, atHome, cancelSignal, queue, cli, left, history>>

\* CancelCurrentBuild; the actions change only when the thread has answered.
ClickCancel ==
    /\ ~atHome
    /\ cancelAction
    /\ disk' = NoArtifacts
    /\ outputs' = NoArtifacts
    /\ cancelSignal' = TRUE
    /\ cancelled' = cancelled \cup {b \in Builds : Building(b) \/ EndQueued(b)}
    /\ caught' = caught \cup {b \in Builds : pc[b] \in {"launch", "wait", "check"}}
    /\ UNCHANGED <<setup, gui, queue, started, thread>>

\* The end signal of a build arrives: whatever it says, the view's state is
\* reset and all menu items are enabled.
HandleEnd ==
    /\ queue # <<>>
    /\ queue' = Tail(queue)
    /\ buildAction' = TRUE
    /\ cancelAction' = FALSE
    /\ homeAction' = TRUE
    /\ caught' = caught \ {Head(queue).build}
    /\ UNCHANGED <<setup, files, atHome, cancelSignal, artifacts, started, thread,
                   cancelled>>

-----------------------------------------------------------------------------
(* The GUI thread: the project *)

MayEdit == ~atHome /\ (setup.edits \/ ~cancelAction)

\* A source file is created, opened or dropped: HandleProjectFileCountChanged.
AddFile ==
    /\ MayEdit
    /\ ~Binary
    /\ files < MaxFiles
    /\ files' = files + 1
    /\ buildAction' = TRUE
    /\ cancelAction' = FALSE
    /\ UNCHANGED <<setup, atHome, homeAction, cancelSignal, artifacts, queue,
                   started, thread, history>>

\* Code objects are added, and disassembled at once unless the user declines
\* to save the settings first.
AddBinary ==
    /\ MayEdit
    /\ Binary
    /\ files < MaxFiles
    /\ files' = files + 1
    /\ \/ StartBuild(TRUE)
       \/ UNCHANGED <<buildAction, cancelAction, homeAction, started, artifacts, pc, job>>
    /\ UNCHANGED <<setup, atHome, cancelSignal, queue, cli, left, history>>

\* A code object changed on disk: the whole project is disassembled again.
ReloadBinary ==
    /\ MayEdit
    /\ Binary
    /\ files > 0
    /\ StartBuild(FALSE)
    /\ UNCHANGED <<setup, files, atHome, cancelSignal, queue, cli, left, history>>

\* Closing a file destroys its outputs; when the loaded outputs list no other
\* file, or the session metadata does not, nothing is left of them.
DropOutputs ==
    \/ UNCHANGED artifacts
    \/ outputs # NoArtifacts /\ outputs' = NoArtifacts /\ disk' = NoArtifacts
    \/ Binary /\ disk' = NoArtifacts /\ UNCHANGED outputs

\* OpenCL: the menu reports its size only when its last file goes.
CloseSource ==
    /\ MayEdit
    /\ setup.api = "opencl"
    /\ files > 0
    /\ files' = files - 1
    /\ buildAction' = (buildAction /\ files' > 0)
    /\ DropOutputs
    /\ UNCHANGED <<setup, atHome, cancelAction, homeAction, cancelSignal, queue,
                   started, thread, history>>

\* Vulkan: the button of a stage is disabled during a build; the menu reports
\* a non-empty project first, then whether it is empty.
RemoveStage ==
    /\ MayEdit
    /\ setup.api = "vulkan"
    /\ homeAction
    /\ files > 0
    /\ files' = files - 1
    /\ buildAction' = (files' > 0)
    /\ cancelAction' = FALSE
    /\ DropOutputs
    /\ UNCHANGED <<setup, atHome, homeAction, cancelSignal, queue, started, thread,
                   history>>

\* Binary: the main window ignores the size of the project.
CloseBinary ==
    /\ MayEdit
    /\ Binary
    /\ files > 0
    /\ files' = files - 1
    /\ DropOutputs
    /\ UNCHANGED <<setup, atHome, buildAction, cancelAction, homeAction, cancelSignal,
                   queue, started, thread, history>>

\* HandleBackToHomeEvent deletes the RgBuildView.  A thread that is still
\* running, if only to report its cancellation, has captured it by reference.
BackToHome ==
    /\ ~atHome
    /\ homeAction
    /\ atHome' = TRUE
    /\ outputs' = NoArtifacts
    /\ buildAction' = FALSE
    /\ cancelAction' = FALSE
    /\ homeAction' = FALSE
    /\ pc' = [b \in Builds |-> IF Running(b) THEN "dangling" ELSE pc[b]]
    /\ UNCHANGED <<setup, files, cancelSignal, disk, queue, started, job, cli,
                   left, history>>

\* OpenProjectFileAtPath: a new RgBuildView loads what is in the output folder.
OpenProject ==
    /\ atHome
    /\ atHome' = FALSE
    /\ cancelSignal' = FALSE
    /\ outputs' = disk
    /\ buildAction' = (files > 0 \/ Binary)
    /\ cancelAction' = FALSE
    /\ homeAction' = TRUE
    /\ UNCHANGED <<setup, files, disk, queue, started, thread, history>>

-----------------------------------------------------------------------------
(* The build thread *)

\* The output folders are created; a thread that cannot do so just ends.
Prepare(b) ==
    /\ pc[b] = "prepare"
    /\ \/ Goto(b, "reset") /\ UNCHANGED job
       \/ BuildOver(b, "silent")
    /\ UNCHANGED <<setup, gui, cancelSignal, artifacts, queue, started, cli, left,
                   history>>

\* The flag is lowered.  Then the first input of a binary project is taken with
\* at(0): in a project without files that throws, and nobody catches it.
ResetCancel(b) ==
    /\ pc[b] = "reset"
    /\ cancelSignal' = FALSE
    /\ IF Binary /\ ~job[b].only /\ files = 0
         THEN Goto(b, "crashed")
         ELSE Goto(b, "launch")
    /\ UNCHANGED <<setup, gui, artifacts, queue, started, job, cli, left, history>>

\* The command for one target is launched, or cannot be.
LaunchCli(b) ==
    /\ pc[b] = "launch"
    /\ ~cancelSignal
    /\ setup.api = "vulkan" => job[b].ret
    /\ \E t \in job[b].todo :
         \/ /\ job' = [job EXCEPT ![b].todo = @ \ {t}, ![b].target = t]
            /\ cli' = [cli EXCEPT ![b] = "running"]
            /\ Goto(b, "wait")
         \/ /\ job' = [job EXCEPT ![b].todo = @ \ {t}, ![b].target = t, ![b].ret = FALSE]
            /\ UNCHANGED <<cli, pc>>
    /\ UNCHANGED <<setup, gui, cancelSignal, artifacts, queue, started, left, history>>

\* Vulkan: the loop does not reset ret, so a target that failed makes all the
\* later ones fail ("Failed to generate build command").
SkipTarget(b) ==
    /\ pc[b] = "launch"
    /\ ~cancelSignal
    /\ setup.api = "vulkan"
    /\ ~job[b].ret
    /\ \E t \in job[b].todo : job' = [job EXCEPT ![b].todo = @ \ {t}]
    /\ UNCHANGED <<setup, gui, cancelSignal, artifacts, queue, started, pc, cli,
                   left, history>>

StopLaunching(b) ==
    /\ pc[b] = "launch"
    /\ cancelSignal \/ job[b].todo = {}
    /\ Goto(b, "check")
    /\ UNCHANGED <<setup, gui, cancelSignal, artifacts, queue, started, job, cli,
                   left, history>>

\* The command has ended and its output is read: success is having printed
\* something (Linux) or having run (Windows), and ret is that of the last
\* target.  A binary's target is found in that output, and its metadata is then
\* merged into the project's.
CliReturns(b) ==
    /\ pc[b] = "wait"
    /\ cli[b] \in {"quiet", "printed", "built"}
    /\ ~(Linux /\ cancelSignal)
    /\ LET ok == ~Linux \/ cli[b] # "quiet"
       IN \E found \in IF Binary /\ cli[b] # "built" THEN BOOLEAN ELSE {TRUE} :
            job' = [job EXCEPT ![b].ret = ok,
                               ![b].gpus = IF ok /\ found THEN @ \cup {job[b].target} ELSE @]
    /\ disk' = IF Binary /\ cli[b] = "built" THEN [disk EXCEPT ![1] = b] ELSE disk
    /\ cli' = [cli EXCEPT ![b] = "none"]
    /\ Goto(b, "launch")
    /\ UNCHANGED <<setup, gui, cancelSignal, outputs, queue, started, left, history>>

\* A command goes on after its call has given up on it.
Escapes(b) ==
    /\ cli[b] = "running"
    /\ orphans' = orphans \cup {<<b, job[b].target>>}
    /\ escaped' = escaped \cup {<<b, job[b].target>>}

\* The call sees the flag: on Linux the command is killed, though not what it
\* starts just then, and the call fails; on Windows it is left running and the
\* call succeeds.
CliAborts(b) ==
    /\ pc[b] = "wait"
    /\ cancelSignal
    /\ \/ /\ Linux
          /\ job' = [job EXCEPT ![b].ret = FALSE]
          /\ Escapes(b) \/ UNCHANGED left
       \/ /\ ~Linux
          /\ \E found \in IF Binary THEN BOOLEAN ELSE {TRUE} :
               job' = [job EXCEPT ![b].ret = TRUE,
                                  ![b].gpus = IF found THEN @ \cup {job[b].target} ELSE @]
          /\ Escapes(b)
    /\ cli' = [cli EXCEPT ![b] = "none"]
    /\ Goto(b, "launch")
    /\ UNCHANGED <<setup, gui, cancelSignal, artifacts, queue, started, history>>

\* "Verify that the build was not canceled."  The signal goes out before the
\* thread is done with the view: the GUI may act on it first.
ReportCanceled(b) ==
    /\ pc[b] = "check"
    /\ cancelSignal
    /\ Post("canceled", b)
    /\ BuildOver(b, "notify")
    /\ UNCHANGED <<setup, gui, cancelSignal, artifacts, started, cli, left,
                   history>>

\* "Notify the user that the build was canceled": HandleNewCLIOutputString
\* writes to the output window of the view.
NotifyCanceled(b) ==
    /\ pc[b] = "notify"
    /\ Goto(b, "done")
    /\ UNCHANGED <<setup, gui, cancelSignal, artifacts, queue, started, job, cli, left,
                   history>>

\* A build that is not a success ends without a signal.
EndSilently(b) ==
    /\ pc[b] = "check"
    /\ ~cancelSignal
    /\ ~job[b].ret
    /\ BuildOver(b, "silent")
    /\ UNCHANGED <<setup, gui, cancelSignal, artifacts, queue, started, cli,
                   left, history>>

\* LoadBuildOutput: the targets that succeeded or, when none did, all of them.
BeginLoad(b) ==
    /\ pc[b] = "check"
    /\ ~cancelSignal
    /\ job[b].ret
    /\ job' = [job EXCEPT ![b].todo = IF job[b].gpus = {} THEN ProjectTargets ELSE job[b].gpus]
    /\ Goto(b, "load")
    /\ UNCHANGED <<setup, gui, cancelSignal, artifacts, queue, started, cli, left,
                   history>>

\* LoadSessionMetadata reads and parses one metadata file, if it is there.
ReadMetadata(b) ==
    /\ pc[b] = "load"
    /\ \E t \in job[b].todo :
         \/ /\ disk[t] # 0
            /\ job' = [job EXCEPT ![b].todo = @ \ {t}, ![b].target = t, ![b].read = disk[t]]
            /\ Goto(b, "insert")
         \/ /\ job' = [job EXCEPT ![b].todo = @ \ {t}]
            /\ UNCHANGED pc
    /\ UNCHANGED <<setup, gui, cancelSignal, artifacts, queue, started, cli, left,
                   history>>

\* What was read becomes the target's entry in build_outputs_.
InsertOutput(b) ==
    /\ pc[b] = "insert"
    /\ outputs' = [outputs EXCEPT ![job[b].target] = job[b].read]
    /\ job' = [job EXCEPT ![b].loaded = TRUE]
    /\ Goto(b, "load")
    /\ UNCHANGED <<setup, gui, cancelSignal, disk, queue, started, cli, left, history>>

ReportLoaded(b) ==
    /\ pc[b] = "load"
    /\ job[b].todo = {}
    /\ Post(IF job[b].loaded THEN "success" ELSE "failure", b)
    /\ BuildOver(b, "done")
    /\ UNCHANGED <<setup, gui, cancelSignal, artifacts, started, cli, left,
                   history>>

-----------------------------------------------------------------------------
(* The command line tool *)

\* It ends having printed nothing, printed something, or also written the
\* target's metadata (that of a binary goes to a temporary file).
CliExits(b) ==
    /\ cli[b] = "running"
    /\ \E end \in {"quiet", "printed", "built"} :
         /\ cli' = [cli EXCEPT ![b] = end]
         /\ disk' = IF end = "built" /\ ~Binary
                      THEN [disk EXCEPT ![job[b].target] = b] ELSE disk
    /\ UNCHANGED <<setup, gui, cancelSignal, outputs, queue, started, pc, job, left,
                   history>>

\* So does one that nobody waits for any more.
OrphanExits ==
    \E o \in orphans :
      /\ orphans' = orphans \ {o}
      /\ \/ UNCHANGED disk
         \/ ~Binary /\ disk' = [disk EXCEPT ![o[2]] = o[1]]
      /\ UNCHANGED <<setup, gui, cancelSignal, outputs, queue, started, pc, job, cli,
                     escaped, history>>

-----------------------------------------------------------------------------

ThreadStep(b) ==
    \/ Prepare(b) \/ ResetCancel(b)
    \/ LaunchCli(b) \/ SkipTarget(b) \/ StopLaunching(b)
    \/ CliReturns(b) \/ CliAborts(b)
    \/ ReportCanceled(b) \/ NotifyCanceled(b) \/ EndSilently(b)
    \/ BeginLoad(b) \/ ReadMetadata(b) \/ InsertOutput(b) \/ ReportLoaded(b)

UserStep ==
    \/ ClickBuild \/ ClickCancel
    \/ AddFile \/ AddBinary \/ ReloadBinary
    \/ CloseSource \/ RemoveStage \/ CloseBinary
    \/ BackToHome \/ OpenProject

\* An exception that leaves a thread ends the program.
Crashed == \E b \in Builds : pc[b] = "crashed"

Next ==
    /\ ~Crashed
    /\ \/ UserStep
       \/ HandleEnd
       \/ OrphanExits
       \/ \E b \in Builds : ThreadStep(b) \/ CliExits(b)

\* The operating system runs the threads and the GUI thread its event loop;
\* nothing is assumed of the user or of the command line tool.
Spec ==
    /\ Init
    /\ [][Next]_vars
    /\ \A b \in Builds : WF_vars(~Crashed /\ ThreadStep(b))
    /\ WF_vars(~Crashed /\ HandleEnd)

\* A hypothesis of some properties: every command ends.
CommandsEnd == \A b \in Builds : WF_vars(~Crashed /\ CliExits(b))

-----------------------------------------------------------------------------
(* Correctness while the project is left alone during a build *)

Quiet == ~setup.edits

\* The interlock between the menu actions, the threads and the event queue:
\* while Cancel is disabled nothing is being built and no end signal is on its
\* way, and at most one build is going on or waiting to be announced.  (The
\* thread of a canceled build may still have its message to give then.)
OneBuildAtATime ==
    Quiet =>
        /\ ~cancelAction => queue = <<>> /\ \A b \in Builds : ~Building(b)
        /\ Len(queue) <= 1
        /\ \A b \in Builds : Building(b) => b = started /\ queue = <<>>

\* HandleBackToHomeEvent deletes the view under no thread that is building; the
\* only one it may delete it under is that of a build announced as canceled,
\* before it has told the user.
ViewOutlivesBuilds ==
    [][Quiet => \A b \in Builds :
           pc'[b] = "dangling" => pc[b] \in {"notify", "dangling"}]_vars

\* A build that is canceled before its thread checks the flag neither loads
\* outputs nor reports anything but its cancellation, which it does report.
CancelHonoured ==
    Quiet => /\ \A b \in caught :
                    \/ pc[b] \in {"launch", "wait", "check"}
                    \/ pc[b] \in {"notify", "done"} /\ EndQueued(b)
             /\ \A i \in 1 .. Len(queue) :
                    queue[i].build \in caught => queue[i].kind = "canceled"

\* A source build finds in the output folder only its own results and those
\* of commands that outlived their canceled builds.
OwnArtifacts ==
    Quiet /\ ~Binary =>
        \A b \in Builds : Building(b) =>
            \A t \in Targets : disk[t] \in {0, b} \/ <<disk[t], t>> \in escaped

\* When a source build reports success there is something of it to show, and
\* nothing else is shown, unless Cancel was clicked or a command escaped.
SuccessHasOutput ==
    Quiet /\ ~Binary /\ escaped = {} =>
        \A i \in 1 .. Len(queue) :
            LET b == queue[i].build
            IN queue[i].kind = "success" /\ b \notin cancelled =>
                   /\ \E t \in Targets : outputs[t] = b
                   /\ \A t \in Targets : outputs[t] \in {0, b}

\* A source project without files is neither built nor about to be: the end
\* of a build enables Build without looking, and rests on this.
EmptySourceNotBuilt ==
    Quiet /\ ~Binary /\ files = 0 => ~buildAction /\ ~cancelAction

\* "Make sure that the Build and Cancel options are never both enabled."
\* (EnableBuildMenu and HandleProjectFileCountChanged.)  Three handlers and
\* the end signals keep it so, also when files come and go during a build.
BuildAndCancelExclusive == ~(buildAction /\ cancelAction)

\* Even with the project changed during builds, a build ends once: at most one
\* signal per build, and its thread is done with the build.  All it may have
\* left to do, if the build was canceled, is to tell the user, in a view that
\* may be gone.
EndsOnce ==
    \A i \in 1 .. Len(queue) :
        /\ \/ pc[queue[i].build] = "done"
           \/ /\ queue[i].kind = "canceled"
              /\ pc[queue[i].build] \in {"notify", "dangling"}
        /\ \A j \in 1 .. Len(queue) : queue[i].build = queue[j].build => i = j

\* What phase of BuildCycle the session is in: a build is silent when Cancel is
\* still enabled and nothing is left that would disable it.
SessionPhase ==
    IF \E b \in Builds : Building(b) THEN "building"
    ELSE IF queue # <<>> THEN "ended"
    ELSE IF Crashed THEN "crashed"
    ELSE IF cancelAction THEN "silent" ELSE "idle"

Cycle == INSTANCE BuildCycle WITH
    quiet   <- Quiet,
    open    <- ~atHome,
    begun   <- started,
    phase   <- SessionPhase,
    stopped <- \E b \in caught : Building(b),
    outcome <- IF queue = <<>> THEN "none" ELSE Head(queue).kind,
    telling <- {b \in Builds : pc[b] = "notify"},
    lost    <- {b \in Builds : pc[b] = "dangling"}

\* The session implements the cycle of builds: they follow one another, each is
\* announced once (HandleProjectBuildSuccess and its like), as canceled if it was
\* stopped in time, and the project is left only in between, under no thread but
\* one that has yet to tell of a cancellation.
CycleImplemented == Cycle!CycleSpec

\* A cancellation in time frees the GUI again, whatever the command does.
CancelFreesGui ==
    \A b \in Builds : Quiet /\ b \in caught ~> ~cancelAction

\* When the commands end, so does every build thread, edits or not (if the
\* program does not crash first).
BuildsEnd == CommandsEnd => \A b \in Builds : Running(b) ~> ~Running(b) \/ Crashed

-----------------------------------------------------------------------------
(* What the sources say and the code does not keep *)

\* rg_main_window.cpp: "Do not allow another build while a build is already in
\* progress."
NoOverlappingBuilds == \A b, c \in Builds : Building(b) /\ Building(c) => b = c

\* rg_build_view.cpp: "Destroy all project outputs when the project build is
\* canceled."
CanceledLeavesNothing == \A t \in Targets : outputs[t] \notin cancelled

\* rg_main_window.cpp: "Re-enable all menu items, since the build is over."
BuildOverEnablesMenu ==
    CommandsEnd => \A b \in Builds : Building(b) ~> homeAction \/ atHome

\* rg_main_window.cpp: "If there are no files in the project, disable source
\* and build related menu items."
EmptyProjectNotBuilt == files = 0 => ~buildAction
=============================================================================
