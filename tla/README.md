# Radeon GPU Analyzer: TLA+ specifications and proofs

These modules specify the parts of the Radeon GPU Analyzer (RGA) whose state is
shared, copied or can be left behind by a failure: the builds of a project that a
user starts and cancels in the GUI while a detached thread runs the command line
tool; the editors, the file menu and the files on disk; the settings and the list
of recent projects; and a run of the command line tool over several target GPUs.
Every definition is translated from the sources; `PROJECT.json` gives the lines.

## 1. The system

| Component | State it keeps | Operations | Hard behaviour | What makes it correct |
|---|---|---|---|---|
| `osExecAndGrabOutput` and its helpers (`external/amdt_os_wrappers`, Linux and Windows) | the process, pipe or temporary file, the caller's flag | launch, poll, kill, read output | flag against end of process, blocking pipe, commands that hang or crash | a returned call left nothing running; success means waited for; output complete; cancellation returns |
| `RgBuildView` (base, OpenCL, Vulkan, binary), builds | project, `cancel_bulid_signal_`, `build_outputs_`, the output folder | start and cancel a build, load outputs, add and remove files | a detached thread that shares all of it without a lock | builds do not overlap; a cancellation counts; only own outputs are shown; the view outlives what is built in it |
| `RgMainWindow` | which actions are enabled, the page shown | handlers of the actions and of the build's signals | signals queued behind user input | Build and Cancel exclusive; no build or way home while one runs |
| `RgCliLauncher` | `ret` and the list of GPUs built, per call | one loop over the target GPUs for each mode | one target of several fails, is canceled | the loop ends; failure is not reported as success |
| Editors, saving, external modification (`rg_build_view`, `rg_menu_opencl`) | texts, dirty flags, modification times, the selected file and the file shown, open questions | edit, save, add, create, close, reload | a file with two writers; a question during which other events arrive | a text stays with its file; nothing unsaved is dropped; what is marked as built is what was built |
| `RgConfigManager`, start tab, recent projects | the settings, the list of recent projects, the file | load, save, open, rename, restart | a failed write, a crash, a list that is held in several places | the file is what the program works with, but for what is saved along with the next change; no project twice; a button opens what it says |
| Settings tab and its pages | widgets, the copy they are compared with, marks of pending changes | edit, save, restore, turn pages, leave | the manager changes underneath | the question whether to save is asked when there is something to lose |
| Command line tool on OpenCL (`kc_cli_commander_lightning`, `kc_utils_lightning`), static analyses, session metadata | the targets, the result, the entries, the output files | resolve names, compile, disassemble, analyse, list, clean up | one target, kernel, tool or file of several fails; files of an earlier run | every name and failure accounted for; the entries list what exists; temporary binaries and ISA files go |
| Command line tool: Vulkan, DirectX 12, binary commanders | options, outputs | like the above | like the above | like the above |
| Pipeline state model | tree of create-info values | edit, load, save | none concurrent | data layout |
| ISA disassembly view and models | loaded tables, current target | populate, filter, jump | none concurrent | presentation |
| ISA parser and program graph (`emulator/parser`) | instructions, blocks, edges | parse, split into blocks, connect | branches to nowhere, empty programs | edges are those of the program |
| Vulkan, DX12, DX11 utilities | none between calls | straight sequences of driver calls | none | exit code |
| Log, resources, vendored libraries | - | - | - | - |

How they interact:

    user --click--> RgMainWindow --call--> RgBuildView --std::thread, detached--> build thread
      |                ^                       |  cancel flag, output folder,        |
      |                |                       |  build_outputs_ (no lock)           v
      |                |                       +-----------------------------> RgCliLauncher
      |                |                                                             |
      |                +------- queued end signals -------- build thread      osExecAndGrabOutput
      |                                                                              |
      +--type, save--> editors, file menu <--files on disk--> other programs,  command line tool
      |
      +--settings tab, start tab--> RgConfigManager <--> configuration file

## 2. The modules

| Module | Models |
|---|---|
| `CliCall` | the abstract specification of a call: it owns a process and reports "ok" or "failed" only once that process is gone |
| `CliProcess` | `osExecAndGrabOutput` on both platforms, with `popen2`, `osWaitForProcessToTerminate`, `osTerminateProcess` and `osTerminateChildren` |
| `CliProcess_proofs` | its theorems, the refinement of `CliCall` among them |
| `BuildCycle` | the abstract specification of a session: builds one after the other, each announced once, the project left only in between |
| `BuildSession` | `RgMainWindow`, `RgBuildView`, the build thread, `RgCliLauncher`, the event queue, and the tool's processes |
| `BuildSession_proofs` | its theorems about the interlock of builds, the refinement of `BuildCycle` among them |
| `BuildOutputs_proofs` | its theorems about what builds find, load and show; extends the former |
| `SourceFiles` | the editors of `RgBuildView`, the menu `RgMenuOpencl`, the files on disk, other programs, and a build as a reader of the files |
| `SourceViews_proofs` | what the handlers of `SourceFiles`, as operators on a view, do to it |
| `SourceFiles_proofs` | the theorems about menu, editors and questions; extends the former |
| `SourceTexts_proofs` | the theorems about texts, disk and builds; extends the former |
| `Settings` | `RgConfigManager`, `RgSettingsTab` with its pages, the start tab, opening and closing projects, the configuration file |
| `Settings_proofs` | its theorems |
| `OpenclOffline` | a run of the tool: `KcCLICommanderLightning` and `KcUtilsLightning` |
| `OpenclOffline_proofs` | its theorems |
| `MCCliProcess`, `MCBuildSession`, `MCSourceFiles`, `MCSettings`, `MCOpenclOffline` | values of the constants for TLC |

`BuildSession` abstracts a call to what `CliCall` promises, and implements
`BuildCycle`; `SourceFiles` abstracts a build to its phases (started, files read,
over). The steps of the build thread
and the texts of the editors do not share a module: the thread reads files that
the GUI has saved before it starts.

### CliProcess

`pc` says where the caller is. On Linux `poll` is the left operand of the
loop's condition (`cancelSignal`), `wait` the right one (50 ms, then
`waitpid(WNOHANG)`), `stopped` the second read of the flag after the loop and
`kill` the time between `osTerminateChildren` listing the children and the
signals. On Windows `wait` is `WaitForSingleObject`, and `closed` follows a
timeout with the flag up, whose closed handle makes the next wait fail. The
flag is read where the code reads it, so it may change between any two reads.
`child` is the process that `popen2` or `CreateProcess` launched, `helper` one
that this process launched in turn. Sizes are counted in units of which the
pipe and the read buffer hold `Capacity`: on Linux a full pipe blocks the
command, and the one `read` returns at most a buffer. A full buffer has no
terminator, so what is then made of it may be longer (`ReadOnce`).

Actions and code: `Launch`/`LaunchFails` (`popen2`, `CreateProcess`),
`PollFlag`, `WaitPid`, `ListChildren`, `KillChild`, `GrabOutput` (Linux),
`WaitHandle`, `ReadTempFile` (Windows), `SetCancel` (`CancelCurrentBuild`), and
the command: `Print1`, `SpawnHelper`, `HelperExits`, `ChildExits`,
`ChildCrashes`.

### BuildSession

GUI side: `ClickBuild`, `ClickCancel`, `HandleEnd`, `AddFile`, `AddBinary`,
`ReloadBinary`, `CloseSource`, `RemoveStage`, `CloseBinary`, `BackToHome`,
`OpenProject`. Each is a whole handler with every slot it calls directly; slots
of signals that a build thread emits are queued and appear in `queue`.

Thread side, for build `b`: `Prepare` (the output folders), `ResetCancel` (the
flag is lowered, and for a binary project `at(0)` is evaluated), `LaunchCli`,
`SkipTarget`, `CliReturns`, `CliAborts`, `StopLaunching` (the launcher),
`ReportCanceled`, `NotifyCanceled`, `EndSilently`, `BeginLoad` (the check after it),
`ReadMetadata`, `InsertOutput`, `ReportLoaded` (`LoadBuildOutput`). Every access
to shared state is a step of its own. The signal that announces a cancellation is
posted (`ReportCanceled`) before the thread tells the user of it in the view's output
window (`NotifyCanceled`), so between the two the GUI may act on the signal: enable
Build, start another build, or go home and delete the view, which leaves the thread
`"dangling"`. A thread is `Building` until its build ends, and `Running` until it has
no more use of the view. `CliExits` and `OrphanExits` are the tool.

An artifact is named by the build that produced it; `disk` and `outputs` hold
one per target GPU, and a binary project has one for all. `cancelled`, `caught`
and `escaped` are history variables. The steps of `osExecAndGrabOutput` appear
as `CliReturns` and `CliAborts`, that is as the `Report` and `Abort` of
`CliCall`: a call either ends after its process, or gives up on it.

### SourceFiles

`view` is a record of what the GUI thread keeps: the menu and its focus, the
editors, the selected file (`selected_file_item_`), the current editor, the
texts with the text that undoing leads back to, the modification flags, the
recorded modification times, the files with line correlation, and the open
questions. A handler that calls others is an operator on this record, so that an
action composes them as the code does. A text is the file it was written for and
the moment of writing, which is all that tells texts apart here.

The GUI is one thread and a handler one step, with one exception: the message box
about a file that was changed outside runs the event loop. `CheckExternal` pushes
a question on a stack, and `AnswerReload`, `AnswerKeep`, `AnswerCreate` and
`AnswerRemove` are what `HandleExternalFileModification` does with the answer,
later. In between files change, the application is activated again and builds
end. A click runs two handlers; when the first opens a question, the second waits
for it (`activate`).

Actions: `Type`, `Undo`, `SaveCurrentFile`, `AddFile`, `CreateFile`, `ClickItem`,
`CloseItem`, `MoveFocus`, `PressReturn`, `OpenSettingsButton`,
`OpenSettingsAction`, `ChangeSetting`, `GoHome` with `CloseNext` for each round of
its loop, `ExitRefused` (the user); `ExternalWrite`, `ExternalDelete` (other
programs); `ApplicationActive` and the answers; `ClickBuild`, `BuildReads`,
`BuildFails`, `BuildSucceeds`.

### Settings

`config` is the manager's, `view` the settings tab with the widgets, the copy
that each page compares them with (`initial`, `recents`, `apiInitial`) and the
marks of pending changes, `home` the buttons of the start tab or the project that
is open, `file` the configuration file. The copy of the application page holds a
list of its own of pointers to the same `RgRecentProject` objects as the
manager's, so `path` maps an object to its path: a rename writes to an object
that both lists may have. `Becomes` numbers the objects anew at the end of a step
and drops the ones no list has. `written` records whether the last attempt to
write the file succeeded; an attempt may fail, and a crash (`Restart`) starts
from what the file holds. `places` stands for the last selected directory and the
sizes of the splitters: the manager's setters (`Remember`) do not save, `unsaved`
records that, and the page's copy has places of its own, so that restoring the
defaults of the application page brings older ones back.

Actions: `ChangeColumns`, `ChangeApi`, `Save`, `RestoreGlobal`, `RestoreApi`,
`TurnPage`, `LeaveSettings`, `EnterSettings` (the tab); `OpenProject`,
`ClickRecent`, `SaveProject`, `RenameProject`, `GoHome`, `ToggleColumn`,
`Remember`, `Restart`. Where a handler asks first whether to save, the answers are
`Prompted`.

### OpenclOffline

The run goes from place to place (`pc`) as `RunCompileCommands` and
`RunPostCompileSteps` do: `MatchName` for each name, `StartCompile`,
`CompileTarget` for each target, `EndCompile`, then one pass over the entries of
all targets for each analysis, `GenerateSessionMetadata`, `DeleteTempFiles`.
`CompileTarget` is the round of the loop in `CompileOpenCL`, with one disjunct per
way it can end; `ParseToCsv`, `ExtractStatistics`, `PerformLiveVgprAnalysis`,
`PerformLiveSgprAnalysis`, `ExtractCFG` and `ExtractMetadata` are the passes, and
`SkipPass` one that is not made. `meta` is `output_metadata_`; a set of
files that get written is chosen in each pass, so any of them may fail. A file is
absent, of this run or of an earlier one, since the tool looks for the output of
its analyses and may find an old one. `empty` has the binaries and ISA files of this
run without a byte in them, which `DeleteTempFiles` passes over, and `streams` tells
that `LaunchProcess` has left a file that took the output of a command (on Linux, when
the command printed nothing to it, was not started or was timed out). `unnamed`,
`compiled`, `good` and `broken` are history variables.

Two things the code does are visible here. `InitRequestedAsicListLC` does not
reset `ret` between names, so behind a name that was matched an unknown one is
dropped without a word; `NoNameLost` says that this is the only way to lose one.
The result of `ParseIsaFilesToCSV` replaces that of the compilation, and a temp
file without a name is not a failure: the exceptions in `SuccessIsWhole`.

All modules hold definitions with a plausible slip (`StartBuildEnabled`,
`PullWidgets` and the like, marked "Slip"); no action uses them, and they serve to
show that each property notices the slip. A release build is assumed: `assert`
compiles to nothing. `CliProcess`, `BuildSession` and `OpenclOffline` choose their
configuration in `Init`, so that one run covers many.

## 3. What is checked

| Run | Question | Result |
|---|---|---|
| `cli_process` | the properties of a call, both platforms | holds |
| `build_session` | the properties of a session, every mode | holds |
| `source_files` | the properties of editors, menu, disk and builds | holds |
| `settings` | the properties of the settings and the recent projects | holds |
| `opencl_offline` | the properties of a run of the tool | holds |
| `cli_orphan` | does a canceled call leave nothing running? | violated |
| `cli_full_pipe` | does every call return when its command runs on? | violated |
| `session_overlap` | can builds not overlap? | violated |
| `session_canceled` | does a canceled build leave nothing? | violated |
| `session_silent` | are the menu items enabled again after a build? | violated |
| `session_empty` | can an empty project not be built? | violated |
| `source_mixup` | does a text stay with its file? | violated |

Each violated property is a comment of the sources, quoted above its definition
and under "findings" in `PROJECT.json`:

- On Windows a canceled call closes its handles and returns true while the
  command runs on; on Linux a process that the command starts between the
  listing of its children and the kill survives.
- The pipe is read only after the end of a process that cannot end before the
  pipe is read, once it prints more than the pipe holds.
- A file added during a build enables Build, and a second build shares the
  first one's flag, folder and map.
- The thread lowers the flag after the build is announced, so an early
  cancellation is lost; one between the check and the load destroys outputs that
  the thread then inserts again.
- A build that fails emits no signal, and Build, Home and Open stay disabled.
- A binary project without files can be built, and the thread throws.
- When the user cancels the question about pending build settings, the switch to
  another editor is refused, and the caller goes on as if it had happened: the
  text of the new file is loaded into the editor of the old one.

What holds, and why it is not obvious:

- `LinuxNoOrphan`, `LinuxSuccess`, `CompleteOutput`: the flag is read twice by a
  caller that races with the end of the process, and still no interleaving reads
  the pipe of a process that runs or leaves it running.
- `OneBuildAtATime`, `CycleImplemented`: nothing in the build thread keeps builds
  apart; only the enabled actions do, and they change when a queued signal
  arrives. A signal is never left over for a later build to misread, and the
  project is never left under a thread that is building. It may be left, or the next
  build started, under the thread of a canceled build that was announced and has only
  its message to give: `BuildCycle` has such threads in `telling`, and those that lost
  the view before in `lost`.
- `CancelHonoured`: a cancellation between the lowering of the flag and the check
  is never lost, although the flag is all that records it.
- `OwnArtifacts`, `SuccessHasOutput`: the shared output folder holds only the
  running build's results and those of commands that escaped their call, and
  success means outputs of this build.
- `EmptySourceNotBuilt`: the end of a build enables Build without looking, which
  is right only because the last file cannot go during a build.
- `BuildAndCancelExclusive`, `EndsOnce`: with the project changed during builds,
  too. A build is announced when its thread is done with it, though not, if it was
  canceled, with the view.
- `CancelReturns`, `CancelFreesGui`, `SmallOutputReturns`, `BuildsEnd`: liveness.
- `OwnTextUnlessRefused`, `SelectedIsShown`, `QuestionOfCurrent`: the selected
  file, the current editor and the file of an open question are three notions of
  "this file" that different handlers set; a save goes to the first the text of
  the second, and an answer about the third changes the second.
- `UnsavedIsKept`, `CleanIsSaved`, `AskedOnce`: with files changing under open
  questions, no unsaved text is dropped and no clean editor differs from the disk
  without the difference being noticed.
- `CorrelatedIsBuilt`: line correlation is given and taken by comparing two times,
  one of which is that at which the end of the build was handled.
- `EditorsMatchMenu`: holds but when a file is closed during a build that then
  succeeds, which opens its editor again.
- `FileIsConfig`, `ApiIsConfig`, `NoStaleQuestion`: the handlers that change
  application settings, build settings or the recent projects save them, and each page
  compares with what is in force, though the disassembly view and the other page
  change that, too. The last selected directory and the splitter sizes are not saved
  when they change: a crash loses them, and the next save of anything writes them.
- `ListedOnce`, `ButtonsStay`, `OpenStaysListed`: saving the application page puts
  its own list of recent projects in place, which is harmless only because the
  list is fetched anew before. Restoring the defaults does not fetch it: an old
  list comes back, and this is the exception that the last two properties name.
- `NoNameLost`, `SuccessIsWhole`, `FailureIsLocal`, `NoStrayTempFile`,
  `ListedFilesAreThere`: with any set of failures in the tool. `NoStrayTempFile` is
  about temporary ISA files and binaries that hold something. Empty ones stay, and on
  Linux so does the file for the stderr of a compiler that prints nothing (`streams`):
  "Delete all temporary files created by RGA", as `kc_utils_lightning.h:70` has it, is
  more than `DeleteTempFiles` does.

### Hypotheses

`setup.edits` of `BuildSession` says whether the user changes the project while
Cancel is enabled. The code does not forbid it, and `session_overlap` shows what
follows. Seven properties are therefore stated under `Quiet == ~setup.edits`: they
say what the interlock of the actions achieves as long as it is not taken apart
that way. The other properties hold without it, and the configurations with edits
are checked in the same run.

In `SourceFiles`, `refused` records that a question about saving was canceled, as
in `source_mixup`, `ghost` that a file was closed while a build ran, and `leaving`
that the project is being closed, which the user may stop halfway; the properties
say which of these they need. In `Settings`, the action properties are of the form
"what held before a step holds after it, but for the step named".

### Bounds

| Bound | Value | Why it is enough |
|---|---|---|
| `Capacity` | 3 | with `OutputSizes` 0..4, output that is less than, exactly and more than a pipe, and a part of an output that fits |
| `MaxCalls` | 2 | a call after a call, with the flag lowered in between |
| one `helper` per call | | the race needs one |
| `MaxFiles` | 2 | removing a file that is, and one that is not, the last |
| `NumTargets` | 2 | one target fails and another succeeds; a loop that stops halfway |
| `MaxBuilds` | 2 | a build after, and a build during, another |
| `NumFiles` | 2 | the file of one editor and that of another; one exists at the start, one is created |
| `MaxClock` | 4 (3 in `source_mixup`) | creating, typing or an outside change, and then a save or the end of a build; at the last moment nothing is typed or changed outside (`TickEarly`) |
| `GoesOn` | FALSE | after a canceled question, or a file closed in a build, only the handlers that are under way go on |
| `Path` | 2 | a project that is listed and one that is not; a rename from one to the other |
| `MaxRecent` | 2 | a full list; it is never cut here, since a third path would be needed (`Settings_proofs` covers it) |
| `Writes` | | after a failed write the next attempts succeed |
| `AnyTime` | FALSE | places are remembered instead of the first ones, and no write fails just before or from then on: the file and the page's copy may each have older ones than the manager (`Settings_proofs` covers any time and failure) |
| targets of `OpenclOffline` | 1 known, 1 extra, 1 unknown | every order of names that match, match late or do not |
| `MaxNames` | 2 | a name behind one that matched, and several targets of which one fails |
| `MaxEmpty` | 1 | one file of a run is empty, any of its binaries and ISA files |
| `Kernel` | 2, and a name in no source | one kernel of a target fails |
| `Commands` | 6 sets of options | each option, with and without the others it interacts with |

In `build_session` configurations without edits use two targets, those with edits
one, to keep the run short. The two paths of `settings` are alike, and the run uses
that symmetry. There is none elsewhere: in `BuildSession` targets are
taken in any order, while the code takes them in a fixed one, so the model allows
more; in the other modules the order of files, targets and kernels matters.

### Fairness

Weak fairness of the caller's steps (`CliProcess`), of every build thread and of
`HandleEnd` (`BuildSession`): the operating system schedules the threads, and Qt's
event loop delivers queued signals. Nothing is assumed of the user or of the
command. Where a command must run on, the property says so as a hypothesis
(`CommandRuns`, `CommandsEnd`), except in `cli_full_pipe`, whose specification
`FairCommandSpec` has it. The other modules state safety only: every step of
`SourceFiles` and `Settings` is the user's, another program's or part of a
handler that does not wait, and a run of the tool is a sequence. Deadlock is not
checked where the system may rest or has ended: a session may rest, a program
whose thread threw has stopped, the clock of `SourceFiles` has a bound, a run of
the tool ends. `Settings` never rests and is checked for deadlock.

## 4. What is proved

For all values of the constants allowed by the assumption of each module, that is
for any sizes, calls, files, moments, targets, builds, names, kernels, options, paths
and lengths of the list:

| Theorem | Property |
|---|---|
| `CliTypeCorrect` | `TypeOK` of `CliProcess` |
| `LinuxCallsLeaveNoOrphan` | `LinuxNoOrphan` |
| `LinuxSuccessIsWaitedFor` | `LinuxSuccess` |
| `LinuxOutputIsComplete` | `CompleteOutput` |
| `CliProcessImplementsCliCall` | `CallImplemented` |
| `SessionTypeCorrect` | `TypeOK` of `BuildSession` |
| `BuildAndCancelNeverBoth` | `BuildAndCancelExclusive` |
| `QuietBuildsDoNotOverlap` | `OneBuildAtATime` |
| `QuietViewsOutliveBuilds` | `ViewOutlivesBuilds` (not checked by a run: `CycleImplemented` says as much of `lost`) |
| `CancellationInTimeIsHonoured` | `CancelHonoured` |
| `EmptySourceIsNotBuilt` | `EmptySourceNotBuilt` |
| `BuildsEndOnce` | `EndsOnce` |
| `SourceBuildsFindOwnArtifacts` | `OwnArtifacts` |
| `SessionIsACycle` | `CycleImplemented` |
| `SuccessShowsOwnOutput` | `SuccessHasOutput` |
| `SourceTypes` | `TypeOK` of `SourceFiles` |
| `FileAskedOnce` | `AskedOnce` |
| `MenuMatchesEditors` | `EditorsMatchMenu` |
| `AnswerToCurrentFile` | `QuestionOfCurrent` |
| `SelectedFileIsShown` | `SelectedIsShown` |
| `TextStaysWithFile` | `OwnTextUnlessRefused` |
| `SavedTextIsOnDisk` | `CleanIsSaved` |
| `CorrelationIsRight` | `CorrelatedIsBuilt` |
| `UnsavedTextIsKept` | `UnsavedIsKept` |
| `SettingsTypeCorrect` | `TypeOK` of `Settings` |
| `FileIsAlwaysConfig` | `FileIsConfig` |
| `ApiIsAlwaysConfig` | `ApiIsConfig` |
| `QuestionsAreCurrent` | `NoStaleQuestion` |
| `ButtonsFollowTheList` | `ButtonsStay` |
| `OpenProjectIsRecent` | `OpenStaysListed` |
| `ProjectsListedOnce` | `ListedOnce` |
| `TypeCorrect` | `TypeOK` of `OpenclOffline` |
| `NamesAccounted` | `NoNameLost` |
| `WholeSuccess` | `SuccessIsWhole` |
| `LocalFailure` | `FailureIsLocal` |
| `TempFilesGone` | `NoStrayTempFile` |
| `ListedThere` | `ListedFilesAreThere` |

*A call.* The inductive invariant `CallInv` adds to the properties what each
control state knows: which platform it belongs to (`PlatformInv`), that a Linux
caller is past the loop with the flag down only behind a reaped process
(`LoopInv`), and what a returned call knows of its process, output and outcome
(`ReturnInv`). The flag is never lowered while a call is in progress, and that
is what makes the second read agree with the first. For the refinement every step
is a step of `CliCall` or leaves its variables unchanged.

*A session.* `OneBuildAtATime` alone is not inductive. `SessionInv` adds that
Cancel is enabled only with a project open and the way home closed
(`CancelWhileOpen`), that builds not yet started are unused
(`UnusedUntilStarted`), and that a live thread of a build canceled in time sees
the flag up (`CaughtSeesFlag`); the properties support each other: a new build can
start only when Build is enabled, thus Cancel is not, thus no thread runs and no
signal is queued. Lemma `StepKinds` first reduces the twenty-odd actions to a few
kinds (a start, an edit, a step in the background, a move of one thread, and the
rest), and the invariant is proved per kind. So is the refinement of `BuildCycle`:
in a quiet project each kind is a step of the cycle or none. What phase the cycle
is in is read off the threads, the queue and whether Cancel is enabled
(`SessionPhase`, `PhaseFacts`); the move of a thread that ends is where the
invariant is needed, since only `CancelHonoured` and `CaughtSeesFlag` say that a
build stopped in time announces a cancellation and does not vanish. `NotifyCanceled`
is a `Tell`: a thread at that point has nothing to do with the build that may have
begun since.

*The outputs of a session.* `OutputsInv` adds to `SessionInv` that a command
belongs to a thread that waits for it or to an escaped call (`CliInv`), and that
what a live thread has read or inserted is its own (`OwnOutputs`). What is on the
shared folder is then of the build that runs, since no other has a command.

*The editors.* A handler calls others, so there is a lemma for each operator on
the view, which says what it does as a predicate of the view before and after:
the text of one file changes (`TextChange`), another file is displayed
(`Displays`), a file is listed, unlisted, cleared, and so on. The lemmas of the
actions use only these. The invariant `FilesInv` adds to the types that what is
pointed to or asked about is in the menu, once, and a closed file keeps nothing
(`Formed`); and, unless a question about saving was canceled, that the file the
menu selected last is the one in the current editor, selected while source code is
shown, and that any open question is about it, the only one (`Steady`).
`AskedOnce` follows from `Formed`, `QuestionOfCurrent` and `SelectedIsShown` from
`Steady`. Neither of the two is inductive alone: while the settings are shown
nothing is selected, and which file comes back depends on the one selected last.

*The texts.* `TextsInv` says, unless a question was canceled, that texts are those
of their file (`Own`) and that no time is later than the clock (`Past`), and, while
the project is not being closed, that a file marked as saved agrees with the disk
if its times do (`Agree`), that a file as old as the last build has the text that was
built, and so has each editor with line correlation, but for files changed during
it (`Correlation`), and that the build knows of each such change (`BuildKnows`). `CorrelatedIsBuilt` alone
is far from inductive: correlation is given at the end of a build by comparing two
times, and `Agree` and `BuildKnows` are what makes that comparison tell whether
the text is still the one that was built. Each step is described by what becomes of each
file (`Change`: untouched, edited, undone, stored, loaded, dropped or closed), and
of its copy on disk (`DiskChange`). That these descriptions keep the invariant is
proved once, for all steps; `UnsavedIsKept` follows from them too.

*The settings.* The invariant `Good` is a predicate of a record with the
variables as fields, as the handlers are operators on it: the types, with the
pointers of both lists among the objects there are (`StateOK`), and the two
properties (`FileOK`, `ApiOK`; `FileOK` leaves the places out once they were
remembered). There is one lemma for each operator, among them
that adding a project finds an unused object (`FreshIsFree`, by cardinality) and
keeps the list within its limit, and that the renumbering at the end of a step
changes no list of paths (`BecomesPaths`). `RestList` is what `ListedOnce` rests
on: removing the first entry for a path removes every entry for it when no other
has that path. Each handler that fails to write still
leaves `written` false, which is why `FileIsConfig` survives a failed write. For
the action properties each lemma about a step also says what the step does to the
list (`SameLists`, `HomeOK`) and to the application page (`Compared`).

*A run of the tool.* `Inv` has the type invariant, what is known of the names
handled (`NamesInv`), of the targets still to be compiled (`TodoInv`), of the
result (`StatusInv`), of the analyses done for each kernel that has its ISA
(`AnalyzedInv`), and of the temporary files and their entries (`TempInv`). A
property at the end of the run is what the passes have built up, one conjunct each.

Only model-checked: the liveness properties `CancelReturns`, `SmallOutputReturns`,
`CancelFreesGui` and `BuildsEnd`, since fairness and ENABLED are outside what the
prover handles. Every other property that holds is proved.

## 5. What is not modelled, and why

- Of the calls and builds: descriptors and handles (leaked by `popen2`, closed
  twice on Windows), memory that two threads write at once, the exit of the
  program during a build, the temporary metadata of a binary project, and the two
  synchronous calls of the tool that the GUI thread makes after a build to list
  entry points. Their hazards are in `PROJECT.json` with the reason.
- Of the editors: the stages of a Vulkan pipeline, whose files are not edited
  alone, and the dialog of unsaved items, whose list is taken as confirmed in full.
- Of the settings: one setting stands for all of the application page; left out
  are the colour theme with its restart, blank file extensions, the change of the
  API, projects that fail to load, window geometry, the columns that the disassembly view
  shows and hides without the settings, the context menu of the start tab (which looks
  a project's button up by the project's name), and a file that was written in
  part, which a crash within the write leaves. A write is one step.
- Of the tool: the Vulkan, DirectX 12, OpenGL and binary commanders, the options
  given to compilers, and the wording of what is printed; on Windows `LaunchProcess`
  uses pipes and leaves no files.
- Not at all: the pipeline state model and the disassembly view (data layout and
  presentation, with no order of events to get wrong), the instruction decoders
  and structure headers (tables), the Vulkan, DX12 and DX11 utilities (a straight
  sequence of driver calls with an exit code each), the log, and vendored code.
  These are most of the source by lines.

## 6. Plan

Done: `CliCall` and `CliProcess`; `BuildCycle` and `BuildSession`, with the proofs
of its interlock, its outputs and the refinement; `OpenclOffline`, `SourceFiles` and `Settings`, all with proofs.
Left, in order:

1. `ProgramGraph`: the basic blocks and edges of a parsed ISA program, against a
   reference definition over bounded programs; recursive functions only.
2. The Vulkan commander, as far as it differs from `OpenclOffline`: one source per
   stage, and a pipeline that is compiled as a whole.

## 7. Running

    tlc -workers 2 -config CliProcess.cfg MCCliProcess
    tlc -workers 2 -config BuildSession.cfg MCBuildSession
    tlc -workers 2 -config SourceFiles.cfg MCSourceFiles
    tlc -workers 2 -config Settings.cfg MCSettings
    tlc -workers 2 -config OpenclOffline.cfg MCOpenclOffline
    tlapm CliProcess_proofs.tla
    tlapm BuildSession_proofs.tla
    tlapm BuildOutputs_proofs.tla
    tlapm SourceViews_proofs.tla
    tlapm SourceFiles_proofs.tla
    tlapm SourceTexts_proofs.tla
    tlapm OpenclOffline_proofs.tla
    tlapm Settings_proofs.tla

`build_session`, `settings` and `opencl_offline` take one to three minutes each, the
other runs less than one; the proofs take a few minutes each.
