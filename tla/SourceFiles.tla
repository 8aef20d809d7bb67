---------------------------- MODULE SourceFiles ----------------------------
(***************************************************************************)
(* The source files of an OpenCL project that is open in the RGA GUI: the  *)
(* items of the file menu (RgMenuOpencl), the editors of RgBuildView and   *)
(* the files on disk, while the user edits, saves, adds and closes files,  *)
(* other programs write to them, and a build reads them.                   *)
(*                                                                         *)
(* All of RGA here runs on the GUI thread, and a handler is one step.  The *)
(* exception is the question that RgBuildView asks when it finds that a    *)
(* file was changed outside: its message box runs the event loop, so other *)
(* programs, the end of a build and the return of the focus come in        *)
(* between the question and what the handler does with the answer.  The    *)
(* open questions are a stack.  The other message boxes are answered in    *)
(* the step that asks them.                                                *)
(*                                                                         *)
(* A handler that calls others is an operator on the record `view`, which  *)
(* holds what the GUI thread keeps, and on `disk`.                         *)
(*                                                                         *)
(* A text is the file it was written for and the moment it was written; a  *)
(* modification time is such a moment.  0 is the time of a missing file.   *)
(***************************************************************************)
EXTENDS Naturals, Sequences, FiniteSets

CONSTANTS
    NumFiles, \* bound: files there are, in the order of their paths
    MaxClock, \* bound: moments at which something is typed, written or built
    GoesOn    \* bound: whether work goes on after a question about saving was
              \* answered "Cancel", and in a build after a file was closed

ASSUME SourceAssumption ==
    /\ NumFiles \in Nat \ {0}
    /\ MaxClock \in Nat \ {0}
    /\ GoesOn \in BOOLEAN

File == 1 .. NumFiles
None == 0           \* no file, a null pointer
MaybeFile == File \cup {None}
Time == 0 .. MaxClock
Text == [of : File, at : Time]
NoText == [of |-> None, at |-> 0]
MaybeText == Text \cup {NoText}

\* The text of an editor that nothing was loaded into.
Empty(f) == [of |-> f, at |-> 0]

VARIABLES
    view,    \* what RgBuildView and RgMenuOpencl keep
    disk,    \* the files on disk
    clock,   \* the time of the last event
    build,   \* the build that runs: its phase, the texts it read, and the
             \* files that changed since it began
    leaving, \* RequestRemoveAllFiles is closing the files one by one
    built,   \* history: the text of each file that the last build compiled
    touched, \* history: files that changed while the last build ran
    refused, \* history: a question about saving was answered "Cancel"
    ghost    \* history: a file was closed while a build ran that did not fail

vars == <<view, disk, clock, build, leaving, built, touched, refused, ghost>>
history == <<built, touched, refused, ghost>>

Mode == {"empty", "source", "settings"}

\* A question about a file changed or deleted outside, the modification time
\* that its QFileInfo cached, and whether the click that led to it has a
\* second handler to run.
Question == [file : File, kind : {"changed", "deleted"}, seen : Time, activate : BOOLEAN]

ViewType ==
    [menu       : Seq(File),             \* menu_items_
     editors    : SUBSET File,           \* source_code_editors_
     selected   : MaybeFile,             \* selected_file_item_
     last       : MaybeFile,             \* last_selected_item_
     focus      : 0 .. NumFiles + 2,     \* focus_index_
     current    : MaybeFile,             \* current_code_editor_
     mode       : Mode,                  \* edit_mode_
     pending    : BOOLEAN,               \* unsaved changes of the build settings
     text       : [File -> Text],        \* the editors' documents
     clean      : [File -> MaybeText],   \* the text that undoing leads back to
     modified   : [File -> BOOLEAN],
     recorded   : [File -> Time],        \* file_modified_time_map_
     correlated : SUBSET File,           \* is_correlated of the project's files
     lastBuilt  : Time,                  \* last_successful_build_time_
     questions  : Seq(Question)]         \* pending_file_modifications_, innermost last

DiskType == [text : [File -> MaybeText], time : [File -> Time]]

TypeOK ==
    /\ view \in ViewType
    /\ disk \in DiskType
    /\ clock \in Time
    /\ build \in [phase : {"idle", "running", "read"}, files : [File -> MaybeText],
                  changed : SUBSET File]
    /\ leaving \in BOOLEAN
    /\ built \in [File -> MaybeText]
    /\ touched \subseteq File
    /\ refused \in BOOLEAN
    /\ ghost \in BOOLEAN

Items(v) == {v.menu[i] : i \in DOMAIN v.menu}
Exists(d, f) == d.time[f] # 0
Building == build.phase # "idle"
NoTexts == [f \in File |-> NoText]

\* A new project without files; every file but the last exists on disk.
Init ==
    /\ view = [menu |-> <<>>, editors |-> {}, selected |-> None, last |-> None, focus |-> 0,
               current |-> None, mode |-> "empty", pending |-> FALSE,
               text |-> [f \in File |-> Empty(f)], clean |-> NoTexts,
               modified |-> [f \in File |-> FALSE], recorded |-> [f \in File |-> 0],
               correlated |-> {}, lastBuilt |-> 0, questions |-> <<>>]
    /\ disk = [text |-> [f \in File |-> IF f < NumFiles THEN [of |-> f, at |-> 1] ELSE NoText],
               time |-> [f \in File |-> IF f < NumFiles THEN 1 ELSE 0]]
    /\ clock = 1
    /\ build = [phase |-> "idle", files |-> NoTexts, changed |-> {}]
    /\ leaving = FALSE
    /\ built = NoTexts
    /\ touched = {}
    /\ refused = FALSE
    /\ ghost = FALSE

-----------------------------------------------------------------------------
(* Handlers of RgBuildView and RgMenuOpencl on the view `v`, with the disk  *)
(* `d` where they look at it.  `ok` is the answer to the question whether   *)
(* pending build settings are to be saved or dropped; FALSE is "Cancel", or *)
(* "Yes" when they cannot be saved.                                         *)

\* Slip: a saved file is correlated however old the last build is.
AlwaysCorrelated(v, f, m) ==
    IF v.modified[f] = m THEN v
    ELSE [v EXCEPT !.modified[f] = m,
                   !.correlated = IF ~m THEN @ \cup ({f} \cap Items(v)) ELSE @ \ {f}]

\* HandleEditorModificationStateChanged, on the signal of the document.
SignalModified(v, f, m) ==
    IF v.modified[f] = m THEN v
    ELSE [v EXCEPT !.modified[f] = m,
                   !.correlated = IF ~m /\ v.recorded[f] <= v.lastBuilt
                                  THEN @ \cup ({f} \cap Items(v)) ELSE @ \ {f}]

\* setModified(false): the text becomes the one that undoing leads back to.
SetUnmodified(v, f) == SignalModified([v EXCEPT !.clean[f] = v.text[f]], f, FALSE)

\* Slip: the text that is kept counts as saved.
NotMarked(v, f) == v

\* setModified(true): undoing no longer leads back.
SetModified(v, f) == SignalModified([v EXCEPT !.clean[f] = NoText], f, TRUE)

\* Slip: questions that are open already are not looked at.
AskAgain(v, d) ==
    LET c == v.current
        q == [file |-> c, kind |-> IF Exists(d, c) THEN "changed" ELSE "deleted",
              seen |-> d.time[c], activate |-> FALSE]
    IN IF c # None /\ d.time[c] # v.recorded[c] THEN [v EXCEPT !.questions = Append(@, q)] ELSE v

\* CheckExternalFileModification: a question about the current file, unless
\* one about it is open already.
CheckExternal(v, d) ==
    LET c == v.current
        q == [file |-> c, kind |-> IF Exists(d, c) THEN "changed" ELSE "deleted",
              seen |-> d.time[c], activate |-> FALSE]
    IN IF /\ c # None
          /\ d.time[c] # v.recorded[c]
          /\ \A i \in DOMAIN v.questions : v.questions[i].file # c
       THEN [v EXCEPT !.questions = Append(@, q)]
       ELSE v

\* GetEditorForFilepath.
OpenEditor(v, d, f) ==
    IF f \in v.editors THEN v
    ELSE [v EXCEPT !.editors = @ \cup {f}, !.recorded[f] = d.time[f]]

\* What CanSwitchEditMode can be answered.
Answers(v) == IF v.mode = "settings" /\ v.pending THEN BOOLEAN ELSE {TRUE}

\* Slip: the editor that is left is checked.
CheckThenSwitch(v, d, f, ok) ==
    IF ~ok THEN v
    ELSE [CheckExternal(v, d) EXCEPT !.pending = @ /\ v.mode # "settings",
                                     !.current = f, !.mode = "source"]

\* SwitchToEditor.
SwitchToEditor(v, d, f, ok) ==
    IF ~ok THEN v
    ELSE CheckExternal([v EXCEPT !.pending = @ /\ v.mode # "settings",
                                 !.current = f, !.mode = "source"], d)

\* The place of a file in the menu.
Place(v, f) == CHOOSE i \in DOMAIN v.menu : v.menu[i] = f

\* Slip: the new editor is created and not shown.
OpenOnly(v, d, f, ok) ==
    OpenEditor([v EXCEPT !.focus = Place(v, f) - 1,
                         !.selected = f, !.last = f], d, f)

\* Slip: the item is not selected.
ShowUnselected(v, d, f, ok) ==
    LET w == [v EXCEPT !.focus = Place(v, f) - 1, !.last = f]
    IN SwitchToEditor(OpenEditor(w, d, f), d, f, ok)

\* RgMenuOpencl::HandleSelectedFileChanged and DisplayFileInEditor.
Display(v, d, f, ok) ==
    LET w == [v EXCEPT !.focus = Place(v, f) - 1,
                       !.selected = f, !.last = f]
    IN SwitchToEditor(OpenEditor(w, d, f), d, f, ok)

\* HandleBuildSettingsButtonClicked and OpenBuildSettings.
OpenSettings(v) == [v EXCEPT !.focus = Len(v.menu) + 2, !.mode = "settings"]

\* HandleActivateItemAction: the file or the button that has the focus.  The
\* dialogs of the Add and Create buttons are dismissed.
Activate(v, d, ok) ==
    IF v.focus < Len(v.menu)
    THEN LET f == v.menu[v.focus + 1]
         IN SwitchToEditor(OpenEditor([v EXCEPT !.selected = f, !.last = f], d, f), d, f, ok)
    ELSE IF v.focus = Len(v.menu) + 2 THEN OpenSettings(v) ELSE v

ActivateAnswers(v) == IF v.focus < Len(v.menu) THEN Answers(v) ELSE {TRUE}

\* SetSourceCodeText: into the current editor, whichever that is.
LoadText(v, d, f) ==
    LET c == v.current
        w == SignalModified([v EXCEPT !.text[c] = d.text[f]], c, TRUE)
    IN IF c = None \/ ~Exists(d, f) THEN v
       ELSE SetUnmodified([w EXCEPT !.recorded[c] = d.time[f]], c)

\* RgMenu::RemoveItem.  Neither the selected item nor the focus is reset.
RemoveItem(v, f) ==
    IF f \notin Items(v) THEN v
    ELSE [v EXCEPT !.menu = [i \in 1 .. Len(@) - 1 |-> IF i < Place(v, f) THEN @[i] ELSE @[i + 1]],
                   !.last = IF @ = f THEN None ELSE @]

\* Slip: the editor is not erased from the map.
KeepEditor(v, d, f, ok) ==
    LET w == [v EXCEPT !.current = IF @ = f THEN None ELSE @,
                       !.text[f] = Empty(f), !.clean[f] = NoText,
                       !.modified[f] = FALSE, !.recorded[f] = 0]
        shown == IF w.menu = <<>> THEN w ELSE Display(w, d, w.menu[Len(w.menu)], ok)
    IN [shown EXCEPT !.mode = IF w.editors = {} THEN "empty" ELSE "source"]

\* RemoveEditor and SwitchToFirstRemainingFile.
RemoveEditor(v, d, f, ok) ==
    LET w == [v EXCEPT !.editors = @ \ {f},
                       !.current = IF @ = f THEN None ELSE @,
                       !.text[f] = Empty(f), !.clean[f] = NoText,
                       !.modified[f] = FALSE, !.recorded[f] = 0]
        shown == IF w.menu = <<>> THEN w ELSE Display(w, d, w.menu[Len(w.menu)], ok)
    IN [shown EXCEPT !.mode = IF w.editors = {} THEN "empty" ELSE "source"]

\* RemoveInputFile: the project forgets the file, too.
RemoveInputFile(v, d, f, ok) ==
    RemoveEditor(RemoveItem([v EXCEPT !.correlated = @ \ {f}], f), d, f, ok)

\* Closing the last file switches to no other.
RemoveAnswers(v) == IF Len(v.menu) > 1 THEN Answers(v) ELSE {TRUE}

Write(d, f, txt, t) == [text |-> [d.text EXCEPT ![f] = txt], time |-> [d.time EXCEPT ![f] = t]]

\* SaveEditorTextToFile, of a modified editor, at time t.
Saved(v, e, t) == SetUnmodified([v EXCEPT !.recorded[e] = t], e)

\* GetUnsavedSourceFiles, and SaveSourceFile for each of them.
Unsaved(v) == {f \in v.editors : v.modified[f]}
SavedAll(v, t) ==
    LET S == Unsaved(v)
    IN [v EXCEPT !.recorded = [f \in File |-> IF f \in S THEN t ELSE @[f]],
                 !.clean = [f \in File |-> IF f \in S THEN v.text[f] ELSE @[f]],
                 !.modified = [f \in File |-> @[f] /\ f \notin S],
                 !.correlated = @ \ S]
\* Slip: only the current editor is written.
WriteCurrent(v, d, t) ==
    [text |-> [f \in File |-> IF f \in Unsaved(v) /\ f = v.current THEN v.text[f] ELSE d.text[f]],
     time |-> [f \in File |-> IF f \in Unsaved(v) THEN t ELSE d.time[f]]]

WriteAll(v, d, t) ==
    [text |-> [f \in File |-> IF f \in Unsaved(v) THEN v.text[f] ELSE d.text[f]],
     time |-> [f \in File |-> IF f \in Unsaved(v) THEN t ELSE d.time[f]]]

\* DiscardEditorChanges for each unsaved file: the texts stay.
Discarded(v) ==
    LET S == Unsaved(v)
    IN [v EXCEPT !.clean = [f \in File |-> IF f \in S THEN v.text[f] ELSE @[f]],
                 !.modified = [f \in File |-> @[f] /\ f \notin S],
                 !.correlated = @ \cup {f \in S \cap Items(v) : v.recorded[f] <= v.lastBuilt}]

-----------------------------------------------------------------------------
(* The user.  No question is open and no handler is closing the files.      *)

Continues == refused \/ (ghost /\ Building) => GoesOn
Free == view.questions = <<>> /\ ~leaving /\ Continues

\* The next moment, at which the files of S change.
Now == clock + 1
Tick(S) ==
    /\ clock < MaxClock
    /\ clock' = Now
    /\ build' = [build EXCEPT !.changed = IF Building THEN @ \cup S ELSE @]
\* Bound: at the last moment nothing is typed or changed outside.
TickEarly(S) == clock + 1 < MaxClock /\ Tick(S)
NoTick(S) ==
    /\ clock' = clock
    /\ build' = [build EXCEPT !.changed = IF Building THEN @ \cup S ELSE @]
Still == UNCHANGED <<clock, build>>

\* Typing in the editor that is shown, and undoing all of it.
Type ==
    LET c == view.current
    IN /\ Free /\ view.mode = "source" /\ c # None
       /\ TickEarly({c})
       /\ view' = SignalModified([view EXCEPT !.text[c].at = Now], c, TRUE)
       /\ UNCHANGED <<disk, leaving, history>>

Undo ==
    LET c == view.current
    IN /\ Free /\ view.mode = "source" /\ c # None
       /\ view.modified[c] /\ view.clean[c] # NoText
       /\ view' = SignalModified([view EXCEPT !.text[c] = view.clean[c]], c, FALSE)
       /\ NoTick({c})
       /\ UNCHANGED <<disk, leaving, history>>

\* SaveCurrentFile: the current editor goes to the path of the selected item.
SaveCurrentFile ==
    LET c == view.current
        p == view.selected
    IN /\ Free /\ view.mode = "source" /\ c # None /\ p # None
       /\ view.modified[c]
       /\ Tick({c, p})
       /\ view' = Saved(view, c, Now)
       /\ disk' = Write(disk, p, view.text[c], Now)
       /\ UNCHANGED <<leaving, history>>

\* AddExistingSourcefileToProject, for a file dropped on the window.
AddFile(f) ==
    LET w == [view EXCEPT !.menu = Append(@, f), !.correlated = @ \ {f}]
    IN /\ Free /\ f \notin Items(view) /\ Exists(disk, f)
       /\ \E ok \in Answers(view) :
             /\ view' = LoadText(Display(w, disk, f, ok), disk, f)
             /\ refused' = (refused \/ ~ok)
       /\ NoTick({f})
       /\ UNCHANGED <<disk, leaving, built, touched, ghost>>

\* HandleCreateNewCLFile and CreateNewSourceFileInProject, at a new path.
CreateFile(f) ==
    LET d == Write(disk, f, [of |-> f, at |-> Now], Now)
        w == [view EXCEPT !.menu = Append(@, f), !.correlated = @ \ {f}, !.pending = FALSE]
    IN /\ Free /\ ~Building /\ f \notin Items(view) /\ ~Exists(disk, f)
       /\ Tick({f})
       /\ disk' = d
       /\ view' = LoadText(Display(w, d, f, TRUE), d, f)
       /\ UNCHANGED <<leaving, history>>

\* The settings are opened from the file menu, or with HandleBuildSettingsEvent,
\* which deselects the file.
OpenSettingsButton ==
    /\ Free /\ ~Building
    /\ view' = OpenSettings(view)
    /\ Still /\ UNCHANGED <<disk, leaving, history>>

OpenSettingsAction ==
    /\ Free /\ ~Building /\ view.mode # "settings"
    /\ view' = [view EXCEPT !.mode = "settings", !.selected = None]
    /\ Still /\ UNCHANGED <<disk, leaving, history>>

\* A setting is changed; the settings are saved, or changed back.
ChangeSetting ==
    /\ Free /\ view.mode = "settings"
    /\ view' = [view EXCEPT !.pending = ~@]
    /\ Still /\ UNCHANGED <<disk, leaving, history>>

\* The question that the first of two handlers has opened is answered before
\* the second handler runs.
ThenActivate(v, d, n, ok) ==
    IF Len(v.questions) > n
    THEN [v EXCEPT !.questions[Len(v.questions)].activate = TRUE]
    ELSE Activate(v, d, ok)

\* HandleMenuItemClicked, and then HandleActivateItemAction.
ClickItem(f) ==
    /\ Free /\ f \in Items(view)
    /\ \E first \in (IF view.pending THEN BOOLEAN ELSE {TRUE}) :
          LET w == IF first THEN Display([view EXCEPT !.pending = FALSE], disk, f, TRUE) ELSE view
          IN \E second \in ActivateAnswers(w) :
                /\ view' = ThenActivate(w, disk, 0, second)
                /\ refused' = (refused \/ ~first \/ ~second)
    /\ Still /\ UNCHANGED <<disk, leaving, built, touched, ghost>>

\* Slip: off by one at the last button.
MoveFocusTooFar(step) ==
    /\ Free
    /\ view' = [view EXCEPT !.focus = LET n == Len(view.menu) + 3
                                      IN IF step = 1 THEN (IF @ + 1 > n THEN 0 ELSE @ + 1)
                                         ELSE (IF @ = 0 THEN n - 1 ELSE @ - 1)]
    /\ Still /\ UNCHANGED <<disk, leaving, history>>

\* HandleNextItemAction and HandlePreviousItemAction.
MoveFocus(step) ==
    /\ Free
    /\ view' = [view EXCEPT !.focus = LET n == Len(view.menu) + 3
                                      IN IF step = 1 THEN (IF @ + 1 >= n THEN 0 ELSE @ + 1)
                                         ELSE (IF @ = 0 THEN n - 1 ELSE @ - 1)]
    /\ Still /\ UNCHANGED <<disk, leaving, history>>

\* The Return key in the file menu.
PressReturn ==
    /\ Free
    /\ \E ok \in ActivateAnswers(view) :
          /\ view' = Activate(view, disk, ok)
          /\ refused' = (refused \/ ~ok)
    /\ Still /\ UNCHANGED <<disk, leaving, built, touched, ghost>>

\* HandleMenuItemCloseButtonClicked, confirmed; an unsaved file is saved or not.
CloseItem(f) ==
    /\ Free /\ f \in Items(view)
    /\ ghost' = (ghost \/ Building)
    /\ \E save \in (IF view.modified[f] THEN BOOLEAN ELSE {FALSE}) :
          LET d == IF save THEN Write(disk, f, view.text[f], Now) ELSE disk
              w == IF save THEN Saved(view, f, Now) ELSE view
          IN /\ disk' = d
             /\ IF save THEN Tick({f}) ELSE NoTick({f})
             /\ \E ok \in RemoveAnswers(view) :
                   /\ view' = RemoveInputFile(w, d, f, ok)
                   /\ refused' = (refused \/ ~ok)
    /\ UNCHANGED <<leaving, built, touched>>

\* ShowSaveDialog for everything, when the project or RGA is closed.  "No"
\* drops the pending settings, or, when there are none, the unsaved texts.
Asked == view.pending \/ Unsaved(view) # {}
SaveEverything(answer) ==
    IF answer /\ Unsaved(view) # {}
    THEN /\ Tick(Unsaved(view))
         /\ view' = [SavedAll(view, Now) EXCEPT !.pending = FALSE]
         /\ disk' = WriteAll(view, disk, Now)
    ELSE /\ Still
         /\ view' = IF answer \/ view.pending THEN [view EXCEPT !.pending = FALSE]
                                              ELSE Discarded(view)
         /\ disk' = disk

\* HandleBackToHomeEvent; CloseNext does the closing.
GoHome ==
    /\ Free /\ ~Building /\ view.editors # {}
    /\ \E answer \in (IF Asked THEN BOOLEAN ELSE {TRUE}) : SaveEverything(answer)
    /\ leaving' = TRUE
    /\ UNCHANGED history

\* HandleExitEvent when the user has canceled the question of the settings
\* tab: the view's own question is asked nevertheless, and RGA stays.
ExitRefused ==
    /\ Free /\ Asked
    /\ \E answer \in BOOLEAN : SaveEverything(answer)
    /\ refused' = TRUE
    /\ UNCHANGED <<leaving, built, touched, ghost>>

\* One round of the loop of RequestRemoveAllFiles.
CloseNext ==
    /\ leaving /\ view.questions = <<>>
    /\ \E f \in view.editors, ok \in RemoveAnswers(view) :
          /\ \A g \in view.editors : f <= g
          /\ view' = RemoveEditor(RemoveItem(view, f), disk, f, ok)
          /\ refused' = (refused \/ ~ok)
    /\ Still /\ UNCHANGED <<disk, leaving, built, touched, ghost>>

-----------------------------------------------------------------------------
(* Other programs, while the project is open, and the question that follows. *)

Shown == Continues /\ (leaving => view.editors # {})

ExternalWrite(f) ==
    /\ Shown /\ TickEarly({f})
    /\ disk' = Write(disk, f, [of |-> f, at |-> Now], Now)
    /\ UNCHANGED <<view, leaving, history>>

ExternalDelete(f) ==
    /\ Shown /\ Exists(disk, f)
    /\ TickEarly({f})
    /\ disk' = Write(disk, f, NoText, 0)
    /\ UNCHANGED <<view, leaving, history>>

\* HandleApplicationStateChanged, also while a question is open.
ApplicationActive ==
    /\ Shown
    /\ view' = CheckExternal(view, disk)
    /\ Still /\ UNCHANGED <<disk, leaving, history>>

\* The innermost question is answered; what HandleExternalFileModification
\* does then.  Resume runs the second handler of a click, if there is one.
Question1 == view.questions[Len(view.questions)]
Answered == [view EXCEPT !.questions = SubSeq(@, 1, Len(@) - 1)]
Resume(w, d) ==
    LET n == Len(view.questions) - 1
    IN IF ~Question1.activate
       THEN view' = w /\ refused' = refused
       ELSE \E ok \in (IF Len(w.questions) > n THEN {TRUE} ELSE ActivateAnswers(w)) :
               /\ view' = ThenActivate(w, d, n, ok)
               /\ refused' = (refused \/ ~ok)

\* The file is reloaded into the current editor.
AnswerReload ==
    /\ view.questions # <<>> /\ Question1.kind = "changed"
    /\ Resume(LoadText(Answered, disk, Question1.file), disk)
    /\ Still /\ UNCHANGED <<disk, leaving, built, touched, ghost>>

\* The current editor keeps its text, unsaved, and the time that was cached
\* when the question was asked is recorded.
AnswerKeep ==
    LET c == view.current
    IN /\ view.questions # <<>> /\ Question1.kind = "changed"
       /\ Resume(SetModified([Answered EXCEPT !.recorded[c] = Question1.seen], c), disk)
       /\ NoTick({c}) /\ UNCHANGED <<disk, leaving, built, touched, ghost>>

\* A missing file is written again, if its editor is the current one.
AnswerCreate ==
    LET f == Question1.file
        w == SetModified(Answered, view.current)
        d == Write(disk, f, w.text[f], Now)
    IN /\ view.questions # <<>> /\ Question1.kind = "deleted"
       /\ IF w.modified[f] THEN Tick({f}) /\ disk' = d ELSE Still /\ disk' = disk
       /\ Resume(IF w.modified[f] THEN Saved(w, f, Now) ELSE w, disk')
       /\ UNCHANGED <<leaving, built, touched, ghost>>

\* A missing file is removed from the project.
AnswerRemove ==
    LET f == Question1.file
    IN /\ view.questions # <<>> /\ Question1.kind = "deleted"
       /\ Resume(RemoveInputFile(Answered, disk, f, TRUE), disk)
       /\ ghost' = (ghost \/ Building)
       /\ NoTick({f})
       /\ UNCHANGED <<disk, leaving, built, touched>>

-----------------------------------------------------------------------------
(* Builds.                                                                  *)

\* HandleBuildProjectEvent with SaveCurrentState: the unsaved files are saved
\* before the settings are asked about.
ClickBuild ==
    LET S == Unsaved(view)
        w == IF S = {} THEN view ELSE SavedAll(view, Now)
    IN /\ Free /\ ~Building /\ view.menu # <<>>
       /\ disk' = WriteAll(view, disk, Now)
       /\ \E ok \in (IF view.pending THEN BOOLEAN ELSE {TRUE}) :
             /\ view' = [w EXCEPT !.pending = @ /\ ~ok]
             /\ refused' = (refused \/ ~ok)
             /\ build' = IF ok THEN [phase |-> "running", files |-> NoTexts, changed |-> {}]
                         ELSE build
       /\ IF S = {} THEN clock' = clock ELSE clock < MaxClock /\ clock' = Now
       /\ UNCHANGED <<leaving, built, touched, ghost>>

\* The commands of the build read the source files of the project.
BuildReads ==
    /\ build.phase = "running"
    /\ \A f \in Items(view) : Exists(disk, f)
    /\ build' = [build EXCEPT !.phase = "read",
                     !.files = [f \in File |-> IF f \in Items(view) THEN disk.text[f] ELSE NoText]]
    /\ UNCHANGED <<view, disk, clock, leaving, history>>

\* A build that fails or is canceled changes nothing here.
BuildFails ==
    /\ Building
    /\ build' = [build EXCEPT !.phase = "idle", !.files = NoTexts]
    /\ ghost' = (ghost /\ view.editors # Items(view))
    /\ UNCHANGED <<view, disk, clock, leaving, built, touched, refused>>

\* CurrentBuildSucceeded: line correlation is enabled for each file that was
\* built and has an editor, and for the selected file, whose editor is created
\* if need be.
Correlated(v, d) ==
    LET s == v.selected
        w == IF s = None THEN v ELSE OpenEditor(v, d, s)
        S == {f \in v.editors : build.files[f] # NoText} \cup {s}
    IN [w EXCEPT !.correlated = @ \cup (S \cap Items(v))]

\* HandleProjectBuildSuccess: the time of the build is the time its signal is
\* handled, and the file that was shown last is shown again.
BuildSucceeds ==
    LET w == [Correlated(view, disk) EXCEPT !.lastBuilt = Now, !.selected = None]
    IN /\ build.phase = "read"
       /\ clock < MaxClock /\ clock' = Now
       /\ IF w.last = None
          THEN view' = w /\ refused' = refused
          ELSE \E ok \in Answers(w) : view' = Display(w, disk, w.last, ok) /\ refused' = (refused \/ ~ok)
       /\ built' = build.files
       /\ touched' = build.changed
       /\ build' = [build EXCEPT !.phase = "idle", !.files = NoTexts]
       /\ UNCHANGED <<disk, leaving, ghost>>

-----------------------------------------------------------------------------
Next ==
    \/ Type \/ Undo \/ SaveCurrentFile
    \/ OpenSettingsButton \/ OpenSettingsAction \/ ChangeSetting
    \/ \E f \in File : AddFile(f) \/ CreateFile(f) \/ ClickItem(f) \/ CloseItem(f)
    \/ MoveFocus(1) \/ MoveFocus(2) \/ PressReturn
    \/ GoHome \/ ExitRefused \/ CloseNext
    \/ \E f \in File : ExternalWrite(f) \/ ExternalDelete(f)
    \/ ApplicationActive
    \/ AnswerReload \/ AnswerKeep \/ AnswerCreate \/ AnswerRemove
    \/ ClickBuild \/ BuildReads \/ BuildFails \/ BuildSucceeds

Spec == Init /\ [][Next]_vars

-----------------------------------------------------------------------------
(* Properties.                                                              *)

\* A text stays with its file: no editor shows, and no file on disk gets, the
\* text of another file (SaveCurrentFile, SetSourceCodeText).  ShowSaveDialog
\* says of a question that is canceled that it cancels "the entire operation"
\* (rg_build_view.cpp:1259); it does not, and this fails.
OwnText ==
    \A f \in File : view.text[f].of = f /\ disk.text[f].of \in {f, None}

\* It does unless the user cancels a question about pending build settings.
OwnTextUnlessRefused == refused \/ OwnText

\* An editor that is marked as saved shows what is on disk, or the difference
\* will be noticed.
CleanIsSaved ==
    refused \/ ghost \/ leaving \/ \A f \in view.editors :
        view.modified[f] \/ view.recorded[f] # disk.time[f] \/ view.text[f] = disk.text[f]

\* Line correlation leads to the lines that were compiled, for a file that did
\* not change while it was built and has not changed outside since.
CorrelatedIsBuilt ==
    refused \/ leaving \/ \A f \in view.correlated \ touched :
        built[f] = NoText \/ view.recorded[f] # disk.time[f] \/ view.text[f] = built[f]

\* A text that was not saved leaves its editor only for the disk, unless the
\* user undoes it, answers that the file is to be reloaded, or closes the file:
\* no build, click or answer about another file drops it.
UnsavedIsKept ==
    [][\A f \in File :
          view.modified[f] /\ ~view'.modified[f] =>
              \/ disk'.text[f] = view.text[f]
              \/ f \notin Items(view')
              \/ view'.text[f] = view.clean[f]
              \/ AnswerReload /\ Question1.file = f
              \/ refused' \/ leaving']_vars

\* The answer to a question is about the file it asks about.
QuestionOfCurrent ==
    refused \/ leaving \/ view.questions = <<>> \/ Question1.file = view.current

\* The user is not asked about a file while a question about it is open.
AskedOnce ==
    \A i, j \in DOMAIN view.questions :
        view.questions[i].file = view.questions[j].file => i = j

\* Each file of the menu has its editor, and no other file has one.
EditorsMatchMenu == ghost \/ view.editors = Items(view)

\* The highlighted file is the one that is edited.
SelectedIsShown ==
    \/ refused \/ ghost \/ leaving
    \/ view.mode = "source" => view.current # None /\ view.selected = view.current
=============================================================================
