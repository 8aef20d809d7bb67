------------------------------ MODULE Settings ------------------------------
(***************************************************************************)
(* The settings of the RGA GUI and the list of recent projects: what       *)
(* RgConfigManager holds, the file it is kept in, the two pages of the     *)
(* settings tab that edit copies of it, and the buttons of the start tab.  *)
(*                                                                         *)
(* All of it runs on the GUI thread and a handler is one step, with the    *)
(* question whether to save, which is answered in the step that asks it.   *)
(* What makes it hard is that the same settings are held several times:    *)
(* in the widgets, in the copy that the page compares them with, in the    *)
(* manager, which other parts of the program change as well, and on disk.  *)
(*                                                                         *)
(* Of the application settings, the model has the columns of the           *)
(* disassembly view, which that view changes, too, and what no page shows: *)
(* the directory selected last and the sizes of the splitters, which are   *)
(* remembered as they change and reach the file only with the next write.  *)
(* The copy that the page holds has a list of recent projects of its own,  *)
(* while the projects listed and the build settings are shared with the    *)
(* manager by pointer.                                                     *)
(***************************************************************************)
EXTENDS Naturals, Sequences, FiniteSets

CONSTANTS
    Path,      \* paths of project files
    Stripped,  \* a path without its separators: paths may have this in common
    MaxRecent, \* kMaxRecentFiles
    AnyTime    \* bound: if FALSE, places are remembered only instead of the first
               \* ones, and no write fails just before or from then on

None == 0   \* no project

ASSUME SettingsAssumption ==
    /\ None \notin Path
    /\ DOMAIN Stripped = Path
    /\ MaxRecent \in Nat \ {0}
    /\ AnyTime \in BOOLEAN

Ui == {0, 1}
DefaultUi == 0

\* The directory selected last and the sizes of the splitters.
Places == {0, 1}
DefaultPlaces == 0

\* Build settings: a valid value, or target GPUs that are not supported.
Valid == {0, 1}
Invalid == 2
DefaultApi == 0

\* RgRecentProject objects; a list of them is a sequence of pointers.
Entry == 1 .. 2 * MaxRecent + 1

VARIABLES
    config,  \* global_settings_ of RgConfigManager
    path,    \* the project path of each RgRecentProject
    file,    \* the configuration file
    view,    \* the settings tab
    home,    \* the project that is open; if none, the buttons of the start tab
    written, \* history: the last attempt to write the file succeeded
    unsaved  \* history: places were remembered since the file was written

vars == <<config, path, file, view, home, written, unsaved>>

Pages == {"global", "api"}

ViewType ==
    [widgets    : Ui,              \* the widgets of the application page
     initial    : Ui,              \* its initial_settings_
     places     : Places,          \* last_selected_directory, gui_layout_splitters of it
     recents    : Seq(Entry),      \* recent_projects of it
     flag       : BOOLEAN,         \* has_application_pending_changes_
     api        : Valid \cup {Invalid}, \* the widgets of the build settings page
     apiInitial : Valid,           \* its initial_settings_
     apiFlag    : BOOLEAN,         \* has_build_pending_changes_
     page       : Pages,
     tab        : {"start", "settings"}]

TypeOK ==
    /\ config \in [ui : Ui, places : Places, recents : Seq(Entry), api : Valid]
    /\ Len(config.recents) <= MaxRecent
    /\ DOMAIN path \subseteq Entry /\ \A e \in DOMAIN path : path[e] \in Path
    /\ file \in [ui : Ui, places : Places, recents : Seq(Path), api : Valid]
    /\ view \in ViewType
    /\ home \in [open : Path \cup {None}, buttons : Seq(Path)]
    /\ written \in BOOLEAN /\ unsaved \in BOOLEAN

Elements(s) == {s[i] : i \in DOMAIN s}
Paths(s, objects) == [i \in DOMAIN s |-> objects[s[i]]]

-----------------------------------------------------------------------------
(* Handlers are operators on a record of the variables.                     *)

State == [config |-> config, path |-> path, file |-> file, view |-> view, home |-> home,
          written |-> written, unsaved |-> unsaved]

\* Objects that no list points to any more are gone, and the others are counted
\* in the order of the lists.
Becomes(s) ==
    LET listed == s.config.recents
        kept == s.view.recents
        Place(j) == IF kept[j] \in Elements(listed) THEN CHOOSE i \in DOMAIN listed : listed[i] = kept[j]
                    ELSE Len(listed) + j
    IN /\ config' = [s.config EXCEPT !.recents = [i \in DOMAIN listed |-> i]]
       /\ view' = [s.view EXCEPT !.recents = [j \in DOMAIN kept |-> Place(j)]]
       /\ path' = [i \in DOMAIN listed \cup {Place(j) : j \in DOMAIN kept} |->
                      s.path[IF i \in DOMAIN listed THEN listed[i] ELSE kept[i - Len(listed)]]]
       /\ file' = s.file /\ home' = s.home
       /\ written' = s.written /\ unsaved' = s.unsaved

\* What the program starts with: the file f, in the manager and in the views.
Started(f) ==
    LET c == [f EXCEPT !.recents = [i \in DOMAIN @ |-> i]]
    IN [config |-> c, path |-> f.recents, file |-> f,
        view |-> [widgets |-> f.ui, initial |-> f.ui, places |-> f.places,
                  recents |-> c.recents, flag |-> FALSE, api |-> f.api, apiInitial |-> f.api, apiFlag |-> FALSE,
                  page |-> "global", tab |-> "start"],
        home |-> [open |-> None, buttons |-> f.recents],
        written |-> TRUE, unsaved |-> FALSE]

NewFile == [ui |-> DefaultUi, places |-> DefaultPlaces, recents |-> <<>>, api |-> DefaultApi]

Init ==
    LET s == Started(NewFile)
    IN /\ config = s.config /\ path = s.path /\ file = s.file /\ view = s.view /\ home = s.home
       /\ written = TRUE /\ unsaved = FALSE

\* SaveGlobalConfigFile.
Stored(c, objects) == [c EXCEPT !.recents = Paths(@, objects)]
WriteFile(s, ok) ==
    [s EXCEPT !.file = IF ok THEN Stored(s.config, s.path) ELSE @, !.written = ok,
              !.unsaved = @ /\ ~ok]

\* Slip: the build settings are replaced as well.
SetWholeConfig(s) ==
    [s EXCEPT !.config = [ui |-> s.view.initial, places |-> s.view.places,
                           recents |-> s.view.recents, api |-> DefaultApi]]

\* SetGlobalConfig, with the copy that the page holds.  The build settings are
\* shared.
SetGlobalConfig(s) ==
    [s EXCEPT !.config.ui = s.view.initial, !.config.places = s.view.places,
              !.config.recents = s.view.recents]

\* Bound: after a step that failed to write the file, attempts succeed.
FirstPlaces == AnyTime \/ config.places = DefaultPlaces
Writes == IF written /\ FirstPlaces THEN BOOLEAN ELSE {TRUE}

-----------------------------------------------------------------------------
(* The pages.                                                               *)

HasPending(v) == v.widgets # v.initial
ApiPending(v) == v.api # v.apiInitial

\* Slip: the list of recent projects stays the one the page was shown with.
PullWidgets(s) ==
    [s EXCEPT !.view.initial = s.view.widgets, !.view.places = s.config.places]

\* PullFromWidgets, into initial_settings_: the manager's settings but for
\* those that the widgets show.
Pull(s) ==
    [s EXCEPT !.view.initial = s.view.widgets, !.view.places = s.config.places,
              !.view.recents = s.config.recents]

\* showEvent of the application page.
Show(s) ==
    IF HasPending(s.view) THEN s
    ELSE Pull([s EXCEPT !.view.widgets = s.config.ui, !.view.flag = FALSE])

\* RgGlobalSettingsView::SaveSettings.
SaveGlobal(s, ok) ==
    LET w == WriteFile(SetGlobalConfig(Pull(s)), ok)
    IN [w EXCEPT !.view.flag = @ /\ ~ok]

\* Slip: the target GPUs are not validated.
SaveUnchecked(s, ok) ==
    WriteFile([s EXCEPT !.view.apiInitial = s.view.api, !.config.api = s.view.api,
                        !.view.apiFlag = @ /\ ~ok], ok)

\* RgBuildSettingsViewOpencl::SaveSettings.
SaveApi(s, ok) ==
    LET w == WriteFile([s EXCEPT !.view.apiInitial = s.view.api, !.config.api = s.view.api], ok)
    IN IF s.view.api = Invalid THEN s ELSE [w EXCEPT !.view.apiFlag = @ /\ ~ok]

\* RgSettingsTab::SaveSettings.
SaveSettings(s, ok) ==
    LET a == [s EXCEPT !.view.flag = HasPending(s.view)]
        b == IF HasPending(s.view) THEN SaveGlobal(a, ok) ELSE a
    IN IF ApiPending(s.view) THEN SaveApi(b, ok) ELSE b

\* RevertPendingChanges: the page goes back to the manager's settings, without
\* comparing with them from then on.
Revert(s) ==
    [s EXCEPT !.view.widgets = s.config.ui, !.view.flag = FALSE,
              !.view.api = s.view.apiInitial, !.view.apiFlag = FALSE]

\* PromptToSavePendingChanges, where it does not stop the handler: the answer
\* is yes or no, or there is no question.
Asked == view.flag \/ view.apiFlag
Prompted ==
    IF Asked THEN {SaveSettings(State, ok) : ok \in Writes} \cup {Revert(State)} ELSE {State}

-----------------------------------------------------------------------------
(* The settings tab.                                                        *)

OnPage(p) == view.tab = "settings" /\ view.page = p

ChangeColumns ==
    LET v == [view EXCEPT !.widgets = 1 - @]
    IN /\ OnPage("global")
       /\ Becomes([State EXCEPT !.view = [v EXCEPT !.flag = HasPending(v)]])

ChangeApi ==
    \E a \in Valid \cup {Invalid} :
        LET v == [view EXCEPT !.api = a]
        IN /\ OnPage("api") /\ a # view.api
           /\ Becomes([State EXCEPT !.view = [v EXCEPT !.apiFlag = ApiPending(v)]])

\* The question and no more: HandleSaveSettingsButtonClicked, the shortcut, or a
\* handler that another dialog stops after it.
Save ==
    /\ Asked
    /\ \E s \in Prompted : Becomes(s)

\* RestoreDefaultSettings of the page that is shown, confirmed.
RestoreGlobal ==
    \E ok \in Writes :
        LET a == [State EXCEPT !.view.initial = DefaultUi, !.view.widgets = DefaultUi,
                               !.view.flag = FALSE]
        IN /\ OnPage("global")
           /\ Becomes(WriteFile(SetGlobalConfig(a), ok))

RestoreApi ==
    \E ok \in Writes :
        LET a == [State EXCEPT !.view.api = DefaultApi, !.view.apiInitial = DefaultApi,
                               !.view.apiFlag = FALSE, !.config.api = DefaultApi]
        IN /\ OnPage("api")
           /\ Becomes(WriteFile(a, ok))

\* HandleSettingsListWidgetClick: after the question for a click, without it
\* for the arrow keys (SelectNextListWidgetItem).
TurnPage ==
    /\ view.tab = "settings"
    /\ \E s \in Prompted \cup {State} :
        IF view.page = "api" THEN Becomes(Show([s EXCEPT !.view.page = "global"]))
        ELSE Becomes([s EXCEPT !.view.page = "api"])

\* Slip: the question is not asked.
LeaveUnasked ==
    /\ view.tab = "settings"
    /\ Becomes([State EXCEPT !.view.tab = "start"])

\* mousePressEvent of the tab bar, or Ctrl+Tab.
LeaveSettings ==
    /\ view.tab = "settings"
    /\ \E s \in Prompted : Becomes([s EXCEPT !.view.tab = "start"])

EnterSettings ==
    LET w == [State EXCEPT !.view.tab = "settings"]
    IN /\ view.tab = "start"
       /\ Becomes(IF view.page = "global" THEN Show(w) ELSE w)

-----------------------------------------------------------------------------
(* Projects.                                                                *)

\* AddRecentProjectPath: a new object, in place of the first with this path.
Rest(list, objects, p) ==
    LET same == {i \in DOMAIN list : Stripped[objects[list[i]]] = Stripped[p]}
        first == CHOOSE i \in same : \A j \in same : i <= j
    IN IF same = {} THEN list
       ELSE [i \in 1 .. Len(list) - 1 |-> IF i < first THEN list[i] ELSE list[i + 1]]
Fresh(s) == CHOOSE e \in Entry : e \notin Elements(s.config.recents) \cup Elements(s.view.recents)

\* Slip: the list is not saved.
AddUnsaved(s, p, ok) ==
    LET e == Fresh(s)
        list == Append(Rest(s.config.recents, s.path, p), e)
    IN [s EXCEPT !.path = [d \in DOMAIN @ \cup {e} |-> IF d = e THEN p ELSE @[d]],
                 !.config.recents = IF Len(list) > MaxRecent THEN Tail(list) ELSE list]

\* Slip: a project that is listed is listed again.
AddAnyway(s, p, ok) ==
    LET e == Fresh(s)
        list == Append(s.config.recents, e)
    IN WriteFile([s EXCEPT !.path = [d \in DOMAIN @ \cup {e} |-> IF d = e THEN p ELSE @[d]],
                           !.config.recents = IF Len(list) > MaxRecent THEN Tail(list) ELSE list], ok)

AddRecent(s, p, ok) ==
    LET e == Fresh(s)
        list == Append(Rest(s.config.recents, s.path, p), e)
    IN WriteFile([s EXCEPT !.path = [d \in DOMAIN @ \cup {e} |-> IF d = e THEN p ELSE @[d]],
                           !.config.recents = IF Len(list) > MaxRecent THEN Tail(list) ELSE list], ok)

\* SaveProjectFile.
SaveProjectFile(s, p, ok) ==
    IF p \in Elements(Paths(s.config.recents, s.path)) THEN s ELSE AddRecent(s, p, ok)

Opened(p) == [open |-> p, buttons |-> <<>>]

\* HandleOpenProjectFileEvent, from the menu.
OpenProject ==
    \E p \in Path, s \in Prompted, ok \in Writes :
        Becomes([AddRecent(s, p, ok) EXCEPT !.home = Opened(p)])

\* HandleRecentProjectClickedEvent: a button knows its place in the list.
ClickRecent ==
    \E i \in DOMAIN home.buttons, ok \in Writes :
        /\ view.tab = "start" /\ home.open = None /\ i \in DOMAIN config.recents
        /\ LET p == path[config.recents[i]]
           IN Becomes([AddRecent(State, p, ok) EXCEPT !.home = Opened(p)])

\* CreateNewEmptyProject, or a change of the project that is open.
SaveProject ==
    \E p \in IF home.open = None THEN Path ELSE {home.open}, ok \in Writes :
        /\ view.tab = "start"
        /\ Becomes([SaveProjectFile(State, p, ok) EXCEPT !.home = Opened(p)])

\* RenameProject, to a path at which there is no file.
RenameProject ==
    \E p \in Path \ {home.open}, ok \in Writes :
        LET list == config.recents
            same == {i \in DOMAIN list : path[list[i]] = home.open}
            first == list[CHOOSE i \in same : \A j \in same : i <= j]
            a == [State EXCEPT !.path = IF same = {} THEN @ ELSE [@ EXCEPT ![first] = p]]
        IN /\ view.tab = "start" /\ home.open # None
           /\ Becomes([SaveProjectFile(AddRecent(a, p, ok), p, ok) EXCEPT !.home = Opened(p)])

\* The disassembly view's columns that only RGA has (RgIsaProxyModel).  Its other
\* columns are shown and hidden without the settings.
ToggleColumn ==
    \E ok \in Writes :
        /\ view.tab = "start" /\ home.open # None
        /\ Becomes(WriteFile([State EXCEPT !.config.ui = 1 - @], ok))

\* SetLastSelectedDirectory after a file dialog, on any tab, or SetSplitterValues
\* when a splitter was moved.  Neither saves.
Remember ==
    /\ FirstPlaces /\ (AnyTime \/ written)
    /\ Becomes([State EXCEPT !.config.places = 1 - @, !.unsaved = TRUE])

\* Slip: the buttons are made before the project is saved.
GoHomeEarly ==
    \E ok \in Writes, closed \in BOOLEAN :
        LET s == SaveProjectFile(State, home.open, ok)
            b == Paths(config.recents, path)
        IN /\ home.open # None
           /\ Becomes([s EXCEPT !.home = IF closed THEN [open |-> None, buttons |-> b] ELSE @])

\* HandleBackToHomeEvent: the buttons are made anew before the files are
\* closed, which the user may stop.
GoHome ==
    \E ok \in Writes, closed \in BOOLEAN :
        LET s == SaveProjectFile(State, home.open, ok)
            b == Paths(s.config.recents, s.path)
        IN /\ home.open # None
           /\ Becomes([s EXCEPT !.home = IF closed THEN [open |-> None, buttons |-> b] ELSE @])

\* The program ends and is started again: at a crash with what the file has, at
\* HandleExitEvent after the question and a last write (Close).
Restart ==
    \E f \in {file} \cup {WriteFile(s, ok).file : s \in Prompted, ok \in Writes} :
        Becomes(Started(f))

-----------------------------------------------------------------------------
Next ==
    \/ ChangeColumns \/ ChangeApi
    \/ Save \/ RestoreGlobal \/ RestoreApi
    \/ TurnPage \/ LeaveSettings \/ EnterSettings
    \/ OpenProject \/ ClickRecent \/ SaveProject \/ RenameProject
    \/ ToggleColumn \/ Remember \/ GoHome
    \/ Restart

Spec == Init /\ [][Next]_vars

-----------------------------------------------------------------------------
(* Properties.                                                              *)

\* The file holds what the program works with, unless the last attempt to
\* write it failed: the handlers that change application settings, build
\* settings or the list of recent projects save them, so a crash loses none of
\* these.  What a crash may lose is the directory and the sizes of splitters that
\* were remembered since, and the next save of anything writes them, too.
FileIsConfig ==
    written => file = [Stored(config, path) EXCEPT !.places = IF unsaved THEN file.places ELSE @]

\* The build settings page compares with the settings in force, and its widgets
\* differ from them only while it is marked as changed: saving, reverting or
\* restoring the application settings, and failed saves, do not disturb this.
ApiIsConfig == view.apiInitial = config.api /\ (view.apiFlag \/ view.api = config.api)

\* AddRecentProjectPath removes an old entry of the project it adds: no list
\* gets a project twice, also not through the page's copy or the file, but by
\* a rename to the path of a project that is listed.
Distinct(list) ==
    \A i, j \in DOMAIN list : Stripped[list[i]] = Stripped[list[j]] => i = j
EachOnce ==
    /\ Distinct(Paths(config.recents, path))
    /\ Distinct(Paths(view.recents, path))
    /\ Distinct(file.recents)
Listed == Elements(Paths(config.recents \o view.recents, path)) \cup Elements(file.recents)
OntoListed ==
    /\ home.open \notin {None, home'.open}
    /\ \E p \in Listed : Stripped[home'.open] = Stripped[p]
ListedOnce == [][EachOnce => EachOnce' \/ OntoListed]_vars

\* Restoring the defaults of a page that was shown before the list changed.
StaleRestore == RestoreGlobal /\ view.recents # config.recents

\* Each button of the start tab is for the project at its place in the list,
\* which is the one that a click opens (HandleRecentProjectClickedEvent), until
\* a restore puts an older list in place under the buttons.
ButtonsAreRecents == home.open = None => home.buttons = Paths(config.recents, path)
ButtonsStay == [][ButtonsAreRecents => ButtonsAreRecents' \/ StaleRestore]_vars

\* The project that is open stays among the recent projects, also when the
\* settings tab puts its copy of the application settings in place, but for
\* the same restore.
OpenIsListed == home.open # None => home.open \in Elements(Paths(config.recents, path))
OpenStaysListed == [][OpenIsListed => OpenIsListed' \/ StaleRestore]_vars

\* The application page compares its widgets with the settings in force, and
\* changes in them are marked and do not outlive the tab, so that the question
\* whether to save is asked when there is something to lose.  The answer "No"
\* while the copy is an old one ends this: RevertPendingChanges renews the
\* widgets and not the copy.
ComparedWithCurrent ==
    /\ OnPage("global") => view.initial = config.ui
    /\ HasPending(view) => view.flag /\ view.tab = "settings" /\ view.initial = config.ui
NoStaleQuestion ==
    [][ComparedWithCurrent => ComparedWithCurrent' \/ (Asked /\ view.initial # config.ui)]_vars
=============================================================================
