------------------------- MODULE SourceFiles_proofs -------------------------
(***************************************************************************)
(* The menu, the editors and the questions of SourceFiles stay together,   *)
(* for all numbers of files and moments: the type invariant and the        *)
(* invariants about what is open, shown and asked.                         *)
(***************************************************************************)
EXTENDS SourceViews_proofs

\* The editors of files that are no items have nothing to lose, and files
\* without editor have no text.
ClosedOK(v) ==
    /\ \A f \in File \ Items(v) : ~v.modified[f]
    /\ \A f \in File \ v.editors : v.text[f] = Empty(f) /\ v.clean[f] = NoText /\ ~v.modified[f]

\* The menu, the pointers of the view and its questions are of items.
Formed(v) ==
    /\ Distinct(v.menu)
    /\ Items(v) \subseteq v.editors
    /\ v.last \in Items(v) \cup {None}
    /\ v.current \in Items(v) \cup {None}
    /\ v.selected \in Items(v) \cup {None} \/ v.menu = <<>>
    /\ AskedOf(v.questions, Items(v))
    /\ v.questions # <<>> => v.current # None
    /\ ClosedOK(v)

\* The file that is edited is the one that was selected last and, while its
\* text is shown, the one that is selected; a question is about it.
Steady(v) ==
    /\ v.last \in {None, v.current}
    /\ v.mode = "source" =>
          IF v.current = None THEN v.editors # Items(v)
                              ELSE v.selected = v.current /\ v.last = v.current
    /\ AskedAlone(v.questions, v.current)

\* A file that is missing has no text, and no other file is without.
DiskOK(d) == d \in DiskType /\ \A f \in File : Exists(d, f) <=> d.text[f] # NoText

\* While something is built there are items, and nothing is being closed.
BuildOK ==
    /\ Building => ghost \/ view.menu # <<>>
    /\ leaving => ~Building

\* The inductive invariant.
FilesInv ==
    /\ TypeOK
    /\ DiskOK(disk)
    /\ Formed(view)
    /\ refused \/ Steady(view)
    /\ BuildOK
    /\ EditorsMatchMenu

-----------------------------------------------------------------------------
(* What keeps a view formed, and steady.                                    *)

\* A change of the text of an item.
LEMMA TextChangeKeeps ==
    ASSUME NEW v \in ViewType, NEW w, NEW f \in Items(v), NEW text, NEW clean, NEW recorded, NEW m \in BOOLEAN,
           TextChange(v, w, f, text, clean, recorded, m), Formed(v)
    PROVE  /\ Formed(w) /\ (Steady(v) => Steady(w))
           /\ Items(w) = Items(v) /\ w.editors = v.editors /\ w.menu = v.menu
<1>1. /\ w \in ViewType /\ SamePlaces(v, w)
      /\ w.text = [v.text EXCEPT ![f] = text] /\ w.clean = [v.clean EXCEPT ![f] = clean]
      /\ w.modified = [v.modified EXCEPT ![f] = m]
  BY Zenon DEF TextChange
<1>2. /\ w.menu = v.menu /\ w.editors = v.editors /\ w.questions = v.questions
      /\ w.selected = v.selected /\ w.last = v.last /\ w.current = v.current /\ w.mode = v.mode
      /\ Items(w) = Items(v)
  BY <1>1 DEF SamePlaces, Items
<1>3. f \in v.editors /\ f \in File /\ Items(v) \subseteq File
  BY ItemsType DEF Formed
<1>4. ClosedOK(w)
  BY <1>1, <1>2, <1>3 DEF ClosedOK, Formed, ViewType
<1>5. Formed(w)
  BY <1>2, <1>4 DEF Formed
<1>6. Steady(v) => Steady(w)
  BY <1>2 DEF Steady
<1>. QED BY <1>2, <1>5, <1>6

\* A step that opens and selects nothing.
LEMMA StaysKeeps ==
    ASSUME NEW v \in ViewType, NEW w, Stays(v, w), Formed(v)
    PROVE  /\ Formed(w) /\ (Steady(v) => Steady(w))
           /\ Items(w) = Items(v) /\ w.editors = v.editors /\ w.menu = v.menu
<1>1. /\ w \in ViewType /\ SameTexts(v, w)
      /\ w.menu = v.menu /\ w.editors = v.editors /\ w.selected = v.selected /\ w.last = v.last
      /\ w.current = v.current /\ SameQuestions(v.questions, w.questions) /\ w.mode \in {v.mode, "settings"}
  BY Zenon DEF Stays
<1>2. Items(w) = Items(v)
  BY <1>1 DEF Items
<1>3. AskedOf(w.questions, Items(v)) /\ (AskedAlone(v.questions, v.current) => AskedAlone(w.questions, v.current))
  BY <1>1 DEF AskedOf, AskedAlone, SameQuestions, Formed
<1>4. w.questions # <<>> => v.questions # <<>>
  BY <1>1 DEF SameQuestions, ViewType
<1>5. ClosedOK(w)
  BY <1>1, <1>2 DEF ClosedOK, SameTexts, Formed
<1>6. Formed(w)
  BY <1>1, <1>2, <1>3, <1>4, <1>5 DEF Formed
<1>7. Steady(v) => Steady(w)
  BY <1>1, <1>2, <1>3 DEF Steady
<1>. QED BY <1>1, <1>2, <1>6, <1>7

\* All of Formed that Display needs, where f may have no editor yet, and the
\* selected item may be gone.
Displayable(v, f, ok) ==
    /\ Distinct(v.menu)
    /\ f \in Items(v)
    /\ Items(v) \subseteq v.editors \cup {f}
    /\ v.current \in Items(v) \cup {None}
    /\ AskedOf(v.questions, Items(v))
    /\ v.questions # <<>> => ok \/ v.current # None
    /\ ClosedOK(v)

\* HandleSelectedFileChanged.
LEMMA DisplayKeeps ==
    ASSUME NEW v \in ViewType, NEW w, NEW d \in DiskType, NEW f \in File, NEW ok \in BOOLEAN,
           Displayable(v, f, ok), Displays(v, w, d, f, ok)
    PROVE  /\ Formed(w)
           /\ ok /\ AskedAlone(v.questions, f) => Steady(w)
           /\ Items(w) = Items(v) /\ w.editors = v.editors \cup {f} /\ w.menu = v.menu
<1>1. /\ w \in ViewType /\ SameTexts(v, w)
      /\ w.menu = v.menu /\ w.selected = f /\ w.last = f /\ w.editors = v.editors \cup {f}
      /\ ok => /\ w.current = f /\ w.mode = "source"
               /\ MayAsk(v.questions, w.questions, w.recorded, d, f)
      /\ ~ok => w.current = v.current /\ w.questions = v.questions
  BY Zenon DEF Displays
<1>2. Items(w) = Items(v) /\ f \in Items(v)
  BY <1>1 DEF Items, Displayable
<1>3. v.questions \in Seq(Question)
  BY DEF ViewType
<1>4. AskedOf(w.questions, Items(v))
  <2>1. CASE ok
    BY <1>1, <1>2, <1>3, <2>1, MayAskKeeps DEF Displayable
  <2>2. CASE ~ok
    BY <1>1, <2>2 DEF Displayable
  <2>. QED BY <2>1, <2>2
<1>5. ClosedOK(w)
  BY <1>1, <1>2 DEF ClosedOK, SameTexts, Displayable
<1>6. w.questions # <<>> => w.current # None
  BY <1>1 DEF Displayable, File, None
<1>7. Formed(w)
  BY <1>1, <1>2, <1>4, <1>5, <1>6 DEF Formed, Displayable
<1>8. ASSUME ok, AskedAlone(v.questions, f) PROVE Steady(w)
  <2>1. AskedAlone(w.questions, f)
    BY <1>1, <1>3, <1>8, MayAskKeeps
  <2>2. f # None
    BY DEF File, None
  <2>. QED BY <1>1, <1>8, <2>1, <2>2 DEF Steady
<1>. QED BY <1>1, <1>2, <1>7, <1>8

\* A formed view is displayable, and its menu is not too long.
LEMMA FormedIsDisplayable ==
    ASSUME SourceAssumption, NEW v \in ViewType, Formed(v)
    PROVE  /\ \A f \in Items(v), ok \in BOOLEAN : Displayable(v, f, ok)
           /\ Len(v.menu) <= NumFiles
           /\ Items(v) \subseteq File
<1>1. Len(v.menu) <= NumFiles
  BY MenuBound DEF Formed, ViewType
<1>2. Items(v) \subseteq File
  BY ItemsType
<1>3. ASSUME NEW f \in Items(v), NEW ok \in BOOLEAN PROVE Displayable(v, f, ok)
  BY DEF Formed, Displayable
<1>. QED BY <1>1, <1>2, <1>3

\* The second handler of a click, when the first has left n questions or more.
LEMMA ThenActivateKeeps ==
    ASSUME SourceAssumption, NEW v \in ViewType, NEW d \in DiskType, NEW ok \in BOOLEAN, NEW n \in Nat,
           Formed(v), NEW w, w = ThenActivate(v, d, n, ok)
    PROVE  /\ w \in ViewType /\ Formed(w)
           /\ ok /\ n = 0 /\ Steady(v) => Steady(w)
           /\ Items(w) = Items(v) /\ w.editors = v.editors /\ w.menu = v.menu
<1>1. Len(v.menu) <= NumFiles /\ Items(v) \subseteq File
  BY FormedIsDisplayable
<1>2. \/ Len(v.questions) <= n /\ \E f \in Items(v) : Displays(v, w, d, f, ok)
      \/ Stays(v, w)
  BY <1>1, ThenActivateEffect
<1>3. CASE Stays(v, w)
  BY <1>3, StaysKeeps DEF Stays
<1>4. ASSUME Len(v.questions) <= n, NEW f \in Items(v), Displays(v, w, d, f, ok)
      PROVE  /\ w \in ViewType /\ Formed(w)
             /\ ok /\ n = 0 => Steady(w)
             /\ Items(w) = Items(v) /\ w.editors = v.editors /\ w.menu = v.menu
  <2>1. Displayable(v, f, ok) /\ f \in File
    BY <1>1, FormedIsDisplayable
  <2>2. n = 0 => AskedAlone(v.questions, f)
    <3>1. v.questions \in Seq(Question)
      BY DEF ViewType
    <3>2. n = 0 => DOMAIN v.questions = {}
      BY <1>4, <3>1
    <3>. QED BY <3>2 DEF AskedAlone
  <2>3. /\ Formed(w) /\ (ok /\ AskedAlone(v.questions, f) => Steady(w))
        /\ Items(w) = Items(v) /\ w.editors = v.editors \cup {f} /\ w.menu = v.menu
    BY <1>4, <2>1, DisplayKeeps
  <2>4. f \in v.editors /\ w \in ViewType
    BY <1>4 DEF Formed, Displays
  <2>. QED BY <2>2, <2>3, <2>4
<1>. QED BY <1>2, <1>3, <1>4

\* HandleActivateItemAction alone.
LEMMA ActivateKeeps ==
    ASSUME SourceAssumption, NEW v \in ViewType, NEW d \in DiskType, NEW ok \in BOOLEAN,
           Formed(v), v.questions = <<>>, NEW w, w = Activate(v, d, ok)
    PROVE  /\ w \in ViewType /\ Formed(w)
           /\ ok /\ Steady(v) => Steady(w)
           /\ Items(w) = Items(v) /\ w.editors = v.editors /\ w.menu = v.menu
<1>1. w = ThenActivate(v, d, 0, ok)
  BY DEF ThenActivate
<1>. QED BY <1>1, ThenActivateKeeps

\* SetSourceCodeText.
LEMMA LoadKeeps ==
    ASSUME NEW v \in ViewType, NEW d, DiskOK(d), NEW f \in File, Formed(v), NEW w, w = LoadText(v, d, f)
    PROVE  /\ w \in ViewType /\ Formed(w) /\ (Steady(v) => Steady(w))
           /\ Items(w) = Items(v) /\ w.editors = v.editors /\ w.menu = v.menu
<1>1. CASE v.current = None \/ ~Exists(d, f)
  BY <1>1 DEF LoadText
<1>2. CASE v.current # None /\ Exists(d, f)
  <2>1. v.current \in Items(v) /\ v.current \in File /\ d \in DiskType /\ d.text[f] \in Text
    BY <1>2, ItemsType DEF Formed, DiskOK, DiskType, MaybeText
  <2>2. TextChange(v, w, v.current, d.text[f], d.text[f], d.time[f], FALSE)
    BY <1>2, <2>1, LoadChange
  <2>3. w \in ViewType
    BY <2>2, Zenon DEF TextChange
  <2>. QED BY <2>1, <2>2, <2>3, TextChangeKeeps
<1>. QED BY <1>1, <1>2

\* A file that no question is about is closed.
LEMMA RemoveKeeps ==
    ASSUME SourceAssumption, NEW v \in ViewType, NEW d \in DiskType, NEW f \in File, NEW ok \in BOOLEAN,
           Formed(v), \A i \in DOMAIN v.questions : v.questions[i].file # f, v.questions # <<>> => ok,
           NEW w, w = RemoveEditor(RemoveItem(v, f), d, f, ok)
    PROVE  /\ w \in ViewType /\ Formed(w)
           /\ ok /\ v.questions = <<>> => Steady(w)
           /\ Items(w) = Items(v) \ {f} /\ w.editors = v.editors \ {f}
<1> DEFINE u == RemoveItem(v, f)
           x == Cleared(u, f)
<1>1. Unlists(v, u, f)
  BY RemoveItemEffect DEF Formed
<1>2. w = RemoveEditor(u, d, f, ok)
  OBVIOUS
<1>. HIDE DEF u
<1>3. u \in ViewType /\ Distinct(u.menu) /\ Items(u) = Items(v) \ {f}
      /\ u.last = (IF f \in Items(v) /\ v.last = f THEN None ELSE v.last)
      /\ u.editors = v.editors /\ u.current = v.current /\ u.questions = v.questions
      /\ u.text = v.text /\ u.clean = v.clean /\ u.modified = v.modified
  <2>1. u \in ViewType /\ u = [v EXCEPT !.menu = u.menu, !.last = u.last]
    BY <1>1, Zenon DEF Unlists
  <2>. QED BY <1>1, <2>1 DEF Unlists, ViewType
<1>4. Len(u.menu) <= NumFiles /\ Items(u) \subseteq u.editors \ {f}
  BY <1>3, MenuBound DEF Formed, ViewType
<1>5. Clears(u, x, f)
  BY <1>3, ClearedEffect
<1>6. \/ /\ u.menu = <<>> /\ w \in ViewType
         /\ w = [x EXCEPT !.mode = IF x.editors = {} THEN "empty" ELSE "source"]
      \/ \E g \in Items(u) : Displays(x, w, d, g, ok)
  BY <1>2, <1>3, <1>4, RemoveEditorEffect
<1>. HIDE DEF x
<1>7. /\ x \in ViewType /\ Items(x) = Items(u) /\ x.menu = u.menu /\ x.editors = v.editors \ {f}
      /\ x.current = (IF v.current = f THEN None ELSE v.current) /\ x.questions = v.questions
      /\ x.last = u.last
      /\ x.text = [v.text EXCEPT ![f] = Empty(f)] /\ x.clean = [v.clean EXCEPT ![f] = NoText]
      /\ x.modified = [v.modified EXCEPT ![f] = FALSE]
  BY <1>3, <1>5 DEF Clears, Items
<1>8. /\ Distinct(x.menu) /\ x.current \in Items(x) \cup {None} /\ AskedOf(x.questions, Items(x))
      /\ x.last \in Items(x) \cup {None} /\ Items(x) \subseteq x.editors
  BY <1>3, <1>4, <1>7 DEF Formed, AskedOf
<1>9. ClosedOK(x)
  BY <1>3, <1>7 DEF Formed, ClosedOK, ViewType
<1>10. CASE u.menu = <<>> /\ w = [x EXCEPT !.mode = IF x.editors = {} THEN "empty" ELSE "source"] /\ w \in ViewType
  <2>1. /\ w.menu = x.menu /\ w.editors = x.editors /\ w.selected = x.selected /\ w.last = x.last
        /\ w.current = x.current /\ w.questions = x.questions /\ w.text = x.text /\ w.clean = x.clean
        /\ w.modified = x.modified /\ w.mode = (IF x.editors = {} THEN "empty" ELSE "source")
    BY <1>7, <1>10 DEF ViewType
  <2>2. Items(w) = {} /\ Items(x) = {}
    BY <1>7, <1>10, <2>1 DEF Items
  <2>3. w.questions = <<>> /\ AskedAlone(w.questions, w.current)
    <3>1. x.questions \in Seq(Question)
      BY <1>7 DEF ViewType
    <3>2. DOMAIN x.questions = {}
      BY <1>8, <2>2 DEF AskedOf
    <3>3. x.questions = <<>>
      BY <3>1, <3>2, NoPlaces
    <3>. QED BY <2>1, <3>2, <3>3 DEF AskedAlone
  <2>4. ClosedOK(w)
    BY <1>9, <2>1, <2>2 DEF ClosedOK
  <2>5. Formed(w)
    BY <1>7, <1>8, <1>10, <2>1, <2>2, <2>3, <2>4 DEF Formed
  <2>6. Steady(w)
    BY <1>8, <2>1, <2>2, <2>3 DEF Steady
  <2>. QED BY <1>3, <1>7, <1>10, <2>1, <2>2, <2>5, <2>6
<1>11. ASSUME NEW g \in Items(u), Displays(x, w, d, g, ok)
       PROVE  /\ w \in ViewType /\ Formed(w) /\ (ok /\ v.questions = <<>> => Steady(w))
              /\ Items(w) = Items(v) \ {f} /\ w.editors = v.editors \ {f}
  <2>1. g \in File /\ w \in ViewType /\ x \in ViewType
    BY <1>3, <1>7, <1>11, ItemsType DEF Displays
  <2>2. Displayable(x, g, ok)
    BY <1>7, <1>8, <1>9 DEF Displayable
  <2>3. v.questions = <<>> => AskedAlone(x.questions, g)
    BY <1>7 DEF AskedAlone
  <2>4. /\ Formed(w) /\ (ok /\ AskedAlone(x.questions, g) => Steady(w))
        /\ Items(w) = Items(x) /\ w.editors = x.editors \cup {g}
    BY <1>11, <2>1, <2>2, DisplayKeeps
  <2>5. g \in x.editors
    BY <1>7, <1>8
  <2>. QED BY <1>3, <1>7, <2>1, <2>3, <2>4, <2>5
<1>. QED BY <1>6, <1>10, <1>11

-----------------------------------------------------------------------------
(* The steps.                                                               *)

\* The type of the build that runs.
BuildType ==
    [phase : {"idle", "running", "read"}, files : [File -> MaybeText], changed : SUBSET File]

\* The build that runs keeps running, and goes on with the moments.
Ticks == clock' \in Time /\ build' \in BuildType /\ (Building' <=> Building)

\* Time goes on, or not.
LEMMA TicksType ==
    ASSUME SourceAssumption, TypeOK, NEW S \in SUBSET File, Tick(S) \/ NoTick(S) \/ Still
    PROVE  Ticks /\ clock \in Nat /\ (Tick(S) => Now \in Time /\ clock' = Now)
<1>1. clock \in Nat /\ clock <= MaxClock /\ build \in BuildType
  BY DEF TypeOK, Time, BuildType, SourceAssumption
<1>2. clock < MaxClock => Now \in Time
  BY <1>1 DEF Now, Time, SourceAssumption
<1>3. ASSUME Still PROVE Ticks
  BY <1>1, <1>3 DEF Still, Ticks, TypeOK, Building
<1>4. ASSUME Tick(S) \/ NoTick(S) PROVE Ticks
  <2> DEFINE C == IF Building THEN build.changed \cup S ELSE build.changed
  <2>1. build' = [build EXCEPT !.changed = C] /\ C \in SUBSET File
    BY <1>1, <1>4 DEF Tick, NoTick, BuildType
  <2>. HIDE DEF C
  <2>2. build' \in BuildType /\ build'.phase = build.phase
    BY <1>1, <2>1 DEF BuildType
  <2>3. clock' \in Time
    BY <1>2, <1>4 DEF Tick, NoTick, TypeOK
  <2>. QED BY <2>2, <2>3 DEF Ticks, Building
<1>5. Tick(S) => Now \in Time /\ clock' = Now
  BY <1>2 DEF Tick
<1>. QED BY <1>1, <1>3, <1>4, <1>5

\* All of the invariant that has to do with the view.
ViewOK(v, canceled) == v \in ViewType /\ Formed(v) /\ (canceled \/ Steady(v))

\* What there is to show of a step.
LEMMA AnyStepKeeps ==
    ASSUME ViewOK(view', refused'), DiskOK(disk'), clock' \in Time, build' \in BuildType,
           built' \in [File -> MaybeText], touched' \in SUBSET File,
           leaving' \in BOOLEAN, refused' \in BOOLEAN, ghost' \in BOOLEAN,
           leaving' => ~Building', ghost' \/ view'.editors = Items(view'),
           Building' => ghost' \/ view'.menu # <<>>
    PROVE  FilesInv'
<1>1. TypeOK'
  BY DEF TypeOK, ViewOK, DiskOK, BuildType
<1>2. DiskOK(disk)' /\ Formed(view)' /\ (refused \/ Steady(view))' /\ EditorsMatchMenu'
  BY DEF ViewOK, EditorsMatchMenu
<1>3. BuildOK'
  BY DEF BuildOK
<1>. QED BY <1>1, <1>2, <1>3 DEF FilesInv

\* The same for a step while the build goes on.
LEMMA StepKeeps ==
    ASSUME FilesInv, Ticks, ViewOK(view', refused'), DiskOK(disk'),
           UNCHANGED <<built, touched>>, leaving' \in BOOLEAN, refused' \in BOOLEAN, ghost' \in BOOLEAN,
           leaving' => ~Building, ghost' \/ view'.editors = Items(view'),
           Building => ghost' \/ view'.menu # <<>>
    PROVE  FilesInv'
<1>1. clock' \in Time /\ build' \in BuildType /\ (Building' <=> Building)
      /\ built' \in [File -> MaybeText] /\ touched' \in SUBSET File
  BY DEF FilesInv, TypeOK, Ticks
<1>. QED BY <1>1, AnyStepKeeps

\* The same for a step that opens and closes no file.
SameItems(v, w) == Items(w) = Items(v) /\ w.editors = v.editors /\ w.menu = v.menu

\* Menu and editors stay, so only the view itself matters.
LEMMA SameItemsStep ==
    ASSUME FilesInv, Ticks, ViewOK(view', refused'), SameItems(view, view'), DiskOK(disk'),
           UNCHANGED <<built, touched, leaving, ghost>>, refused' \in BOOLEAN
    PROVE  FilesInv'
<1>1. /\ leaving' \in BOOLEAN /\ ghost' \in BOOLEAN /\ (leaving' => ~Building)
      /\ ghost' \/ view'.editors = Items(view')
      /\ Building => ghost' \/ view'.menu # <<>>
  BY DEF FilesInv, TypeOK, BuildOK, EditorsMatchMenu, SameItems
<1>. QED BY <1>1, StepKeeps

\* What the invariant says of the view and the disk.
LEMMA ViewFacts ==
    ASSUME SourceAssumption, FilesInv
    PROVE  /\ ViewOK(view, refused) /\ view \in ViewType /\ Formed(view) /\ DiskOK(disk) /\ disk \in DiskType
           /\ refused \in BOOLEAN /\ Items(view) \subseteq File
           /\ view.current # None => view.current \in Items(view) /\ view.current \in File
           /\ clock \in Nat /\ TypeOK
<1>1. Items(view) \subseteq File
  BY ItemsType DEF FilesInv, TypeOK
<1>2. clock \in Nat
  BY DEF FilesInv, TypeOK, Time
<1>3. view \in ViewType /\ Formed(view) /\ DiskOK(disk) /\ disk \in DiskType /\ refused \in BOOLEAN /\ TypeOK
  BY DEF FilesInv, TypeOK
<1>4. ViewOK(view, refused)
  BY <1>3 DEF FilesInv, ViewOK
<1>5. view.current # None => view.current \in Items(view) /\ view.current \in File
  BY <1>1, <1>3 DEF Formed
<1>. QED BY <1>1, <1>2, <1>3, <1>4, <1>5

\* A handler that changes one text.
LEMMA TextStep ==
    ASSUME NEW v, NEW canceled, ViewOK(v, canceled), NEW w, NEW f \in Items(v),
           NEW text, NEW clean, NEW recorded, NEW m \in BOOLEAN, TextChange(v, w, f, text, clean, recorded, m)
    PROVE  ViewOK(w, canceled) /\ SameItems(v, w)
<1>1. v \in ViewType /\ Formed(v) /\ (canceled \/ Steady(v))
  BY DEF ViewOK
<1>2. w \in ViewType
  BY Zenon DEF TextChange
<1>3. /\ Formed(w) /\ (Steady(v) => Steady(w))
      /\ Items(w) = Items(v) /\ w.editors = v.editors /\ w.menu = v.menu
  BY <1>1, TextChangeKeeps
<1>. QED BY <1>1, <1>2, <1>3 DEF ViewOK, SameItems

\* A file is written at some moment, or deleted.
LEMMA WriteKeeps ==
    ASSUME NEW d, DiskOK(d), NEW f \in File, NEW txt \in MaybeText, NEW t \in Time, t = 0 <=> txt = NoText
    PROVE  DiskOK(Write(d, f, txt, t))
<1>1. d.text \in [File -> MaybeText] /\ d.time \in [File -> Time]
  BY DEF DiskOK, DiskType
<1> DEFINE e == Write(d, f, txt, t)
<1>2. e.text = [d.text EXCEPT ![f] = txt] /\ e.time = [d.time EXCEPT ![f] = t] /\ e \in DiskType
  BY <1>1 DEF Write, DiskType
<1>. HIDE DEF e
<1>3. DiskOK(e)
  BY <1>1, <1>2 DEF DiskOK, Exists
<1>. QED BY <1>3 DEF e

\* A text is one.
LEMMA TextIsText == \A x \in Text : x # NoText
  BY DEF Text, NoText, File, None

\* A handler that opens and selects nothing.
LEMMA StaysStep ==
    ASSUME NEW v, NEW canceled, ViewOK(v, canceled), NEW w, Stays(v, w)
    PROVE  ViewOK(w, canceled) /\ SameItems(v, w)
<1>1. v \in ViewType /\ Formed(v) /\ (canceled \/ Steady(v))
  BY DEF ViewOK
<1>2. w \in ViewType
  BY Zenon DEF Stays
<1>3. /\ Formed(w) /\ (Steady(v) => Steady(w))
      /\ Items(w) = Items(v) /\ w.editors = v.editors /\ w.menu = v.menu
  BY <1>1, StaysKeeps
<1>. QED BY <1>1, <1>2, <1>3 DEF ViewOK, SameItems

\* Such are the changes of the settings and of the focus.
LEMMA QuietStays ==
    ASSUME NEW v \in ViewType
    PROVE  /\ \A p \in BOOLEAN : Stays(v, [v EXCEPT !.pending = p])
           /\ \A n \in 0 .. NumFiles + 2 : Stays(v, [v EXCEPT !.focus = n])
<1>1. ASSUME NEW p \in BOOLEAN PROVE Stays(v, [v EXCEPT !.pending = p])
  <2> DEFINE w == [v EXCEPT !.pending = p]
  <2>1. w \in ViewType
    BY DEF ViewType
  <2>. QED BY <2>1 DEF Stays, SameTexts, SameQuestions, ViewType
<1>2. ASSUME NEW n \in 0 .. NumFiles + 2 PROVE Stays(v, [v EXCEPT !.focus = n])
  <2> DEFINE w == [v EXCEPT !.focus = n]
  <2>1. w \in ViewType
    BY DEF ViewType
  <2>. QED BY <2>1 DEF Stays, SameTexts, SameQuestions, ViewType
<1>. QED BY <1>1, <1>2

\* The unsaved texts are saved or given up.
LEMMA UnsavedKeeps ==
    ASSUME NEW v, NEW canceled, ViewOK(v, canceled), NEW w \in ViewType, SamePlaces(v, w), w.text = v.text,
           \A f \in File : w.modified[f] => v.modified[f],
           \A f \in File : f \notin Unsaved(v) => w.clean[f] = v.clean[f]
    PROVE  ViewOK(w, canceled) /\ SameItems(v, w)
<1>1. SameItems(v, w)
  BY DEF SameItems, SamePlaces, Items
<1>2. ClosedOK(w)
  BY <1>1 DEF ClosedOK, ViewOK, Formed, Unsaved, SameItems
<1>3. Formed(w)
  BY <1>1, <1>2 DEF ViewOK, Formed, SamePlaces, SameItems
<1>4. Steady(v) => Steady(w)
  BY <1>1 DEF Steady, SamePlaces, SameItems
<1>. QED BY <1>1, <1>3, <1>4 DEF ViewOK

-----------------------------------------------------------------------------
(* The steps of the user that open and close no file.                       *)

\* Typing.
LEMMA TypeStep ==
    ASSUME SourceAssumption, FilesInv, Type
    PROVE  FilesInv'
<1> DEFINE c == view.current
<1>1. c \in Items(view) /\ c \in File
  BY ViewFacts DEF Type
<1>2. Tick({c}) /\ {c} \in SUBSET File
  BY <1>1 DEF Type, TickEarly
<1>3. Ticks /\ Now \in Time
  BY <1>2, TicksType, ViewFacts
<1>4. TextChange(view, view', c, [view.text[c] EXCEPT !.at = Now], view.clean[c], view.recorded[c], TRUE)
  BY <1>1, <1>3, TypeChange, ViewFacts DEF Type
<1>5. ViewOK(view', refused) /\ SameItems(view, view')
  BY <1>1, <1>4, TextStep, ViewFacts
<1>. QED BY <1>3, <1>5, SameItemsStep, ViewFacts DEF Type, history

\* Undoing.
LEMMA UndoStep ==
    ASSUME SourceAssumption, FilesInv, Undo
    PROVE  FilesInv'
<1> DEFINE c == view.current
<1>1. c \in Items(view) /\ c \in File
  BY ViewFacts DEF Undo
<1>2. NoTick({c}) /\ {c} \in SUBSET File
  BY <1>1 DEF Undo
<1>3. Ticks
  BY <1>2, TicksType, ViewFacts
<1>4. TextChange(view, view', c, view.clean[c], view.clean[c], view.recorded[c], FALSE)
  BY <1>1, UndoChange, ViewFacts DEF Undo
<1>5. ViewOK(view', refused) /\ SameItems(view, view')
  BY <1>1, <1>4, TextStep, ViewFacts
<1>. QED BY <1>3, <1>5, SameItemsStep, ViewFacts DEF Undo, history

\* SaveCurrentFile, whichever path it writes to.
LEMMA SaveCurrentFileStep ==
    ASSUME SourceAssumption, FilesInv, SaveCurrentFile
    PROVE  FilesInv'
<1> DEFINE c == view.current
           p == view.selected
<1>1. c \in Items(view) /\ c \in File /\ p \in File
  BY ViewFacts DEF SaveCurrentFile, ViewType, MaybeFile
<1>2. Tick({c, p}) /\ {c, p} \in SUBSET File
  BY <1>1 DEF SaveCurrentFile
<1>3. Ticks /\ Now \in Time /\ Now # 0
  BY <1>2, TicksType, ViewFacts DEF Now
<1>4. TextChange(view, view', c, view.text[c], view.text[c], Now, FALSE)
  BY <1>1, <1>3, SavedChange, ViewFacts DEF SaveCurrentFile
<1>5. ViewOK(view', refused) /\ SameItems(view, view')
  BY <1>1, <1>4, TextStep, ViewFacts
<1>6. view.text[c] \in Text
  BY <1>1, ViewFacts DEF ViewType
<1>7. DiskOK(disk')
  BY <1>1, <1>3, <1>6, TextIsText, WriteKeeps, ViewFacts DEF SaveCurrentFile, MaybeText
<1>. QED BY <1>3, <1>5, <1>7, SameItemsStep, ViewFacts DEF SaveCurrentFile, history

\* The settings are opened in one of two ways.
LEMMA OpenSettingsStep ==
    ASSUME SourceAssumption, FilesInv, OpenSettingsButton \/ OpenSettingsAction
    PROVE  FilesInv'
<1>1. Still /\ UNCHANGED <<disk, leaving, history>>
  BY DEF OpenSettingsButton, OpenSettingsAction
<1>2. Ticks
  BY <1>1, TicksType, ViewFacts
<1>3. CASE OpenSettingsButton
  <2>1. Stays(view, view')
    BY <1>3, SettingsEffect, ViewFacts, FormedIsDisplayable DEF OpenSettingsButton
  <2>2. ViewOK(view', refused) /\ SameItems(view, view')
    BY <2>1, StaysStep, ViewFacts
  <2>. QED BY <1>1, <1>2, <2>2, SameItemsStep, ViewFacts DEF history
<1>4. CASE OpenSettingsAction
  <2>1. view' = [view EXCEPT !.mode = "settings", !.selected = None]
    BY <1>4 DEF OpenSettingsAction
  <2>2. view' \in ViewType
    BY <2>1, ViewFacts DEF ViewType, Mode, MaybeFile
  <2>3. /\ view'.menu = view.menu /\ view'.editors = view.editors /\ view'.selected = None /\ view'.last = view.last
        /\ view'.current = view.current /\ view'.mode = "settings" /\ view'.questions = view.questions
        /\ view'.text = view.text /\ view'.clean = view.clean /\ view'.modified = view.modified
        /\ Items(view') = Items(view)
    BY <2>1, ViewFacts DEF ViewType, Items
  <2>4. Formed(view')
    BY <2>3, ViewFacts DEF Formed, ClosedOK
  <2>5. Steady(view) => Steady(view')
    BY <2>3 DEF Steady
  <2>6. ViewOK(view', refused) /\ SameItems(view, view')
    BY <2>2, <2>3, <2>4, <2>5, ViewFacts DEF ViewOK, SameItems
  <2>. QED BY <1>1, <1>2, <2>6, SameItemsStep, ViewFacts DEF history
<1>. QED BY <1>3, <1>4

\* A setting is changed.
LEMMA ChangeSettingStep ==
    ASSUME SourceAssumption, FilesInv, ChangeSetting
    PROVE  FilesInv'
<1>1. Still /\ UNCHANGED <<disk, leaving, history>>
  BY DEF ChangeSetting
<1>2. Ticks
  BY <1>1, TicksType, ViewFacts
<1>3. Stays(view, view')
  BY QuietStays, ViewFacts DEF ChangeSetting
<1>4. ViewOK(view', refused) /\ SameItems(view, view')
  BY <1>3, StaysStep, ViewFacts
<1>. QED BY <1>1, <1>2, <1>4, SameItemsStep, ViewFacts DEF history

\* The focus stays on an entry of the menu.
LEMMA MoveFocusStep ==
    ASSUME SourceAssumption, FilesInv, NEW step \in {1, 2}, MoveFocus(step)
    PROVE  FilesInv'
<1> DEFINE n == Len(view.menu) + 3
           m == IF step = 1 THEN (IF view.focus + 1 >= n THEN 0 ELSE view.focus + 1)
                            ELSE (IF view.focus = 0 THEN n - 1 ELSE view.focus - 1)
<1>1. Still /\ UNCHANGED <<disk, leaving, history>> /\ view' = [view EXCEPT !.focus = m]
  BY DEF MoveFocus
<1>2. Ticks
  BY <1>1, TicksType, ViewFacts
<1>3. Len(view.menu) \in Nat /\ Len(view.menu) <= NumFiles /\ view.focus \in 0 .. NumFiles + 2 /\ NumFiles \in Nat
  BY ViewFacts, FormedIsDisplayable DEF ViewType, SourceAssumption
<1>4. m \in 0 .. NumFiles + 2
  BY <1>3
<1>. HIDE DEF m
<1>5. Stays(view, view')
  BY <1>1, <1>4, QuietStays, ViewFacts
<1>6. ViewOK(view', refused) /\ SameItems(view, view')
  BY <1>5, StaysStep, ViewFacts
<1>. QED BY <1>1, <1>2, <1>6, SameItemsStep, ViewFacts DEF history

\* A file is shown whose editor there is.
LEMMA DisplayStep ==
    ASSUME SourceAssumption, NEW v \in ViewType, Formed(v), NEW d \in DiskType, NEW f \in Items(v),
           v.questions = <<>>, NEW w, w = Display(v, d, f, TRUE)
    PROVE  w \in ViewType /\ Formed(w) /\ Steady(w) /\ SameItems(v, w)
<1>1. Displayable(v, f, TRUE) /\ Len(v.menu) <= NumFiles /\ f \in File
  BY FormedIsDisplayable
<1>2. Displays(v, w, d, f, TRUE)
  BY <1>1, DisplayEffect
<1>3. AskedAlone(v.questions, f)
  BY DEF AskedAlone
<1>4. /\ Formed(w) /\ (AskedAlone(v.questions, f) => Steady(w))
      /\ Items(w) = Items(v) /\ w.editors = v.editors \cup {f} /\ w.menu = v.menu
  BY <1>1, <1>2, DisplayKeeps
<1>5. f \in v.editors
  BY DEF Formed
<1>6. w \in ViewType
  BY <1>2, Zenon DEF Displays
<1>. QED BY <1>3, <1>4, <1>5, <1>6 DEF SameItems

\* What CanSwitchEditMode can be answered is yes or no.
LEMMA AnswersType ==
    ASSUME NEW v
    PROVE  Answers(v) \subseteq BOOLEAN /\ ActivateAnswers(v) \subseteq BOOLEAN /\ RemoveAnswers(v) \subseteq BOOLEAN
BY DEF Answers, ActivateAnswers, RemoveAnswers

\* Both handlers of a click on a file of the menu.
LEMMA ClickItemStep ==
    ASSUME SourceAssumption, FilesInv, NEW f \in File, ClickItem(f)
    PROVE  FilesInv'
<1>1. /\ f \in Items(view) /\ view.questions = <<>>
      /\ Still /\ UNCHANGED <<disk, leaving, built, touched, ghost>>
  BY DEF ClickItem, Free
<1>2. Ticks
  BY <1>1, TicksType, ViewFacts
<1> DEFINE x == [view EXCEPT !.pending = FALSE]
           W(first) == IF first THEN Display(x, disk, f, TRUE) ELSE view
<1>3. PICK first \in BOOLEAN, second \in BOOLEAN :
         /\ view' = ThenActivate(W(first), disk, 0, second)
         /\ refused' = (refused \/ ~first \/ ~second)
  <2>1. PICK first \in BOOLEAN :
           \E second \in ActivateAnswers(W(first)) :
              /\ view' = ThenActivate(W(first), disk, 0, second)
              /\ refused' = (refused \/ ~first \/ ~second)
    BY DEF ClickItem
  <2>. QED BY <2>1, AnswersType
<1>4. x \in ViewType /\ Formed(x) /\ x.questions = <<>> /\ SameItems(view, x)
  <2>1. Stays(view, x)
    BY QuietStays, ViewFacts
  <2>2. ViewOK(x, refused) /\ SameItems(view, x)
    BY <2>1, StaysStep, ViewFacts
  <2>3. x.questions = <<>>
    BY <1>1, ViewFacts DEF ViewType
  <2>. QED BY <2>2, <2>3 DEF ViewOK
<1> DEFINE w == W(first)
<1>5. w \in ViewType /\ Formed(w) /\ (refused \/ Steady(w)) /\ SameItems(view, w)
  <2>1. CASE first
    <3> HIDE DEF x
    <3>1. w = Display(x, disk, f, TRUE) /\ f \in Items(x)
      BY <1>1, <1>4, <2>1 DEF SameItems
    <3>2. w \in ViewType /\ Formed(w) /\ Steady(w) /\ SameItems(x, w)
      BY <1>4, <3>1, DisplayStep, ViewFacts
    <3>. QED BY <1>4, <3>2 DEF SameItems
  <2>2. CASE ~first
    BY <2>2, ViewFacts DEF ViewOK, SameItems
  <2>. QED BY <2>1, <2>2
<1>. HIDE DEF W
<1>6. /\ view' \in ViewType /\ Formed(view') /\ (second /\ Steady(w) => Steady(view'))
      /\ Items(view') = Items(w) /\ view'.editors = w.editors /\ view'.menu = w.menu
  <2>1. view' = ThenActivate(w, disk, 0, second)
    BY <1>3
  <2>. HIDE DEF w
  <2>2. 0 \in Nat
    OBVIOUS
  <2>. QED BY <1>5, <2>1, <2>2, ThenActivateKeeps, ViewFacts
<1>7. ViewOK(view', refused') /\ refused' \in BOOLEAN /\ SameItems(view, view')
  BY <1>3, <1>5, <1>6, ViewFacts DEF ViewOK, SameItems
<1>. QED BY <1>1, <1>2, <1>7, SameItemsStep, ViewFacts

\* The Return key.
LEMMA PressReturnStep ==
    ASSUME SourceAssumption, FilesInv, PressReturn
    PROVE  FilesInv'
<1>1. view.questions = <<>> /\ Still /\ UNCHANGED <<disk, leaving, built, touched, ghost>>
  BY DEF PressReturn, Free
<1>2. Ticks
  BY <1>1, TicksType, ViewFacts
<1>3. PICK ok \in BOOLEAN : view' = Activate(view, disk, ok) /\ refused' = (refused \/ ~ok)
  BY AnswersType DEF PressReturn
<1>4. /\ view' \in ViewType /\ Formed(view') /\ (ok /\ Steady(view) => Steady(view'))
      /\ Items(view') = Items(view) /\ view'.editors = view.editors /\ view'.menu = view.menu
  BY <1>1, <1>3, ActivateKeeps, ViewFacts
<1>5. ViewOK(view', refused') /\ refused' \in BOOLEAN /\ SameItems(view, view')
  BY <1>3, <1>4, ViewFacts DEF ViewOK, SameItems
<1>. QED BY <1>1, <1>2, <1>5, SameItemsStep, ViewFacts

-----------------------------------------------------------------------------
(* Saving or dropping everything.                                           *)

\* All unsaved files are written.
LEMMA WriteAllKeeps ==
    ASSUME NEW v \in ViewType, NEW d, DiskOK(d), NEW t \in Time, t # 0
    PROVE  DiskOK(WriteAll(v, d, t))
<1> DEFINE X == [f \in File |-> IF f \in Unsaved(v) THEN v.text[f] ELSE d.text[f]]
           T == [f \in File |-> IF f \in Unsaved(v) THEN t ELSE d.time[f]]
<1>1. d.text \in [File -> MaybeText] /\ d.time \in [File -> Time] /\ v.text \in [File -> Text]
  BY DEF DiskOK, DiskType, ViewType
<1>2. X \in [File -> MaybeText] /\ T \in [File -> Time]
  BY <1>1 DEF MaybeText
<1>3. \A f \in File : T[f] # 0 <=> X[f] # NoText
  BY <1>1, TextIsText DEF DiskOK, Exists
<1>. HIDE DEF X, T
<1>4. WriteAll(v, d, t) = [text |-> X, time |-> T]
  BY DEF WriteAll, X, T
<1>. QED BY <1>2, <1>3, <1>4 DEF DiskOK, DiskType, Exists

\* SaveSourceFile for each unsaved file.
LEMMA SavedAllKeeps ==
    ASSUME NEW v, NEW canceled, ViewOK(v, canceled), NEW t \in Time, NEW w, w = SavedAll(v, t)
    PROVE  ViewOK(w, canceled) /\ SameItems(v, w)
<1>1. v \in ViewType
  BY DEF ViewOK
<1>2. /\ w \in ViewType /\ SamePlaces(v, w) /\ w.text = v.text
      /\ \A f \in File : /\ w.clean[f] = IF f \in Unsaved(v) THEN v.text[f] ELSE v.clean[f]
                         /\ w.modified[f] <=> v.modified[f] /\ f \notin Unsaved(v)
  BY <1>1, SavedAllChange
<1>. QED BY <1>2, UnsavedKeeps

\* ShowSaveDialog, however it is answered.
LEMMA SaveEverythingKeeps ==
    ASSUME SourceAssumption, FilesInv, NEW answer \in BOOLEAN, SaveEverything(answer)
    PROVE  ViewOK(view', refused) /\ SameItems(view, view') /\ Ticks /\ DiskOK(disk')
<1>1. CASE answer /\ Unsaved(view) # {}
  <2>1. Tick(Unsaved(view)) /\ Unsaved(view) \in SUBSET File
        /\ disk' = WriteAll(view, disk, Now)
        /\ view' = [SavedAll(view, Now) EXCEPT !.pending = FALSE]
    BY <1>1, ViewFacts DEF SaveEverything, Unsaved, ViewType
  <2>2. Ticks /\ Now \in Time /\ Now # 0
    BY <2>1, TicksType, ViewFacts DEF Now
  <2>3. DiskOK(disk')
    BY <2>1, <2>2, WriteAllKeeps, ViewFacts
  <2> DEFINE w == SavedAll(view, Now)
  <2>4. ViewOK(w, refused) /\ SameItems(view, w)
    BY <2>2, SavedAllKeeps, ViewFacts
  <2>. HIDE DEF w
  <2>5. view' = [w EXCEPT !.pending = FALSE]
    BY <2>1 DEF w
  <2>6. Stays(w, view')
    BY <2>4, <2>5, QuietStays DEF ViewOK
  <2>7. ViewOK(view', refused) /\ SameItems(w, view')
    BY <2>4, <2>6, StaysStep
  <2>. QED BY <2>2, <2>3, <2>4, <2>7 DEF SameItems
<1>2. CASE ~(answer /\ Unsaved(view) # {})
  <2>1. Still /\ disk' = disk
        /\ view' = IF answer \/ view.pending THEN [view EXCEPT !.pending = FALSE] ELSE Discarded(view)
    BY <1>2 DEF SaveEverything
  <2>2. Ticks
    BY <2>1, TicksType, ViewFacts
  <2>3. CASE answer \/ view.pending
    <3>1. Stays(view, view')
      BY <2>1, <2>3, QuietStays, ViewFacts
    <3>. QED BY <2>1, <2>2, <3>1, StaysStep, ViewFacts
  <2>4. CASE ~(answer \/ view.pending)
    <3>1. /\ view' \in ViewType /\ SamePlaces(view, view') /\ view'.text = view.text
          /\ \A f \in File : /\ view'.clean[f] = IF f \in Unsaved(view) THEN view.text[f] ELSE view.clean[f]
                             /\ view'.modified[f] <=> view.modified[f] /\ f \notin Unsaved(view)
      BY <2>1, <2>4, DiscardedChange, ViewFacts
    <3>2. ViewOK(view', refused) /\ SameItems(view, view')
      BY <3>1, UnsavedKeeps, ViewFacts
    <3>. QED BY <2>1, <2>2, <3>2, ViewFacts
  <2>. QED BY <2>3, <2>4
<1>. QED BY <1>1, <1>2

\* HandleExitEvent, when RGA stays.
LEMMA ExitRefusedStep ==
    ASSUME SourceAssumption, FilesInv, ExitRefused
    PROVE  FilesInv'
<1>1. PICK answer \in BOOLEAN : SaveEverything(answer)
  BY DEF ExitRefused
<1>2. ViewOK(view', refused) /\ SameItems(view, view') /\ Ticks /\ DiskOK(disk')
  BY <1>1, SaveEverythingKeeps
<1>3. refused' = TRUE /\ UNCHANGED <<leaving, built, touched, ghost>>
  BY DEF ExitRefused
<1>4. ViewOK(view', refused') /\ refused' \in BOOLEAN
  BY <1>2, <1>3 DEF ViewOK
<1>. QED BY <1>2, <1>3, <1>4, SameItemsStep

\* HandleBackToHomeEvent.
LEMMA GoHomeStep ==
    ASSUME SourceAssumption, FilesInv, GoHome
    PROVE  FilesInv'
<1>1. PICK answer \in BOOLEAN : SaveEverything(answer)
  BY DEF GoHome
<1>2. ViewOK(view', refused) /\ SameItems(view, view') /\ Ticks /\ DiskOK(disk')
  BY <1>1, SaveEverythingKeeps
<1>3. leaving' = TRUE /\ ~Building /\ UNCHANGED <<built, touched, refused, ghost>>
  BY DEF GoHome, history
<1>4. ghost' \/ view'.editors = Items(view')
  BY <1>2, <1>3 DEF FilesInv, EditorsMatchMenu, SameItems
<1>5. refused' \in BOOLEAN /\ ghost' \in BOOLEAN /\ leaving' \in BOOLEAN
  BY <1>3 DEF FilesInv, TypeOK
<1>. QED BY <1>2, <1>3, <1>4, <1>5, StepKeeps

-----------------------------------------------------------------------------
(* Files that are added and closed.                                         *)

\* The view v becomes z when a file becomes an item and is shown.
Joins(v, z, f, ok) ==
    /\ z \in ViewType /\ Formed(z) /\ (ok => Steady(z))
    /\ Items(z) = Items(v) \cup {f} /\ z.editors = v.editors \cup {f} /\ z.menu # <<>>

\* A file becomes an item, and its text is read.
LEMMA NewItemKeeps ==
    ASSUME SourceAssumption, NEW v \in ViewType, Formed(v), v.questions = <<>>, NEW d, DiskOK(d),
           NEW f \in File, NEW ok \in BOOLEAN, NEW w, Lists(v, w, f)
    PROVE  Joins(v, LoadText(Display(w, d, f, ok), d, f), f, ok)
<1> DEFINE x == Display(w, d, f, ok)
           z == LoadText(x, d, f)
<1>2. w \in ViewType /\ Distinct(w.menu) /\ Items(w) = Items(v) \cup {f}
      /\ w.editors = v.editors /\ w.current = v.current /\ w.questions = v.questions /\ w.text = v.text
      /\ w.clean = v.clean /\ w.modified = v.modified
  <2>1. w \in ViewType /\ w = [v EXCEPT !.menu = w.menu, !.correlated = v.correlated \ {f}, !.pending = w.pending]
    BY Zenon DEF Lists
  <2>. QED BY <2>1 DEF Lists, ViewType
<1>3. f \in Items(w) /\ Len(w.menu) <= NumFiles /\ d \in DiskType
  BY <1>2, MenuBound DEF ViewType, DiskOK
<1>4. Displayable(w, f, ok)
  <2>1. AskedOf(w.questions, Items(w)) /\ ClosedOK(w)
    BY <1>2 DEF AskedOf, ClosedOK, Formed
  <2>. QED BY <1>2, <1>3, <2>1 DEF Displayable, Formed
<1>5. Displays(w, x, d, f, ok)
  BY <1>2, <1>3, DisplayEffect
<1>6. x \in ViewType
  BY <1>5, Zenon DEF Displays
<1>7. AskedAlone(w.questions, f)
  BY <1>2 DEF AskedAlone
<1>. HIDE DEF x
<1>8. /\ Formed(x) /\ (ok /\ AskedAlone(w.questions, f) => Steady(x))
      /\ Items(x) = Items(w) /\ x.editors = w.editors \cup {f} /\ x.menu = w.menu
  <2>1. w \in ViewType
    BY <1>2
  <2>2. d \in DiskType
    BY <1>3
  <2>. QED BY <2>1, <2>2, <1>4, <1>5, DisplayKeeps
<1>10. /\ z \in ViewType /\ Formed(z) /\ (Steady(x) => Steady(z))
       /\ Items(z) = Items(x) /\ z.editors = x.editors /\ z.menu = x.menu
  BY <1>6, <1>8, LoadKeeps
<1>. HIDE DEF z
<1>11. w.menu # <<>>
  BY <1>2, <1>3, ItemsType
<1>12. Joins(v, z, f, ok)
  BY <1>2, <1>7, <1>8, <1>10, <1>11 DEF Joins
<1>. QED BY <1>12 DEF z, x

\* A file that is dropped on the window.
LEMMA AddFileStep ==
    ASSUME SourceAssumption, FilesInv, NEW f \in File, AddFile(f)
    PROVE  FilesInv'
<1> DEFINE w == [view EXCEPT !.menu = Append(@, f), !.correlated = @ \ {f}]
           x == [view EXCEPT !.menu = Append(view.menu, f), !.correlated = view.correlated \ {f},
                             !.pending = view.pending]
<1>1. f \notin Items(view) /\ view.questions = <<>> /\ NoTick({f})
      /\ UNCHANGED <<disk, leaving, built, touched, ghost>>
  BY DEF AddFile, Free
<1>2. PICK ok \in BOOLEAN : view' = LoadText(Display(w, disk, f, ok), disk, f) /\ refused' = (refused \/ ~ok)
  BY AnswersType DEF AddFile
<1>3. Ticks
  BY <1>1, TicksType, ViewFacts
<1>4. w = x /\ view.pending \in BOOLEAN
  BY ViewFacts DEF ViewType
<1>. HIDE DEF w, x
<1>5. Lists(view, x, f)
  BY <1>1, <1>4, ListEffect, ViewFacts DEF x, Formed
<1>6. /\ view' \in ViewType /\ Formed(view') /\ (ok => Steady(view'))
      /\ Items(view') = Items(view) \cup {f} /\ view'.editors = view.editors \cup {f} /\ view'.menu # <<>>
  <2>1. Joins(view, LoadText(Display(x, disk, f, ok), disk, f), f, ok)
    BY <1>1, <1>5, NewItemKeeps, ViewFacts
  <2>2. Joins(view, view', f, ok)
    BY <1>2, <1>4, <2>1
  <2>. QED BY <2>2 DEF Joins
<1>7. ViewOK(view', refused') /\ refused' \in BOOLEAN
  BY <1>2, <1>6, ViewFacts DEF ViewOK
<1>8. leaving' \in BOOLEAN /\ ghost' \in BOOLEAN /\ (leaving' => ~Building) /\ (ghost' \/ view'.editors = Items(view'))
  BY <1>1, <1>6 DEF FilesInv, TypeOK, BuildOK, EditorsMatchMenu
<1>. QED BY <1>1, <1>3, <1>6, <1>7, <1>8, StepKeeps, ViewFacts

\* A new file.
LEMMA CreateFileStep ==
    ASSUME SourceAssumption, FilesInv, NEW f \in File, CreateFile(f)
    PROVE  FilesInv'
<1> DEFINE w == [view EXCEPT !.menu = Append(@, f), !.correlated = @ \ {f}, !.pending = FALSE]
           x == [view EXCEPT !.menu = Append(view.menu, f), !.correlated = view.correlated \ {f}, !.pending = FALSE]
           d == Write(disk, f, [of |-> f, at |-> Now], Now)
<1>1. f \notin Items(view) /\ view.questions = <<>> /\ Tick({f}) /\ disk' = d
      /\ UNCHANGED <<leaving, built, touched, refused, ghost>>
  BY DEF CreateFile, Free, history
<1>2. view' = LoadText(Display(w, d, f, TRUE), d, f)
  BY DEF CreateFile
<1>3. Ticks /\ Now \in Time /\ Now # 0
  BY <1>1, TicksType, ViewFacts DEF Now
<1>4. w = x
  OBVIOUS
<1>5. DiskOK(d)
  <2>1. [of |-> f, at |-> Now] \in Text
    BY <1>3 DEF Text
  <2>. QED BY <1>3, <2>1, TextIsText, WriteKeeps, ViewFacts DEF MaybeText
<1>. HIDE DEF w, x, d
<1>6. Lists(view, x, f)
  BY <1>1, ListEffect, ViewFacts DEF x, Formed
<1>7. /\ view' \in ViewType /\ Formed(view') /\ Steady(view')
      /\ Items(view') = Items(view) \cup {f} /\ view'.editors = view.editors \cup {f} /\ view'.menu # <<>>
  <2>1. TRUE \in BOOLEAN
    OBVIOUS
  <2>2. Joins(view, LoadText(Display(x, d, f, TRUE), d, f), f, TRUE)
    BY <1>1, <1>5, <1>6, <2>1, NewItemKeeps, ViewFacts
  <2>3. Joins(view, view', f, TRUE)
    BY <1>2, <1>4, <2>2
  <2>. QED BY <2>3 DEF Joins
<1>8. ViewOK(view', refused') /\ refused' \in BOOLEAN
  BY <1>1, <1>7, ViewFacts DEF ViewOK
<1>9. leaving' \in BOOLEAN /\ ghost' \in BOOLEAN /\ (leaving' => ~Building) /\ (ghost' \/ view'.editors = Items(view'))
  BY <1>1, <1>7 DEF FilesInv, TypeOK, BuildOK, EditorsMatchMenu
<1>. QED BY <1>1, <1>3, <1>5, <1>7, <1>8, <1>9, StepKeeps

\* RemoveInputFile, for a file that no question is about.
LEMMA ForgetKeeps ==
    ASSUME SourceAssumption, NEW v \in ViewType, NEW d \in DiskType, NEW f \in File, NEW ok \in BOOLEAN,
           Formed(v), \A i \in DOMAIN v.questions : v.questions[i].file # f, v.questions # <<>> => ok,
           NEW w, w = RemoveInputFile(v, d, f, ok)
    PROVE  /\ w \in ViewType /\ Formed(w)
           /\ ok /\ v.questions = <<>> => Steady(w)
           /\ Items(w) = Items(v) \ {f} /\ w.editors = v.editors \ {f}
<1> DEFINE C == v.correlated \ {f}
           x == [v EXCEPT !.correlated = C]
<1>1. w = RemoveEditor(RemoveItem(x, f), d, f, ok)
  BY DEF RemoveInputFile
<1>2. C \in SUBSET File
  BY DEF ViewType
<1>. HIDE DEF C
<1>3. x \in ViewType
  BY <1>2 DEF ViewType
<1>4. /\ x.menu = v.menu /\ x.editors = v.editors /\ x.last = v.last /\ x.current = v.current
      /\ x.selected = v.selected /\ x.questions = v.questions /\ x.text = v.text /\ x.clean = v.clean
      /\ x.modified = v.modified
  BY DEF ViewType
<1>. HIDE DEF x
<1>5. Items(x) = Items(v) /\ ClosedOK(x)
  BY <1>4 DEF Items, ClosedOK, Formed
<1>6. Formed(x)
  BY <1>4, <1>5 DEF Formed
<1>7. (\A i \in DOMAIN x.questions : x.questions[i].file # f) /\ (x.questions # <<>> => ok)
  BY <1>4
<1>8. /\ w \in ViewType /\ Formed(w)
      /\ ok /\ x.questions = <<>> => Steady(w)
      /\ Items(w) = Items(x) \ {f} /\ w.editors = x.editors \ {f}
  BY <1>1, <1>3, <1>6, <1>7, RemoveKeeps
<1>. QED BY <1>4, <1>5, <1>8

\* HandleMenuItemCloseButtonClicked.
LEMMA CloseItemStep ==
    ASSUME SourceAssumption, FilesInv, NEW f \in File, CloseItem(f)
    PROVE  FilesInv'
<1>1. /\ f \in Items(view) /\ view.questions = <<>> /\ ghost' = (ghost \/ Building)
      /\ ~leaving /\ UNCHANGED <<leaving, built, touched>>
  BY DEF CloseItem, Free
<1> DEFINE D(save) == IF save THEN Write(disk, f, view.text[f], Now) ELSE disk
           W(save) == IF save THEN Saved(view, f, Now) ELSE view
<1>2. PICK save \in BOOLEAN, ok \in BOOLEAN :
         /\ disk' = D(save) /\ (IF save THEN Tick({f}) ELSE NoTick({f}))
         /\ view' = RemoveInputFile(W(save), D(save), f, ok) /\ refused' = (refused \/ ~ok)
  <2>1. PICK save \in BOOLEAN :
           /\ disk' = D(save) /\ (IF save THEN Tick({f}) ELSE NoTick({f}))
           /\ \E ok \in RemoveAnswers(view) :
                 view' = RemoveInputFile(W(save), D(save), f, ok) /\ refused' = (refused \/ ~ok)
    BY DEF CloseItem
  <2>. QED BY <2>1, AnswersType
<1>3. Ticks /\ (save => Now \in Time /\ Now # 0)
  BY <1>2, TicksType, ViewFacts DEF Now
<1>4. ViewOK(W(save), refused) /\ SameItems(view, W(save)) /\ W(save).questions = <<>>
  <2>1. CASE save
    <3>1. TextChange(view, W(save), f, view.text[f], view.text[f], Now, FALSE)
      BY <1>3, <2>1, SavedChange, ViewFacts
    <3>. HIDE DEF W
    <3>2. W(save).questions = <<>>
      BY <1>1, <3>1 DEF TextChange, SamePlaces
    <3>. QED BY <1>1, <3>1, <3>2, TextStep, ViewFacts
  <2>2. CASE ~save
    BY <1>1, <2>2, ViewFacts DEF SameItems
  <2>. QED BY <2>1, <2>2
<1>5. DiskOK(D(save)) /\ D(save) \in DiskType
  <2>1. CASE save
    <3>1. view.text[f] \in Text
      BY ViewFacts DEF ViewType
    <3>2. DiskOK(Write(disk, f, view.text[f], Now))
      BY <1>3, <2>1, <3>1, TextIsText, WriteKeeps, ViewFacts DEF MaybeText
    <3>. QED BY <2>1, <3>2 DEF DiskOK
  <2>2. CASE ~save
    BY <2>2, ViewFacts
  <2>. QED BY <2>1, <2>2
<1> DEFINE w == W(save)
           d == D(save)
<1>6. /\ view' = RemoveInputFile(w, d, f, ok) /\ disk' = d /\ refused' = (refused \/ ~ok)
      /\ w \in ViewType /\ Formed(w) /\ d \in DiskType /\ DiskOK(d) /\ w.questions = <<>>
      /\ Items(w) = Items(view) /\ w.editors = view.editors
  BY <1>2, <1>4, <1>5 DEF ViewOK, SameItems
<1>. HIDE DEF w, d
<1>7. /\ view' \in ViewType /\ Formed(view') /\ (ok => Steady(view'))
      /\ Items(view') = Items(w) \ {f} /\ view'.editors = w.editors \ {f}
  BY <1>6, ForgetKeeps
<1>8. ViewOK(view', refused') /\ refused' \in BOOLEAN
  BY <1>6, <1>7, ViewFacts DEF ViewOK
<1>9. /\ leaving' \in BOOLEAN /\ ghost' \in BOOLEAN /\ (leaving' => ~Building)
      /\ ghost' \/ view'.editors = Items(view')
      /\ Building => ghost'
  BY <1>1, <1>6, <1>7 DEF FilesInv, TypeOK, EditorsMatchMenu, Building
<1>. QED BY <1>1, <1>3, <1>6, <1>8, <1>9, StepKeeps

\* One round of the loop of RequestRemoveAllFiles.
LEMMA CloseNextStep ==
    ASSUME SourceAssumption, FilesInv, CloseNext
    PROVE  FilesInv'
<1>1. leaving /\ view.questions = <<>> /\ Still /\ UNCHANGED <<disk, leaving, built, touched, ghost>>
  BY DEF CloseNext
<1>2. Ticks
  BY <1>1, TicksType, ViewFacts
<1>3. PICK f \in File, ok \in BOOLEAN :
         view' = RemoveEditor(RemoveItem(view, f), disk, f, ok) /\ refused' = (refused \/ ~ok)
  <2>1. view.editors \subseteq File
    BY ViewFacts DEF ViewType
  <2>. QED BY <2>1, AnswersType DEF CloseNext
<1>4. \A i \in DOMAIN view.questions : view.questions[i].file # f
  BY <1>1
<1>5. /\ view' \in ViewType /\ Formed(view') /\ (ok => Steady(view'))
      /\ Items(view') = Items(view) \ {f} /\ view'.editors = view.editors \ {f}
  BY <1>1, <1>3, <1>4, RemoveKeeps, ViewFacts
<1>6. ViewOK(view', refused') /\ refused' \in BOOLEAN
  BY <1>3, <1>5, ViewFacts DEF ViewOK
<1>7. /\ leaving' \in BOOLEAN /\ ghost' \in BOOLEAN /\ ~Building
      /\ ghost' \/ view'.editors = Items(view')
  BY <1>1, <1>5 DEF FilesInv, TypeOK, BuildOK, EditorsMatchMenu
<1>. QED BY <1>1, <1>2, <1>6, <1>7, StepKeeps, ViewFacts

-----------------------------------------------------------------------------
(* Other programs.                                                          *)

\* A file is written outside.
LEMMA ExternalWriteStep ==
    ASSUME SourceAssumption, FilesInv, NEW f \in File, ExternalWrite(f)
    PROVE  FilesInv'
<1>1. Tick({f}) /\ disk' = Write(disk, f, [of |-> f, at |-> Now], Now) /\ UNCHANGED <<view, leaving, history>>
  BY DEF ExternalWrite, TickEarly
<1>2. Ticks /\ Now \in Time /\ Now # 0
  BY <1>1, TicksType, ViewFacts DEF Now
<1>3. [of |-> f, at |-> Now] \in Text
  BY <1>2 DEF Text
<1>4. DiskOK(disk')
  BY <1>1, <1>2, <1>3, TextIsText, WriteKeeps, ViewFacts DEF MaybeText
<1>5. ViewOK(view', refused') /\ SameItems(view, view') /\ refused' \in BOOLEAN
  BY <1>1, ViewFacts DEF SameItems, history
<1>. QED BY <1>1, <1>2, <1>4, <1>5, SameItemsStep DEF history

\* A file is deleted outside.
LEMMA ExternalDeleteStep ==
    ASSUME SourceAssumption, FilesInv, NEW f \in File, ExternalDelete(f)
    PROVE  FilesInv'
<1>1. Tick({f}) /\ disk' = Write(disk, f, NoText, 0) /\ UNCHANGED <<view, leaving, history>>
  BY DEF ExternalDelete, TickEarly
<1>2. Ticks /\ 0 \in Time
  BY <1>1, TicksType, ViewFacts DEF Time, SourceAssumption
<1>3. NoText \in MaybeText
  BY DEF MaybeText
<1>4. DiskOK(disk')
  BY <1>1, <1>2, <1>3, WriteKeeps, ViewFacts
<1>5. ViewOK(view', refused') /\ SameItems(view, view') /\ refused' \in BOOLEAN
  BY <1>1, ViewFacts DEF SameItems, history
<1>. QED BY <1>1, <1>2, <1>4, <1>5, SameItemsStep DEF history

\* A handler that changes nothing but the questions.
SameButQuestions(v, w) ==
    /\ w.menu = v.menu /\ w.editors = v.editors /\ w.last = v.last /\ w.selected = v.selected
    /\ w.current = v.current /\ w.mode = v.mode
    /\ w.text = v.text /\ w.clean = v.clean /\ w.modified = v.modified
    /\ w.recorded = v.recorded /\ w.correlated = v.correlated /\ w.lastBuilt = v.lastBuilt
    /\ Items(w) = Items(v) /\ v.questions \in Seq(Question)

\* An assignment to the questions is one.
LEMMA OnlyQuestions ==
    ASSUME NEW v \in ViewType, NEW q, NEW w, w = [v EXCEPT !.questions = q]
    PROVE  SameButQuestions(v, w)
<1>1. /\ w.menu = v.menu /\ w.editors = v.editors /\ w.last = v.last /\ w.selected = v.selected
      /\ w.current = v.current /\ w.mode = v.mode
      /\ w.text = v.text /\ w.clean = v.clean /\ w.modified = v.modified
      /\ w.recorded = v.recorded /\ w.correlated = v.correlated /\ w.lastBuilt = v.lastBuilt
      /\ v.questions \in Seq(Question)
  BY DEF ViewType
<1>. QED BY <1>1, Zenon DEF SameButQuestions, Items

\* HandleApplicationStateChanged.
LEMMA ApplicationActiveStep ==
    ASSUME SourceAssumption, FilesInv, ApplicationActive
    PROVE  FilesInv'
<1> DEFINE c == view.current
<1>1. Still /\ view' = CheckExternal(view, disk) /\ UNCHANGED <<disk, leaving, history>>
  BY DEF ApplicationActive
<1>2. Ticks
  BY <1>1, TicksType, ViewFacts
<1>3. /\ view' \in ViewType /\ view' = [view EXCEPT !.questions = view'.questions]
      /\ MayAsk(view.questions, view'.questions, view.recorded, disk, c)
  BY <1>1, CheckEffect, ViewFacts
<1>4. /\ view'.menu = view.menu /\ view'.editors = view.editors /\ view'.last = view.last
      /\ view'.current = view.current /\ view'.selected = view.selected /\ view'.mode = view.mode
      /\ view'.text = view.text /\ view'.clean = view.clean /\ view'.modified = view.modified
      /\ Items(view') = Items(view) /\ view.questions \in Seq(Question)
  BY <1>3, OnlyQuestions, ViewFacts DEF SameButQuestions
<1>5. /\ AskedOf(view'.questions, Items(view))
      /\ AskedAlone(view.questions, c) => AskedAlone(view'.questions, c)
      /\ view'.questions # <<>> => c # None
  <2>1. CASE c = None
    <3>1. view'.questions = view.questions
      BY <1>3, <2>1 DEF MayAsk, File, None
    <3>. QED BY <3>1, ViewFacts DEF Formed
  <2>2. CASE c # None
    BY <1>3, <1>4, <2>2, MayAskKeeps, ViewFacts DEF Formed
  <2>. QED BY <2>1, <2>2
<1>6. Formed(view')
  BY <1>4, <1>5, ViewFacts DEF Formed, ClosedOK
<1>7. Steady(view) => Steady(view')
  BY <1>4, <1>5 DEF Steady
<1>8. ViewOK(view', refused') /\ SameItems(view, view') /\ refused' \in BOOLEAN
  BY <1>1, <1>3, <1>4, <1>6, <1>7, ViewFacts DEF ViewOK, SameItems, history
<1>. QED BY <1>1, <1>2, <1>8, SameItemsStep, ViewFacts DEF history

-----------------------------------------------------------------------------
(* The answers to the questions about files changed or deleted outside.     *)

\* The innermost question is about an item, and only a refusal leaves others.
LEMMA AnsweredKeeps ==
    ASSUME SourceAssumption, FilesInv, view.questions # <<>>
    PROVE  /\ ViewOK(Answered, refused) /\ SameButQuestions(view, Answered)
           /\ Question1 \in Question /\ Question1.file \in Items(view) /\ Question1.file \in File
           /\ view.current \in Items(view) /\ view.current \in File
           /\ \A i \in DOMAIN Answered.questions : Answered.questions[i].file # Question1.file
           /\ Len(view.questions) - 1 \in Nat
           /\ refused \/ (Len(view.questions) = 1 /\ Answered.questions = <<>> /\ Question1.file = view.current)
<1> DEFINE n == Len(view.questions)
           w == Answered
<1>1. /\ w \in ViewType /\ n \in Nat \ {0}
      /\ w = [view EXCEPT !.questions = w.questions]
      /\ DOMAIN view.questions = 1 .. n /\ DOMAIN w.questions = 1 .. n - 1
      /\ Len(w.questions) = n - 1
      /\ \A i \in 1 .. n - 1 : w.questions[i] = view.questions[i]
      /\ view.questions[n] \in Question
  BY AnsweredEffect, ViewFacts DEF Answered
<1>2. SameButQuestions(view, w)
  BY OnlyQuestions, ViewFacts DEF Answered
<1>. HIDE DEF w
<1>3. n \in 1 .. n /\ \A i \in 1 .. n - 1 : i \in 1 .. n /\ i # n
  BY <1>1
<1>. HIDE DEF n
<1>4. AskedOf(view.questions, Items(view)) /\ view.current # None /\ Items(view) \subseteq File
      /\ (refused \/ AskedAlone(view.questions, view.current))
  BY ViewFacts DEF Formed, ViewOK, Steady
<1>5. Question1 = view.questions[n]
  BY DEF Question1, n
<1>6. Question1 \in Question /\ Question1.file \in Items(view) /\ Question1.file \in File
  BY <1>1, <1>3, <1>4, <1>5 DEF AskedOf
<1>7. AskedOf(w.questions, Items(view)) /\ \A i \in DOMAIN w.questions : w.questions[i].file # Question1.file
  BY <1>1, <1>3, <1>4, <1>5 DEF AskedOf
<1>8. refused \/ (n = 1 /\ Question1.file = view.current)
  BY <1>1, <1>3, <1>4, <1>5 DEF AskedAlone
<1>9. n = 1 => w.questions = <<>>
  <2>1. w.questions \in Seq(Question)
    BY <1>1 DEF ViewType
  <2>. QED BY <1>1, <2>1, NoPlaces
<1>10. AskedAlone(view.questions, view.current) => AskedAlone(w.questions, view.current)
  BY <1>1, <1>3 DEF AskedAlone
<1>11. Formed(w)
  BY <1>2, <1>4, <1>7, ViewFacts DEF Formed, ClosedOK, SameButQuestions
<1>12. Steady(view) => Steady(w)
  BY <1>2, <1>10 DEF Steady, SameButQuestions
<1>13. ViewOK(w, refused)
  BY <1>1, <1>11, <1>12, ViewFacts DEF ViewOK
<1>14. n - 1 \in Nat
  BY <1>1
<1>15. view.current \in Items(view) /\ view.current \in File
  BY <1>4, ViewFacts
<1>. QED BY <1>2, <1>6, <1>7, <1>8, <1>9, <1>13, <1>14, <1>15 DEF w, n

\* The second handler of a click runs after the answer.
LEMMA ResumeKeeps ==
    ASSUME SourceAssumption, FilesInv, view.questions # <<>>, NEW w, ViewOK(w, refused),
           NEW d \in DiskType, Resume(w, d)
    PROVE  /\ ViewOK(view', refused') /\ SameItems(w, view')
           /\ refused' \in BOOLEAN /\ (refused => refused')
<1>1. CASE ~Question1.activate
  <2>1. view' = w /\ refused' = refused
    BY <1>1 DEF Resume
  <2>. QED BY <2>1, ViewFacts DEF SameItems
<1>2. CASE Question1.activate
  <2> DEFINE n == Len(view.questions) - 1
  <2>1. PICK ok \in BOOLEAN : view' = ThenActivate(w, d, n, ok) /\ refused' = (refused \/ ~ok)
    BY <1>2, AnswersType DEF Resume
  <2>2. n \in Nat /\ (refused \/ n = 0)
    BY AnsweredKeeps
  <2>. HIDE DEF n
  <2>3. w \in ViewType /\ Formed(w) /\ (refused \/ Steady(w))
    BY DEF ViewOK
  <2>4. /\ view' \in ViewType /\ Formed(view')
        /\ ok /\ n = 0 /\ Steady(w) => Steady(view')
        /\ Items(view') = Items(w) /\ view'.editors = w.editors /\ view'.menu = w.menu
    BY <2>1, <2>2, <2>3, ThenActivateKeeps
  <2>5. refused' \in BOOLEAN /\ (refused => refused')
    BY <2>1, ViewFacts
  <2>. QED BY <2>1, <2>2, <2>3, <2>4, <2>5 DEF ViewOK, SameItems
<1>. QED BY <1>1, <1>2

\* The file is reloaded.
LEMMA AnswerReloadStep ==
    ASSUME SourceAssumption, FilesInv, AnswerReload
    PROVE  FilesInv'
<1> DEFINE f == Question1.file
           w == LoadText(Answered, disk, f)
<1>1. /\ view.questions # <<>> /\ Resume(w, disk)
      /\ Still /\ UNCHANGED <<disk, leaving, built, touched, ghost>>
  BY DEF AnswerReload
<1>2. Ticks
  BY <1>1, TicksType, ViewFacts
<1>3. ViewOK(Answered, refused) /\ SameButQuestions(view, Answered) /\ f \in File
  BY <1>1, AnsweredKeeps
<1>4. /\ w \in ViewType /\ Formed(w) /\ (Steady(Answered) => Steady(w))
      /\ Items(w) = Items(Answered) /\ w.editors = Answered.editors /\ w.menu = Answered.menu
  BY <1>3, LoadKeeps, ViewFacts DEF ViewOK
<1>. HIDE DEF w
<1>5. ViewOK(w, refused) /\ SameItems(view, w)
  BY <1>3, <1>4 DEF ViewOK, SameItems, SameButQuestions
<1>6. ViewOK(view', refused') /\ SameItems(w, view') /\ refused' \in BOOLEAN
  BY <1>1, <1>5, ResumeKeeps, ViewFacts
<1>7. SameItems(view, view')
  BY <1>5, <1>6 DEF SameItems
<1>. QED BY <1>1, <1>2, <1>6, <1>7, SameItemsStep, ViewFacts

\* A modification time is recorded.
LEMMA RecordChange ==
    ASSUME NEW v \in ViewType, NEW f \in File, NEW t \in Time, NEW w, w = [v EXCEPT !.recorded[f] = t]
    PROVE  TextChange(v, w, f, v.text[f], v.clean[f], t, v.modified[f])
<1> DEFINE R == [v.recorded EXCEPT ![f] = t]
<1>1. w = [v EXCEPT !.recorded = R] /\ R \in [File -> Time]
  BY DEF ViewType
<1>. HIDE DEF R
<1>2. w \in ViewType
  BY <1>1 DEF ViewType
<1>3. /\ SamePlaces(v, w) /\ w.text = v.text /\ w.clean = v.clean /\ w.modified = v.modified
      /\ w.recorded = R /\ w.correlated = v.correlated
  BY <1>1 DEF SamePlaces, ViewType
<1>4. /\ v.text = [v.text EXCEPT ![f] = v.text[f]] /\ v.clean = [v.clean EXCEPT ![f] = v.clean[f]]
      /\ v.modified = [v.modified EXCEPT ![f] = v.modified[f]]
  BY DEF ViewType
<1>. QED BY <1>2, <1>3, <1>4 DEF TextChange, R

\* The editor keeps its text.
LEMMA AnswerKeepStep ==
    ASSUME SourceAssumption, FilesInv, AnswerKeep
    PROVE  FilesInv'
<1> DEFINE c == view.current
           x == [Answered EXCEPT !.recorded[c] = Question1.seen]
           w == SetModified(x, c)
<1>1. /\ view.questions # <<>> /\ Resume(w, disk)
      /\ NoTick({c}) /\ UNCHANGED <<disk, leaving, built, touched, ghost>>
  BY DEF AnswerKeep
<1>2. /\ ViewOK(Answered, refused) /\ SameButQuestions(view, Answered)
      /\ c \in File /\ c \in Items(view) /\ Question1.seen \in Time /\ Answered \in ViewType
  BY <1>1, AnsweredKeeps DEF ViewOK, Question
<1>3. Ticks
  BY <1>1, <1>2, TicksType, ViewFacts
<1>4. c \in Items(Answered) /\ Answered.modified[c] \in BOOLEAN /\ SameItems(view, Answered)
  BY <1>2 DEF SameButQuestions, SameItems, ViewType
<1>5. TextChange(Answered, x, c, Answered.text[c], Answered.clean[c], Question1.seen, Answered.modified[c])
  BY <1>2, RecordChange
<1>. HIDE DEF x, c
<1>6. ViewOK(x, refused) /\ SameItems(Answered, x) /\ x \in ViewType
  BY <1>2, <1>4, <1>5, TextStep DEF ViewOK
<1>7. TextChange(x, w, c, x.text[c], NoText, x.recorded[c], TRUE) /\ c \in Items(x) /\ TRUE \in BOOLEAN
  BY <1>2, <1>4, <1>6, ModifiedChange DEF SameItems
<1>. HIDE DEF w
<1>8. ViewOK(w, refused) /\ SameItems(x, w)
  BY <1>6, <1>7, TextStep
<1>9. ViewOK(view', refused') /\ SameItems(w, view') /\ refused' \in BOOLEAN
  BY <1>1, <1>8, ResumeKeeps, ViewFacts
<1>10. SameItems(view, view')
  BY <1>4, <1>6, <1>8, <1>9 DEF SameItems
<1>. QED BY <1>1, <1>3, <1>9, <1>10, SameItemsStep, ViewFacts

\* The missing file is written again.
LEMMA AnswerCreateStep ==
    ASSUME SourceAssumption, FilesInv, AnswerCreate
    PROVE  FilesInv'
<1> DEFINE f == Question1.file
           c == view.current
           w == SetModified(Answered, c)
           z == IF w.modified[f] THEN Saved(w, f, Now) ELSE w
<1>1. /\ view.questions # <<>> /\ Resume(z, disk')
      /\ IF w.modified[f] THEN Tick({f}) /\ disk' = Write(disk, f, w.text[f], Now) ELSE Still /\ disk' = disk
      /\ UNCHANGED <<leaving, built, touched, ghost>>
  BY DEF AnswerCreate
<1>2. /\ ViewOK(Answered, refused) /\ SameButQuestions(view, Answered)
      /\ c \in File /\ c \in Items(view) /\ f \in File /\ f \in Items(view) /\ Answered \in ViewType
  BY <1>1, AnsweredKeeps DEF ViewOK
<1>3. c \in Items(Answered) /\ SameItems(view, Answered)
  BY <1>2 DEF SameButQuestions, SameItems
<1>4. TextChange(Answered, w, c, Answered.text[c], NoText, Answered.recorded[c], TRUE) /\ TRUE \in BOOLEAN
  BY <1>2, ModifiedChange
<1>. HIDE DEF f, c, w
<1>5. ViewOK(w, refused) /\ SameItems(Answered, w) /\ w \in ViewType
  BY <1>2, <1>3, <1>4, TextStep DEF ViewOK
<1>6. Ticks /\ (w.modified[f] => Now \in Time /\ Now # 0)
  BY <1>1, <1>2, TicksType, ViewFacts DEF Now
<1>7. DiskOK(disk') /\ disk' \in DiskType
  <2>1. CASE w.modified[f]
    <3>1. w.text[f] \in Text
      BY <1>2, <1>5 DEF ViewType
    <3>2. DiskOK(Write(disk, f, w.text[f], Now))
      BY <1>2, <1>6, <2>1, <3>1, TextIsText, WriteKeeps, ViewFacts DEF MaybeText
    <3>. QED BY <1>1, <2>1, <3>2 DEF DiskOK
  <2>2. CASE ~w.modified[f]
    BY <1>1, <2>2, ViewFacts
  <2>. QED BY <2>1, <2>2
<1>8. ViewOK(z, refused) /\ SameItems(w, z)
  <2>1. CASE w.modified[f]
    <3>1. f \in Items(w) /\ FALSE \in BOOLEAN
      BY <1>2, <1>3, <1>5 DEF SameItems
    <3>2. TextChange(w, z, f, w.text[f], w.text[f], Now, FALSE)
      BY <1>2, <1>5, <1>6, <2>1, SavedChange
    <3>. HIDE DEF z
    <3>. QED BY <1>5, <3>1, <3>2, TextStep
  <2>2. CASE ~w.modified[f]
    BY <1>5, <2>2 DEF SameItems
  <2>. QED BY <2>1, <2>2
<1>. HIDE DEF z
<1>9. ViewOK(view', refused') /\ SameItems(z, view') /\ refused' \in BOOLEAN
  BY <1>1, <1>7, <1>8, ResumeKeeps
<1>10. SameItems(view, view')
  BY <1>3, <1>5, <1>8, <1>9 DEF SameItems
<1>. QED BY <1>1, <1>6, <1>7, <1>9, <1>10, SameItemsStep

\* The missing file is removed from the project.
LEMMA AnswerRemoveStep ==
    ASSUME SourceAssumption, FilesInv, AnswerRemove
    PROVE  FilesInv'
<1> DEFINE f == Question1.file
           w == RemoveInputFile(Answered, disk, f, TRUE)
<1>1. /\ view.questions # <<>> /\ Resume(w, disk) /\ ghost' = (ghost \/ Building)
      /\ NoTick({f}) /\ UNCHANGED <<disk, leaving, built, touched>>
  BY DEF AnswerRemove
<1>2. /\ ViewOK(Answered, refused) /\ SameButQuestions(view, Answered) /\ f \in File
      /\ \A i \in DOMAIN Answered.questions : Answered.questions[i].file # f
      /\ refused \/ Answered.questions = <<>>
  BY <1>1, AnsweredKeeps
<1>3. Ticks
  BY <1>1, <1>2, TicksType, ViewFacts
<1>4. /\ w \in ViewType /\ Formed(w) /\ (Answered.questions = <<>> => Steady(w))
      /\ Items(w) = Items(Answered) \ {f} /\ w.editors = Answered.editors \ {f}
  <2> DEFINE v == Answered
             ok == TRUE
  <2>1. ok \in BOOLEAN /\ v \in ViewType /\ Formed(v) /\ f \in File /\ disk \in DiskType
    BY <1>2, ViewFacts DEF ViewOK
  <2>2. (\A i \in DOMAIN v.questions : v.questions[i].file # f) /\ (v.questions # <<>> => ok)
    BY <1>2
  <2>3. w = RemoveInputFile(v, disk, f, ok)
    OBVIOUS
  <2>. HIDE DEF w, v, f, ok
  <2>4. /\ w \in ViewType /\ Formed(w) /\ (ok /\ v.questions = <<>> => Steady(w))
        /\ Items(w) = Items(v) \ {f} /\ w.editors = v.editors \ {f}
    BY <2>1, <2>2, <2>3, ForgetKeeps
  <2>. QED BY <2>4 DEF v, ok
<1>. HIDE DEF w
<1>5. ViewOK(w, refused)
  BY <1>2, <1>4 DEF ViewOK
<1>6. ViewOK(view', refused') /\ SameItems(w, view') /\ refused' \in BOOLEAN
  BY <1>1, <1>5, ResumeKeeps, ViewFacts
<1>7. Items(view') = Items(view) \ {f} /\ view'.editors = view.editors \ {f}
  BY <1>2, <1>4, <1>6 DEF SameItems, SameButQuestions
<1>8. /\ leaving' \in BOOLEAN /\ ghost' \in BOOLEAN /\ (leaving' => ~Building)
      /\ ghost' \/ view'.editors = Items(view')
      /\ Building => ghost'
  BY <1>1, <1>7 DEF FilesInv, TypeOK, BuildOK, EditorsMatchMenu, Building
<1>. QED BY <1>1, <1>3, <1>6, <1>8, StepKeeps, ViewFacts

-----------------------------------------------------------------------------
(* Builds.                                                                  *)

\* HandleBuildProjectEvent.
LEMMA ClickBuildStep ==
    ASSUME SourceAssumption, FilesInv, ClickBuild
    PROVE  FilesInv'
<1> DEFINE S == Unsaved(view)
           w == IF S = {} THEN view ELSE SavedAll(view, Now)
<1>1. /\ ~Building /\ ~leaving /\ view.menu # <<>> /\ disk' = WriteAll(view, disk, Now)
      /\ IF S = {} THEN clock' = clock ELSE clock < MaxClock /\ clock' = Now
      /\ UNCHANGED <<leaving, built, touched, ghost>>
  BY DEF ClickBuild, Free
<1>2. PICK ok \in BOOLEAN :
         /\ view' = [w EXCEPT !.pending = @ /\ ~ok] /\ refused' = (refused \/ ~ok)
         /\ build' = IF ok THEN [phase |-> "running", files |-> NoTexts, changed |-> {}] ELSE build
  BY DEF ClickBuild
<1>3. clock' \in Time /\ (S # {} => Now \in Time /\ Now # 0)
  BY <1>1, ViewFacts DEF TypeOK, Time, Now, SourceAssumption
<1>4. DiskOK(disk')
  <2>1. CASE S = {}
    <3> DEFINE X == [f \in File |-> disk.text[f]]
               T == [f \in File |-> disk.time[f]]
    <3>1. disk.text \in [File -> MaybeText] /\ disk.time \in [File -> Time]
      BY ViewFacts DEF DiskType
    <3>2. X \in [File -> MaybeText] /\ T \in [File -> Time]
          /\ \A f \in File : X[f] = disk.text[f] /\ T[f] = disk.time[f]
      BY <3>1
    <3>3. disk' = [text |-> X, time |-> T]
      BY <1>1, <2>1 DEF WriteAll
    <3>. HIDE DEF X, T
    <3>. QED BY <3>2, <3>3, ViewFacts DEF DiskOK, DiskType, Exists
  <2>2. CASE S # {}
    BY <1>1, <1>3, <2>2, WriteAllKeeps, ViewFacts
  <2>. QED BY <2>1, <2>2
<1>5. ViewOK(w, refused) /\ SameItems(view, w)
  <2>1. CASE S = {}
    BY <2>1, ViewFacts DEF SameItems
  <2>2. CASE S # {}
    BY <1>3, <2>2, SavedAllKeeps, ViewFacts
  <2>. QED BY <2>1, <2>2
<1>. HIDE DEF w, S
<1>6. ViewOK(view', refused) /\ SameItems(w, view')
  <2> DEFINE p == w.pending /\ ~ok
  <2>1. p \in BOOLEAN /\ view' = [w EXCEPT !.pending = p] /\ w \in ViewType
    BY <1>2, <1>5 DEF ViewOK
  <2>. HIDE DEF p
  <2>2. Stays(w, view')
    BY <2>1, QuietStays
  <2>. QED BY <1>5, <2>2, StaysStep
<1>7. ViewOK(view', refused') /\ refused' \in BOOLEAN
  BY <1>2, <1>6, ViewFacts DEF ViewOK
<1>8. build' \in BuildType
  <2>1. NoTexts \in [File -> MaybeText]
    BY DEF NoTexts, MaybeText
  <2>. QED BY <1>2, <2>1, ViewFacts DEF BuildType, TypeOK
<1>9. /\ leaving' \in BOOLEAN /\ ghost' \in BOOLEAN /\ ~leaving'
      /\ built' \in [File -> MaybeText] /\ touched' \in SUBSET File
      /\ ghost' \/ view'.editors = Items(view')
      /\ view'.menu # <<>>
  BY <1>1, <1>5, <1>6 DEF FilesInv, TypeOK, EditorsMatchMenu, SameItems
<1>. QED BY <1>3, <1>4, <1>7, <1>8, <1>9, AnyStepKeeps

\* The commands of the build read the source files.
LEMMA BuildReadsStep ==
    ASSUME SourceAssumption, FilesInv, BuildReads
    PROVE  FilesInv'
<1> DEFINE B == [f \in File |-> IF f \in Items(view) THEN disk.text[f] ELSE NoText]
<1>1. /\ Building /\ build' = [build EXCEPT !.phase = "read", !.files = B]
      /\ UNCHANGED <<view, disk, clock, leaving, history>>
  BY DEF BuildReads, Building
<1>2. B \in [File -> MaybeText]
  <2>1. disk.text \in [File -> MaybeText]
    BY ViewFacts DEF DiskType
  <2>. QED BY <2>1 DEF MaybeText
<1>. HIDE DEF B
<1>3. build' \in BuildType
  BY <1>1, <1>2, ViewFacts DEF TypeOK, BuildType
<1>4. ViewOK(view', refused') /\ DiskOK(disk') /\ refused' \in BOOLEAN
  BY <1>1, ViewFacts DEF history
<1>5. /\ clock' \in Time /\ built' \in [File -> MaybeText] /\ touched' \in SUBSET File
      /\ leaving' \in BOOLEAN /\ ghost' \in BOOLEAN /\ ~leaving'
      /\ ghost' \/ view'.editors = Items(view')
      /\ ghost' \/ view'.menu # <<>>
  BY <1>1 DEF FilesInv, TypeOK, BuildOK, EditorsMatchMenu, history
<1>. QED BY <1>3, <1>4, <1>5, AnyStepKeeps

\* A build fails or is canceled.
LEMMA BuildFailsStep ==
    ASSUME SourceAssumption, FilesInv, BuildFails
    PROVE  FilesInv'
<1>1. /\ Building /\ build' = [build EXCEPT !.phase = "idle", !.files = NoTexts]
      /\ ghost' = (ghost /\ view.editors # Items(view))
      /\ UNCHANGED <<view, disk, clock, leaving, built, touched, refused>>
  BY DEF BuildFails
<1>2. NoTexts \in [File -> MaybeText]
  BY DEF NoTexts, MaybeText
<1>3. build' \in BuildType /\ ~Building'
  BY <1>1, <1>2, ViewFacts DEF TypeOK, BuildType, Building
<1>4. ViewOK(view', refused') /\ DiskOK(disk') /\ refused' \in BOOLEAN
  BY <1>1, ViewFacts
<1>5. /\ clock' \in Time /\ built' \in [File -> MaybeText] /\ touched' \in SUBSET File
      /\ leaving' \in BOOLEAN /\ ghost' \in BOOLEAN
      /\ ghost' \/ view'.editors = Items(view')
  BY <1>1 DEF FilesInv, TypeOK, EditorsMatchMenu
<1>. QED BY <1>3, <1>4, <1>5, AnyStepKeeps

\* HandleProjectBuildSuccess.
LEMMA BuildSucceedsStep ==
    ASSUME SourceAssumption, FilesInv, BuildSucceeds
    PROVE  FilesInv'
<1> DEFINE w == [Correlated(view, disk) EXCEPT !.lastBuilt = Now, !.selected = None]
<1>1. /\ Building /\ clock < MaxClock /\ clock' = Now
      /\ built' = build.files /\ touched' = build.changed
      /\ build' = [build EXCEPT !.phase = "idle", !.files = NoTexts]
      /\ UNCHANGED <<disk, leaving, ghost>>
  BY DEF BuildSucceeds, Building
<1>2. \/ w.last = None /\ view' = w /\ refused' = refused
      \/ w.last # None /\ \E ok \in BOOLEAN : view' = Display(w, disk, w.last, ok) /\ refused' = (refused \/ ~ok)
  <2>1. IF w.last = None
        THEN view' = w /\ refused' = refused
        ELSE \E ok \in Answers(w) : view' = Display(w, disk, w.last, ok) /\ refused' = (refused \/ ~ok)
    BY DEF BuildSucceeds
  <2>. HIDE DEF w
  <2>. QED BY <2>1, AnswersType
<1>3. Now \in Time
  BY <1>1, ViewFacts DEF Time, Now, SourceAssumption
<1>4. /\ w \in ViewType
      /\ w.menu = view.menu /\ w.last = view.last /\ w.current = view.current /\ w.mode = view.mode
      /\ w.questions = view.questions
      /\ w.text = view.text /\ w.clean = view.clean /\ w.modified = view.modified /\ w.selected = None
      /\ IF view.selected \in {None} \cup view.editors
         THEN w.editors = view.editors ELSE w.editors = view.editors \cup {view.selected}
  <2>1. view \in ViewType /\ disk \in DiskType
    BY ViewFacts
  <2>2. w = [Correlated(view, disk) EXCEPT !.lastBuilt = Now, !.selected = None]
    OBVIOUS
  <2>. HIDE DEF w
  <2>3. Succeeds(view, w, disk, Now)
    BY <1>3, <2>1, <2>2, SucceedEffect
  <2>. QED BY <2>3, Zenon DEF Succeeds
<1>. HIDE DEF w
<1>5. /\ Items(w) = Items(view) /\ view.editors \subseteq w.editors
      /\ ghost \/ w.editors = Items(w)
      /\ Items(w) \subseteq File
  <2>1. Items(w) = Items(view)
    BY <1>4 DEF Items
  <2>2. ghost \/ view.selected \in Items(view) \cup {None}
    BY <1>1, ViewFacts DEF Formed, FilesInv, BuildOK
  <2>3. ghost \/ view.editors = Items(view)
    BY DEF FilesInv, EditorsMatchMenu
  <2>. QED BY <1>4, <2>1, <2>2, <2>3, ViewFacts
<1>6. ClosedOK(w)
  BY <1>4, <1>5, ViewFacts DEF Formed, ClosedOK
<1>7. Formed(w)
  BY <1>4, <1>5, <1>6, ViewFacts DEF Formed
<1>8. ASSUME w.last = None, view' = w, refused' = refused
      PROVE  /\ ViewOK(view', refused') /\ refused' \in BOOLEAN
             /\ Items(view') = Items(w) /\ view'.editors = w.editors /\ view'.menu = w.menu
  <2>1. Steady(view) => Steady(w)
    BY <1>4, <1>5, <1>8, ViewFacts DEF Steady, Formed
  <2>. QED BY <1>4, <1>7, <1>8, <2>1, ViewFacts DEF ViewOK
<1>9. ASSUME w.last # None, NEW ok \in BOOLEAN, view' = Display(w, disk, w.last, ok), refused' = (refused \/ ~ok)
      PROVE  /\ ViewOK(view', refused') /\ refused' \in BOOLEAN
             /\ Items(view') = Items(w) /\ view'.editors = w.editors /\ view'.menu = w.menu
  <2>1. w.last \in Items(w) /\ w.last \in File /\ Displayable(w, w.last, ok) /\ Len(w.menu) <= NumFiles
    BY <1>4, <1>5, <1>7, <1>9, FormedIsDisplayable DEF Formed
  <2>2. Displays(w, view', disk, w.last, ok) /\ disk \in DiskType
    BY <1>4, <1>9, <2>1, DisplayEffect, ViewFacts
  <2>3. /\ Formed(view')
        /\ ok /\ AskedAlone(w.questions, w.last) => Steady(view')
        /\ Items(view') = Items(w) /\ view'.editors = w.editors \cup {w.last} /\ view'.menu = w.menu
    BY <1>4, <2>1, <2>2, DisplayKeeps
  <2>4. view' \in ViewType
    BY <2>2, Zenon DEF Displays
  <2>5. Steady(view) => AskedAlone(w.questions, w.last)
    BY <1>4, <1>9 DEF Steady
  <2>6. w.last \in w.editors
    BY <1>7, <2>1 DEF Formed
  <2>. QED BY <1>9, <2>3, <2>4, <2>5, <2>6, ViewFacts DEF ViewOK
<1>10. /\ ViewOK(view', refused') /\ refused' \in BOOLEAN
       /\ Items(view') = Items(w) /\ view'.editors = w.editors
  BY <1>2, <1>8, <1>9, ViewFacts
<1>11. NoTexts \in [File -> MaybeText]
  BY DEF NoTexts, MaybeText
<1>12. build' \in BuildType /\ ~Building'
  BY <1>1, <1>11, ViewFacts DEF TypeOK, BuildType, Building
<1>13. /\ clock' \in Time /\ built' \in [File -> MaybeText] /\ touched' \in SUBSET File
       /\ leaving' \in BOOLEAN /\ ghost' \in BOOLEAN
       /\ ghost' \/ view'.editors = Items(view')
  BY <1>1, <1>3, <1>5, <1>10 DEF FilesInv, TypeOK
<1>. QED BY <1>1, <1>10, <1>12, <1>13, AnyStepKeeps, ViewFacts

-----------------------------------------------------------------------------
(* The theorems.                                                            *)

\* The invariant holds of a new project.
LEMMA FilesInit ==
    ASSUME SourceAssumption, Init
    PROVE  FilesInv
<1>1. /\ 0 \in Time /\ 1 \in Time /\ None \in MaybeFile /\ 0 \in 0 .. NumFiles + 2
      /\ NoText \in MaybeText /\ NoTexts \in [File -> MaybeText]
      /\ \A f \in File : Empty(f) \in Text /\ [of |-> f, at |-> 1] \in Text
  BY DEF SourceAssumption, Time, MaybeFile, None, NoText, NoTexts, MaybeText, Text, Empty, File
<1> DEFINE X == [f \in File |-> IF f < NumFiles THEN [of |-> f, at |-> 1] ELSE NoText]
           T == [f \in File |-> IF f < NumFiles THEN 1 ELSE 0]
<1>2. disk = [text |-> X, time |-> T]
  BY DEF Init
<1>3. X \in [File -> MaybeText] /\ T \in [File -> Time]
  BY <1>1 DEF MaybeText
<1>4. \A f \in File : T[f] # 0 <=> X[f] # NoText
  BY <1>1, TextIsText
<1>. HIDE DEF X, T
<1>5. DiskOK(disk)
  BY <1>2, <1>3, <1>4 DEF DiskOK, DiskType, Exists
<1>6. /\ view.menu = <<>> /\ view.editors = {} /\ view.selected = None /\ view.last = None /\ view.current = None
      /\ view.mode = "empty" /\ view.questions = <<>>
      /\ view.text = [f \in File |-> Empty(f)] /\ view.clean = NoTexts
      /\ view.modified = [f \in File |-> FALSE]
  BY DEF Init
<1>7. view \in ViewType
  <2>1. <<>> \in Seq(File) /\ <<>> \in Seq(Question)
    OBVIOUS
  <2>2. /\ [f \in File |-> Empty(f)] \in [File -> Text] /\ [f \in File |-> FALSE] \in [File -> BOOLEAN]
        /\ [f \in File |-> 0] \in [File -> Time]
    BY <1>1
  <2>. QED BY <1>1, <2>1, <2>2 DEF Init, ViewType, Mode
<1>8. Items(view) = {}
  BY <1>6 DEF Items
<1>9. Formed(view)
  <2>1. Distinct(view.menu) /\ AskedOf(view.questions, Items(view))
    BY <1>6 DEF Distinct, AskedOf
  <2>2. ClosedOK(view)
    BY <1>6, <1>8 DEF ClosedOK, NoTexts
  <2>. QED BY <1>6, <1>8, <2>1, <2>2 DEF Formed
<1>10. Steady(view)
  BY <1>6 DEF Steady, AskedAlone
<1>11. TypeOK /\ BuildOK
  BY <1>1, <1>5, <1>7 DEF Init, TypeOK, DiskOK, BuildOK, Building
<1>. QED BY <1>5, <1>6, <1>8, <1>9, <1>10, <1>11 DEF FilesInv, EditorsMatchMenu

\* Every step preserves it.
LEMMA FilesNext ==
    ASSUME SourceAssumption, FilesInv, [Next]_vars
    PROVE  FilesInv'
<1>1. CASE UNCHANGED vars
  BY <1>1 DEF vars, FilesInv, TypeOK, BuildOK, Building, EditorsMatchMenu
<1>2. ASSUME NEW f \in File, AddFile(f) \/ CreateFile(f) \/ ClickItem(f) \/ CloseItem(f)
      PROVE  FilesInv'
  BY <1>2, AddFileStep, CreateFileStep, ClickItemStep, CloseItemStep
<1>3. ASSUME NEW f \in File, ExternalWrite(f) \/ ExternalDelete(f)
      PROVE  FilesInv'
  BY <1>3, ExternalWriteStep, ExternalDeleteStep
<1>4. CASE Type \/ Undo \/ SaveCurrentFile \/ OpenSettingsButton \/ OpenSettingsAction \/ ChangeSetting
  BY <1>4, TypeStep, UndoStep, SaveCurrentFileStep, OpenSettingsStep, ChangeSettingStep
<1>5. CASE MoveFocus(1) \/ MoveFocus(2) \/ PressReturn \/ GoHome \/ ExitRefused \/ CloseNext
  BY <1>5, MoveFocusStep, PressReturnStep, GoHomeStep, ExitRefusedStep, CloseNextStep
<1>6. CASE ApplicationActive \/ AnswerReload \/ AnswerKeep \/ AnswerCreate \/ AnswerRemove
  BY <1>6, ApplicationActiveStep, AnswerReloadStep, AnswerKeepStep, AnswerCreateStep, AnswerRemoveStep
<1>7. CASE ClickBuild \/ BuildReads \/ BuildFails \/ BuildSucceeds
  BY <1>7, ClickBuildStep, BuildReadsStep, BuildFailsStep, BuildSucceedsStep
<1>. QED BY <1>1, <1>2, <1>3, <1>4, <1>5, <1>6, <1>7 DEF Next

\* The inductive invariant of the menu, the editors and the questions.
THEOREM FilesInvariant == Spec => []FilesInv
<1>1. Init => FilesInv
  BY FilesInit, SourceAssumption
<1>2. FilesInv /\ [Next]_vars => FilesInv'
  BY FilesNext, SourceAssumption
<1>. QED BY <1>1, <1>2, PTL DEF Spec

\* The view, the disk and the build have their types: the selected, the last,
\* the current and each listed file is one of the files, and the focus of the
\* menu stays on one of its entries (RgMenu keeps bare pointers and an index).
THEOREM SourceTypes == Spec => []TypeOK
<1>1. FilesInv => TypeOK
  BY DEF FilesInv
<1>. QED BY <1>1, FilesInvariant, PTL

\* However many questions are open, at most one of them is about each file
\* (CheckExternalFileModification looks at pending_file_modifications_).
THEOREM FileAskedOnce == Spec => []AskedOnce
<1>1. FilesInv => AskedOnce
  BY DEF FilesInv, AskedOnce, Formed, AskedOf
<1>. QED BY <1>1, FilesInvariant, PTL

\* Menu and editors list the same files, unless a file was closed under a build
\* (RgBuildView::RemoveEditor, RgMenu::RemoveItem).
THEOREM MenuMatchesEditors == Spec => []EditorsMatchMenu
<1>1. FilesInv => EditorsMatchMenu
  BY DEF FilesInv
<1>. QED BY <1>1, FilesInvariant, PTL

\* A question that is answered is about the file in the current editor, which
\* the answer is applied to (HandleExternalFileModification), unless a question
\* about saving was canceled.
THEOREM AnswerToCurrentFile == Spec => []QuestionOfCurrent
<1>1. FilesInv => QuestionOfCurrent
  <2>. SUFFICES ASSUME FilesInv, ~refused, view.questions # <<>>
                PROVE  Question1.file = view.current
    BY DEF QuestionOfCurrent
  <2>. QED BY AnsweredKeeps, SourceAssumption
<1>. QED BY <1>1, FilesInvariant, PTL

\* While source code is shown, the highlighted file is the one that is edited,
\* so that SaveCurrentFile writes the text to its own path.
THEOREM SelectedFileIsShown == Spec => []SelectedIsShown
<1>1. FilesInv => SelectedIsShown
  BY DEF FilesInv, SelectedIsShown, EditorsMatchMenu, Steady
<1>. QED BY <1>1, FilesInvariant, PTL
=============================================================================
