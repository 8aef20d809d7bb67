------------------------- MODULE SourceTexts_proofs -------------------------
(***************************************************************************)
(* The texts of SourceFiles: a step is described by what becomes of each   *)
(* file, and the descriptions are enough to show that a text stays with    *)
(* its file, that saved texts are on disk, that line correlation leads to  *)
(* the text that was built, and that no unsaved text is dropped.           *)
(***************************************************************************)
EXTENDS SourceFiles_proofs

\* Nothing becomes of the file f from the view v to w.
Untouched(v, w, f) ==
    /\ w.text[f] = v.text[f] /\ w.clean[f] = v.clean[f] /\ (w.modified[f] <=> v.modified[f])
    /\ w.recorded[f] = v.recorded[f]
    /\ f \in w.correlated => f \in v.correlated
    /\ f \in Items(w) <=> f \in Items(v)

\* The modification times that the questions qs have cached, and those of a disk.
Seen(qs) == {qs[i].seen : i \in DOMAIN qs}
Moments(d) == {d.time[g] : g \in File}

\* The editor of f is typed in, or keeps its text and the time of a question.
Edited(v, w, f) ==
    /\ f \in Items(v) /\ f \in Items(w)
    /\ w.text[f].of = v.text[f].of /\ w.modified[f]
    /\ \/ w.clean[f] = v.clean[f] /\ w.recorded[f] = v.recorded[f]
       \/ w.clean[f] = NoText /\ w.recorded[f] \in Seen(v.questions) \ {0}
    /\ f \in w.correlated => f \in v.correlated /\ v.modified[f]

\* What was typed is undone.
Undone(v, w, f) ==
    /\ f \in Items(v) /\ f \in Items(w)
    /\ v.clean[f] # NoText /\ w.text[f] = v.clean[f] /\ w.clean[f] = v.clean[f] /\ ~w.modified[f]
    /\ w.recorded[f] = v.recorded[f]
    /\ f \in w.correlated => v.recorded[f] <= v.lastBuilt

\* The text is saved on the disk e at the moment t.
Stored(v, w, e, t, f) ==
    /\ f \in Items(v) /\ f \in Items(w)
    /\ w.text[f] = v.text[f] /\ w.clean[f] = v.text[f] /\ ~w.modified[f]
    /\ w.recorded[f] = t /\ e.text[f] = v.text[f] /\ e.time[f] = t
    /\ f \in w.correlated => t <= v.lastBuilt

\* The text is read from the disk e.
Loaded(v, w, e, f) ==
    /\ f \in Items(w) /\ e.time[f] # 0
    /\ w.text[f] = e.text[f] /\ w.clean[f] = e.text[f] /\ ~w.modified[f]
    /\ w.recorded[f] = e.time[f]
    /\ f \in w.correlated => e.time[f] <= v.lastBuilt

\* The text is given up.
Dropped(v, w, f) ==
    /\ f \in Items(v) /\ f \in Items(w)
    /\ w.text[f] = v.text[f] /\ w.clean[f] = v.text[f] /\ ~w.modified[f]
    /\ w.recorded[f] = v.recorded[f]

\* The file is closed.
Closed(w, f) ==
    /\ f \notin Items(w)
    /\ w.text[f] = Empty(f) /\ w.clean[f] = NoText /\ ~w.modified[f] /\ w.recorded[f] = 0

\* One of these becomes of f in a step to the view w that changes the files of S.
Change(w, S, f) ==
    \/ Untouched(view, w, f)
    \/ f \in S /\ Edited(view, w, f)
    \/ Undone(view, w, f)
    \/ clock' = Now /\ Stored(view, w, disk', Now, f)
    \/ Loaded(view, w, disk', f) /\ (f \notin Items(view) \/ (AnswerReload /\ Question1.file = f))
    \/ leaving' /\ Dropped(view, w, f)
    \/ Closed(w, f) /\ (leaving' \/ f \notin w.correlated)

\* The file on disk stays, or is written or deleted at a new moment.
DiskChange(S, f) ==
    \/ disk'.text[f] = disk.text[f] /\ disk'.time[f] = disk.time[f]
    \/ /\ f \in S /\ clock' = Now
       /\ \/ disk'.time[f] = Now /\ disk'.text[f].of \in {f, view.text[f].of}
          \/ disk'.time[f] = 0 /\ disk'.text[f] = NoText

\* What a step that does not end a build does to files, disk and questions.
TextsChange(S) ==
    /\ \A f \in File : Change(view', S, f) /\ DiskChange(S, f)
    /\ Seen(view'.questions) \subseteq Seen(view.questions) \cup Moments(disk')
    /\ view'.lastBuilt = view.lastBuilt

-----------------------------------------------------------------------------
(* The invariants.                                                          *)

\* The texts of each file are its own.
Own(v, d) ==
    \A f \in File : v.text[f].of = f /\ v.clean[f].of \in {f, None} /\ d.text[f].of \in {f, None}

\* No time that is kept lies in the future.
Past(v, d, t) ==
    /\ \A f \in File : v.recorded[f] <= t /\ d.time[f] <= t
    /\ \A s \in Seen(v.questions) : s <= t
    /\ v.lastBuilt <= t

\* An item whose file did not change outside has the text of the file where it
\* is not modified, and undoing leads there.
Agree(v, d) ==
    \A f \in Items(v) :
        /\ v.recorded[f] # 0
        /\ v.modified[f] \/ v.recorded[f] # d.time[f] \/ v.text[f] = d.text[f]
        /\ v.clean[f] = NoText \/ v.recorded[f] # d.time[f] \/ v.clean[f] = d.text[f]

\* A file that is as old as the last build has the text b that was built, unless
\* it is one of T, and so has each editor with line correlation.
Correlation(v, d, b, T) ==
    /\ v.correlated \subseteq Items(v)
    /\ \A f \in File \ T :
          b[f] # NoText /\ d.time[f] # 0 /\ d.time[f] <= v.lastBuilt => d.text[f] = b[f]
    /\ \A f \in v.correlated : v.modified[f] => f \in T \/ b[f] = NoText
    /\ \A f \in v.correlated \ T : b[f] = NoText \/ v.recorded[f] # d.time[f] \/ v.text[f] = b[f]

\* The build that runs knows of every change.
BuildKnows ==
    /\ build.phase = "read" =>
          \A f \in File \ build.changed : build.files[f] # NoText => disk.text[f] = build.files[f]
    /\ Building => \A f \in File : view.modified[f] => f \in build.changed

\* The inductive invariant of the texts.
TextsInv ==
    refused \/ /\ Own(view, disk)
               /\ Past(view, disk, clock)
               /\ leaving \/ /\ Agree(view, disk)
                             /\ Correlation(view, disk, built, touched)
                             /\ BuildKnows

-----------------------------------------------------------------------------
(* What the descriptions of a step are enough for.                          *)

\* What the invariant of the files says of times and texts.
LEMMA TimeFacts ==
    ASSUME SourceAssumption, FilesInv
    PROVE  /\ clock \in Nat /\ view.lastBuilt \in Nat /\ Now \in Nat /\ Now > clock /\ Now # 0
           /\ \A f \in File : /\ view.recorded[f] \in Nat /\ disk.time[f] \in Nat
                              /\ view.text[f] \in Text /\ disk.text[f] \in MaybeText
                              /\ view.modified[f] \in BOOLEAN
                              /\ disk.time[f] # 0 <=> disk.text[f] # NoText
           /\ Seen(view.questions) \subseteq Nat
<1>1. /\ view.recorded \in [File -> Time] /\ view.text \in [File -> Text] /\ view.modified \in [File -> BOOLEAN]
      /\ view.lastBuilt \in Time /\ view.questions \in Seq(Question) /\ clock \in Nat
      /\ disk.time \in [File -> Time] /\ disk.text \in [File -> MaybeText]
  BY ViewFacts DEF ViewType, DiskType
<1>2. Time \subseteq Nat
  BY DEF Time
<1>3. Now \in Nat /\ Now > clock /\ Now # 0
  BY <1>1 DEF Now
<1>4. \A f \in File : disk.time[f] # 0 <=> disk.text[f] # NoText
  BY ViewFacts DEF DiskOK, Exists
<1>5. Seen(view.questions) \subseteq Nat
  <2>1. ASSUME NEW i \in DOMAIN view.questions PROVE view.questions[i].seen \in Time
    <3>1. view.questions[i] \in Question
      BY <1>1
    <3>. QED BY <3>1 DEF Question
  <2>. QED BY <1>2, <2>1 DEF Seen
<1>. QED BY <1>1, <1>2, <1>3, <1>4, <1>5

\* The types after a step.
LEMMA NextFacts ==
    ASSUME FilesInv'
    PROVE  view' \in ViewType /\ DiskOK(disk') /\ disk' \in DiskType /\ Items(view') \subseteq File
<1>1. view' \in ViewType /\ DiskOK(disk') /\ disk' \in DiskType
  BY DEF FilesInv, TypeOK
<1>. QED BY <1>1, ItemsType

\* A text stays with its file.
LEMMA OwnChange ==
    ASSUME SourceAssumption, FilesInv, FilesInv', Own(view, disk), NEW S, TextsChange(S)
    PROVE  Own(view', disk')
<1>. SUFFICES ASSUME NEW f \in File
              PROVE  /\ view'.text[f].of = f /\ view'.clean[f].of \in {f, None}
                     /\ disk'.text[f].of \in {f, None}
  BY DEF Own
<1>1. view.text[f].of = f /\ view.clean[f].of \in {f, None} /\ disk.text[f].of \in {f, None}
  BY DEF Own
<1>2. disk'.text[f].of \in {f, None}
  BY <1>1 DEF TextsChange, DiskChange, NoText
<1>3. disk'.time[f] # 0 => disk'.text[f].of = f
  <2>1. disk'.time[f] # 0 => disk'.text[f] \in Text
    BY NextFacts DEF DiskOK, DiskType, Exists, MaybeText
  <2>. QED BY <1>2, <2>1 DEF Text, File, None
<1>4. Change(view', S, f)
  BY DEF TextsChange
<1>5. NoText.of = None /\ Empty(f).of = f
  BY DEF NoText, Empty
<1>6. view.clean[f] # NoText => view.clean[f].of = f
  <2>1. view.clean[f] \in MaybeText
    BY ViewFacts DEF ViewType
  <2>. QED BY <1>1, <2>1 DEF MaybeText, Text, File, None
<1>. QED BY <1>1, <1>2, <1>3, <1>4, <1>5, <1>6 DEF Change, Untouched, Edited, Undone, Stored, Loaded, Dropped, Closed

\* Times stay in the past.
LEMMA PastChange ==
    ASSUME SourceAssumption, FilesInv, FilesInv', Past(view, disk, clock), NEW S, TextsChange(S),
           clock' \in {clock, Now}
    PROVE  Past(view', disk', clock')
<1>1. clock \in Nat /\ clock' \in Nat /\ clock <= clock' /\ Now \in Nat
  BY TimeFacts
<1>2. ASSUME NEW f \in File PROVE disk'.time[f] <= clock'
  <2>1. disk.time[f] \in Nat /\ disk.time[f] <= clock
    BY TimeFacts DEF Past
  <2>. QED BY <1>1, <2>1 DEF TextsChange, DiskChange
<1>3. \A s \in Seen(view.questions) : s \in Nat /\ s <= clock
  BY TimeFacts DEF Past
<1>4. \A s \in Seen(view'.questions) : s <= clock'
  BY <1>1, <1>2, <1>3 DEF TextsChange, Moments
<1>5. ASSUME NEW f \in File PROVE view'.recorded[f] <= clock'
  <2>1. view.recorded[f] \in Nat /\ view.recorded[f] <= clock
    BY TimeFacts DEF Past
  <2>2. Change(view', S, f)
    BY DEF TextsChange
  <2>. QED BY <1>1, <1>2, <1>3, <2>1, <2>2 DEF Change, Untouched, Edited, Undone, Stored, Loaded, Dropped, Closed
<1>6. view'.lastBuilt <= clock'
  BY <1>1, TimeFacts DEF TextsChange, Past
<1>. QED BY <1>2, <1>4, <1>5, <1>6 DEF Past

\* Saved texts stay on disk.
LEMMA AgreeChange ==
    ASSUME SourceAssumption, FilesInv, FilesInv', Past(view, disk, clock), Agree(view, disk), ~leaving',
           NEW S, TextsChange(S)
    PROVE  Agree(view', disk')
<1>. SUFFICES ASSUME NEW f \in Items(view')
              PROVE  /\ view'.recorded[f] # 0
                     /\ view'.modified[f] \/ view'.recorded[f] # disk'.time[f] \/ view'.text[f] = disk'.text[f]
                     /\ view'.clean[f] = NoText \/ view'.recorded[f] # disk'.time[f] \/ view'.clean[f] = disk'.text[f]
  BY DEF Agree
<1>1. f \in File /\ Change(view', S, f) /\ DiskChange(S, f)
  BY NextFacts DEF TextsChange
<1>2. /\ clock \in Nat /\ Now > clock /\ Now # 0 /\ view.recorded[f] \in Nat /\ view.recorded[f] <= clock
      /\ Now \in Nat
  BY <1>1, TimeFacts DEF Past
<1>3. f \in Items(view) =>
        /\ view.recorded[f] # 0
        /\ view.modified[f] \/ view.recorded[f] # disk.time[f] \/ view.text[f] = disk.text[f]
        /\ view.clean[f] = NoText \/ view.recorded[f] # disk.time[f] \/ view.clean[f] = disk.text[f]
  BY DEF Agree
<1>4. CASE Untouched(view, view', f)
  BY <1>1, <1>2, <1>3, <1>4 DEF Untouched, DiskChange
<1>5. CASE Edited(view, view', f)
  BY <1>1, <1>2, <1>3, <1>5 DEF Edited, DiskChange
<1>6. CASE Undone(view, view', f)
  BY <1>1, <1>2, <1>3, <1>6 DEF Undone, DiskChange
<1>7. CASE Stored(view, view', disk', Now, f)
  BY <1>2, <1>7 DEF Stored
<1>8. CASE Loaded(view, view', disk', f)
  BY <1>8 DEF Loaded
<1>. QED BY <1>1, <1>4, <1>5, <1>6, <1>7, <1>8 DEF Change, Closed

\* Line correlation stays right.
LEMMA CorrelationChange ==
    ASSUME SourceAssumption, FilesInv, FilesInv', Past(view, disk, clock), Agree(view, disk),
           Correlation(view, disk, built, touched), UNCHANGED <<built, touched>>, ~leaving',
           NEW S, TextsChange(S)
    PROVE  Correlation(view', disk', built, touched)
<1>1. ASSUME NEW f \in File \ touched,
             built[f] # NoText, disk'.time[f] # 0, disk'.time[f] <= view'.lastBuilt
      PROVE  disk'.text[f] = built[f] /\ disk'.text[f] = disk.text[f] /\ disk'.time[f] = disk.time[f]
  <2>1. DiskChange(S, f) /\ view'.lastBuilt = view.lastBuilt
    BY DEF TextsChange
  <2>2. Now \in Nat /\ clock \in Nat /\ view.lastBuilt \in Nat /\ Now > clock /\ view.lastBuilt <= clock
    BY TimeFacts DEF Past
  <2>3. disk'.time[f] # Now
    BY <1>1, <2>1, <2>2
  <2>. QED BY <1>1, <2>1, <2>3 DEF DiskChange, Correlation
<1>2. ASSUME NEW f \in view'.correlated
      PROVE  /\ f \in Items(view')
             /\ view'.modified[f] => f \in touched \/ built[f] = NoText
             /\ f \notin touched => built[f] = NoText \/ view'.recorded[f] # disk'.time[f] \/ view'.text[f] = built[f]
  <2>1. f \in File /\ Change(view', S, f) /\ DiskChange(S, f) /\ view'.lastBuilt = view.lastBuilt
    <3>1. view'.correlated \subseteq File
      BY NextFacts DEF ViewType
    <3>. QED BY <3>1 DEF TextsChange
  <2>2. /\ clock \in Nat /\ Now \in Nat /\ Now > clock /\ view.recorded[f] \in Nat /\ view.recorded[f] <= clock
        /\ view.lastBuilt \in Nat /\ view.lastBuilt <= clock
    BY <2>1, TimeFacts DEF Past
  <2>3. f \in view.correlated =>
          /\ f \in Items(view)
          /\ view.modified[f] => f \in touched \/ built[f] = NoText
          /\ f \in touched \/ built[f] = NoText \/ view.recorded[f] # disk.time[f] \/ view.text[f] = built[f]
    BY DEF Correlation
  <2>4. f \in Items(view) =>
          /\ view.recorded[f] # 0
          /\ view.clean[f] = NoText \/ view.recorded[f] # disk.time[f] \/ view.clean[f] = disk.text[f]
    BY DEF Agree
  <2>5. CASE Untouched(view, view', f)
    BY <1>2, <2>1, <2>2, <2>3, <2>4, <2>5 DEF Untouched, DiskChange
  <2>6. CASE Edited(view, view', f)
    BY <1>2, <2>3, <2>6 DEF Edited
  <2>7. CASE Undone(view, view', f)
    <3>1. CASE view'.recorded[f] # disk'.time[f]
      BY <2>7, <3>1 DEF Undone
    <3>2. CASE view'.recorded[f] = disk'.time[f]
      <4>1. disk'.time[f] = disk.time[f] /\ disk'.text[f] = disk.text[f]
        BY <2>1, <2>2, <2>4, <2>7, <3>2 DEF Undone, DiskChange
      <4>2. view'.text[f] = disk'.text[f]
        BY <2>4, <2>7, <3>2, <4>1 DEF Undone
      <4>3. disk'.time[f] # 0 /\ disk'.time[f] <= view'.lastBuilt
        BY <1>2, <2>1, <2>4, <2>7, <3>2 DEF Undone
      <4>. QED BY <1>1, <2>1, <2>7, <4>2, <4>3 DEF Undone
    <3>. QED BY <3>1, <3>2
  <2>8. CASE Stored(view, view', disk', Now, f)
    BY <1>2, <2>2, <2>8 DEF Stored
  <2>9. CASE Loaded(view, view', disk', f)
    BY <1>1, <1>2, <2>1, <2>9 DEF Loaded
  <2>. QED BY <1>2, <2>1, <2>5, <2>6, <2>7, <2>8, <2>9 DEF Change
<1>. QED BY <1>1, <1>2 DEF Correlation

\* No text that is not saved is lost.
LEMMA UnsavedChange ==
    ASSUME SourceAssumption, FilesInv, NEW S, TextsChange(S), NEW f \in File, view.modified[f], ~view'.modified[f]
    PROVE  \/ disk'.text[f] = view.text[f]
           \/ f \notin Items(view')
           \/ view'.text[f] = view.clean[f]
           \/ AnswerReload /\ Question1.file = f
           \/ leaving'
<1>1. f \in Items(view)
  BY ViewFacts DEF Formed, ClosedOK
<1>2. Change(view', S, f)
  BY DEF TextsChange
<1>. QED BY <1>1, <1>2 DEF Change, Untouched, Edited, Undone, Stored, Loaded, Dropped, Closed

-----------------------------------------------------------------------------
(* Handlers that change no text.                                            *)

\* No text changes, and nothing but a time of the disk d is asked about.
Quiet(v, w, d) ==
    /\ SameTexts(v, w) /\ w.recorded = v.recorded /\ Items(w) = Items(v)
    /\ Seen(w.questions) \subseteq Seen(v.questions) \cup Moments(d)

\* One after the other.
LEMMA QuietTwice ==
    ASSUME NEW v, NEW w, NEW x, NEW d, Quiet(v, w, d), Quiet(w, x, d)
    PROVE  Quiet(v, x, d)
BY DEF Quiet, SameTexts

\* What becomes of a file is not affected.
LEMMA ThenQuiet ==
    ASSUME NEW w, NEW x, NEW d, Quiet(w, x, d)
    PROVE  \A S, f : Change(w, S, f) => Change(x, S, f)
<1>1. /\ x.text = w.text /\ x.clean = w.clean /\ x.modified = w.modified /\ x.correlated = w.correlated
      /\ x.recorded = w.recorded /\ Items(x) = Items(w)
  BY DEF Quiet, SameTexts
<1>. QED BY <1>1 DEF Change, Untouched, Edited, Undone, Stored, Loaded, Dropped, Closed

\* A question that is asked has cached a time of the disk.
LEMMA MayAskSeen ==
    ASSUME NEW qs \in Seq(Question), NEW new, NEW recorded, NEW d \in DiskType, NEW c,
           MayAsk(qs, new, recorded, d, c)
    PROVE  Seen(new) \subseteq Seen(qs) \cup Moments(d)
<1>1. CASE new = qs
  BY <1>1
<1>2. CASE c \in File /\ new = Append(qs, QuestionAbout(d, c))
  <2> DEFINE q == QuestionAbout(d, c)
  <2>1. q.seen = d.time[c] /\ q \in Question /\ new = Append(qs, q) /\ c \in File
    BY <1>2 DEF QuestionAbout, Question, DiskType
  <2>. HIDE DEF q
  <2>2. /\ Len(qs) \in Nat /\ DOMAIN qs = 1 .. Len(qs) /\ DOMAIN new = 1 .. Len(qs) + 1
        /\ new[Len(qs) + 1] = q /\ \A i \in 1 .. Len(qs) : new[i] = qs[i]
    BY <2>1
  <2>3. ASSUME NEW i \in DOMAIN new PROVE new[i].seen \in Seen(qs) \cup Moments(d)
    <3>1. CASE i = Len(qs) + 1
      BY <2>1, <2>2, <3>1 DEF Moments
    <3>2. CASE i # Len(qs) + 1
      BY <2>2, <3>2 DEF Seen
    <3>. QED BY <3>1, <3>2
  <2>. QED BY <2>3 DEF Seen
<1>. QED BY <1>1, <1>2 DEF MayAsk

\* The same questions have cached the same times.
LEMMA SameSeen ==
    ASSUME NEW qs, NEW new, SameQuestions(qs, new)
    PROVE  Seen(new) = Seen(qs)
BY DEF SameQuestions, Seen

\* A file is shown whose editor there is.
LEMMA DisplayIsQuiet ==
    ASSUME NEW v \in ViewType, NEW w, NEW d \in DiskType, NEW f \in v.editors, NEW ok \in BOOLEAN,
           Displays(v, w, d, f, ok)
    PROVE  Quiet(v, w, d) /\ w.lastBuilt = v.lastBuilt
<1>1. /\ SameTexts(v, w) /\ w.menu = v.menu /\ w.recorded = v.recorded
      /\ ok => MayAsk(v.questions, w.questions, w.recorded, d, f)
      /\ ~ok => w.questions = v.questions
  BY Zenon DEF Displays
<1>2. v.questions \in Seq(Question)
  BY DEF ViewType
<1>3. Seen(w.questions) \subseteq Seen(v.questions) \cup Moments(d)
  <2>1. CASE ok
    BY <1>1, <1>2, <2>1, MayAskSeen
  <2>2. CASE ~ok
    BY <1>1, <2>2
  <2>. QED BY <2>1, <2>2
<1>. QED BY <1>1, <1>3 DEF Quiet, Items, SameTexts

\* Nothing is opened or selected.
LEMMA StaysIsQuiet ==
    ASSUME NEW v, NEW w, Stays(v, w)
    PROVE  \A d : Quiet(v, w, d)
<1>1. SameTexts(v, w) /\ w.menu = v.menu /\ w.recorded = v.recorded /\ SameQuestions(v.questions, w.questions)
  BY Zenon DEF Stays
<1>2. Seen(w.questions) = Seen(v.questions)
  BY <1>1, SameSeen
<1>. QED BY <1>1, <1>2 DEF Quiet, Items

\* The second handler of a click.
LEMMA ActivateIsQuiet ==
    ASSUME SourceAssumption, NEW v \in ViewType, NEW d \in DiskType, NEW ok \in BOOLEAN, NEW n \in Nat,
           Formed(v), NEW w, w = ThenActivate(v, d, n, ok)
    PROVE  Quiet(v, w, d)
<1>1. Len(v.menu) <= NumFiles /\ Items(v) \subseteq v.editors
  BY FormedIsDisplayable DEF Formed
<1>2. (\E f \in Items(v) : Displays(v, w, d, f, ok)) \/ Stays(v, w)
  BY <1>1, ThenActivateEffect
<1>. QED BY <1>1, <1>2, DisplayIsQuiet, StaysIsQuiet

\* CheckExternalFileModification.
LEMMA CheckIsQuiet ==
    ASSUME NEW v \in ViewType, NEW d \in DiskType, NEW w, w = CheckExternal(v, d)
    PROVE  Quiet(v, w, d)
<1> DEFINE q == w.questions
<1>1. w = [v EXCEPT !.questions = q] /\ MayAsk(v.questions, q, v.recorded, d, v.current)
  BY CheckEffect
<1>2. SameButQuestions(v, w)
  BY <1>1, OnlyQuestions
<1>3. v.questions \in Seq(Question)
  BY DEF ViewType
<1>4. Seen(w.questions) \subseteq Seen(v.questions) \cup Moments(d)
  BY <1>1, <1>3, MayAskSeen
<1>. QED BY <1>2, <1>4 DEF Quiet, SameTexts, SameButQuestions

\* The innermost question is put away.
LEMMA AnsweredIsQuiet ==
    ASSUME SourceAssumption, FilesInv, view.questions # <<>>
    PROVE  \A d : Quiet(view, Answered, d)
<1> DEFINE n == Len(view.questions)
           w == Answered
<1>1. /\ n \in Nat \ {0} /\ DOMAIN view.questions = 1 .. n /\ DOMAIN w.questions = 1 .. n - 1
      /\ \A i \in 1 .. n - 1 : w.questions[i] = view.questions[i]
  BY AnsweredEffect, ViewFacts DEF Answered
<1>2. SameButQuestions(view, w)
  BY AnsweredKeeps
<1>. HIDE DEF n, w
<1>3. \A i \in 1 .. n - 1 : i \in 1 .. n
  BY <1>1
<1>4. Seen(w.questions) \subseteq Seen(view.questions)
  BY <1>1, <1>3 DEF Seen
<1>. QED BY <1>2, <1>4 DEF Quiet, SameTexts, SameButQuestions, w

-----------------------------------------------------------------------------
(* Handlers that change the text of one file.                               *)

\* Nothing becomes of the other files.
OnlyOf(v, w, d, f) ==
    /\ \A g \in File \ {f} : Untouched(v, w, g)
    /\ Seen(w.questions) \subseteq Seen(v.questions) \cup Moments(d)
    /\ w.lastBuilt = v.lastBuilt

\* Before and after handlers that change no text.
LEMMA OnlyBetween ==
    ASSUME NEW v, NEW w, NEW x, NEW d, NEW f
    PROVE  /\ Quiet(v, w, d) /\ OnlyOf(w, x, d, f) => OnlyOf(v, x, d, f)
           /\ OnlyOf(v, w, d, f) /\ Quiet(w, x, d) => OnlyOf(v, x, d, f)
<1>1. ASSUME Quiet(v, w, d), OnlyOf(w, x, d, f) PROVE OnlyOf(v, x, d, f)
  BY <1>1 DEF Quiet, SameTexts, OnlyOf, Untouched
<1>2. ASSUME OnlyOf(v, w, d, f), Quiet(w, x, d) PROVE OnlyOf(v, x, d, f)
  BY <1>2 DEF Quiet, SameTexts, OnlyOf, Untouched
<1>. QED BY <1>1, <1>2

\* One handler after another on the same file.
LEMMA OnlyTwice ==
    ASSUME NEW v, NEW w, NEW x, NEW d, NEW f, OnlyOf(v, w, d, f), OnlyOf(w, x, d, f)
    PROVE  OnlyOf(v, x, d, f)
BY DEF OnlyOf, Untouched

\* What is known of the file whose text changes.
Changed(v, w, f, text, clean, recorded, m) ==
    /\ w.text[f] = text /\ w.clean[f] = clean /\ w.recorded[f] = recorded /\ w.modified[f] = m
    /\ Items(w) = Items(v)
    /\ f \in w.correlated => \/ f \in v.correlated /\ (v.modified[f] <=> m)
                             \/ ~m /\ recorded <= v.lastBuilt

\* A change of one text leaves the other files alone.
LEMMA TextOthers ==
    ASSUME NEW v \in ViewType, NEW w, NEW f \in File, NEW text, NEW clean, NEW recorded, NEW m \in BOOLEAN,
           TextChange(v, w, f, text, clean, recorded, m)
    PROVE  (\A d : OnlyOf(v, w, d, f)) /\ Changed(v, w, f, text, clean, recorded, m)
<1>1. /\ SamePlaces(v, w)
      /\ w.text = [v.text EXCEPT ![f] = text] /\ w.clean = [v.clean EXCEPT ![f] = clean]
      /\ w.recorded = [v.recorded EXCEPT ![f] = recorded] /\ w.modified = [v.modified EXCEPT ![f] = m]
      /\ \A g \in w.correlated :
            \/ g \in v.correlated /\ (g = f => (v.modified[f] <=> m))
            \/ g = f /\ ~m /\ g \in v.correlated \cup Items(v) /\ recorded <= v.lastBuilt
  BY Zenon DEF TextChange
<1>2. /\ v.text \in [File -> Text] /\ v.clean \in [File -> MaybeText]
      /\ v.recorded \in [File -> Time] /\ v.modified \in [File -> BOOLEAN]
  BY DEF ViewType
<1>3. Items(w) = Items(v) /\ w.questions = v.questions /\ w.lastBuilt = v.lastBuilt
  BY <1>1 DEF SamePlaces, Items
<1>4. \A g \in File \ {f} : Untouched(v, w, g)
  BY <1>1, <1>2, <1>3 DEF Untouched
<1>. QED BY <1>1, <1>2, <1>3, <1>4 DEF OnlyOf, Changed

\* SetSourceCodeText, into the editor of the file that is read.
LEMMA LoadedChange ==
    ASSUME NEW v \in ViewType, NEW d, DiskOK(d), NEW f \in File, v.current = f, f \in Items(v), Exists(d, f),
           NEW w, w = LoadText(v, d, f)
    PROVE  OnlyOf(v, w, d, f) /\ Loaded(v, w, d, f)
<1>1. d \in DiskType /\ d.text[f] \in Text /\ d.time[f] # 0
  BY DEF DiskOK, DiskType, MaybeText, Exists
<1>2. /\ TextChange(v, w, f, d.text[f], d.text[f], d.time[f], FALSE)
      /\ f \in w.correlated => d.time[f] <= v.lastBuilt
  BY <1>1, LoadChange
<1>3. FALSE \in BOOLEAN
  OBVIOUS
<1>4. (\A e : OnlyOf(v, w, e, f)) /\ Changed(v, w, f, d.text[f], d.text[f], d.time[f], FALSE)
  BY <1>2, <1>3, TextOthers
<1>. QED BY <1>1, <1>2, <1>4 DEF Changed, Loaded

\* SaveEditorTextToFile, of a text that line correlation is not enabled for or
\* that is modified.
LEMMA StoredChange ==
    ASSUME NEW v \in ViewType, NEW f \in Items(v), f \in File, NEW t \in Time, f \in v.correlated => v.modified[f],
           NEW d \in DiskType, NEW w, w = Saved(v, f, t)
    PROVE  (\A e : OnlyOf(v, w, e, f)) /\ Stored(v, w, Write(d, f, v.text[f], t), t, f)
<1>1. TextChange(v, w, f, v.text[f], v.text[f], t, FALSE) /\ FALSE \in BOOLEAN
  BY SavedChange
<1>2. (\A e : OnlyOf(v, w, e, f)) /\ Changed(v, w, f, v.text[f], v.text[f], t, FALSE)
  BY <1>1, TextOthers
<1> DEFINE e == Write(d, f, v.text[f], t)
<1>3. e.text[f] = v.text[f] /\ e.time[f] = t
  BY DEF Write, DiskType
<1>. HIDE DEF e
<1>4. Stored(v, w, e, t, f)
  BY <1>2, <1>3 DEF Changed, Stored
<1>. QED BY <1>2, <1>4 DEF e

\* RequestRemoveFile, as far as the menu and the editors are concerned.
LEMMA RemoveChange ==
    ASSUME SourceAssumption, NEW v \in ViewType, NEW d \in DiskType, NEW f \in File, NEW ok \in BOOLEAN,
           Formed(v), NEW w, w = RemoveEditor(RemoveItem(v, f), d, f, ok)
    PROVE  OnlyOf(v, w, d, f) /\ Closed(w, f) /\ w.correlated = v.correlated
<1> DEFINE u == RemoveItem(v, f)
           x == Cleared(u, f)
<1>1. Unlists(v, u, f)
  BY RemoveItemEffect DEF Formed
<1>2. w = RemoveEditor(u, d, f, ok)
  OBVIOUS
<1>. HIDE DEF u
<1>3. u \in ViewType /\ Distinct(u.menu) /\ Items(u) = Items(v) \ {f}
      /\ u.editors = v.editors /\ u.questions = v.questions
      /\ u.text = v.text /\ u.clean = v.clean /\ u.modified = v.modified
      /\ u.recorded = v.recorded /\ u.correlated = v.correlated /\ u.lastBuilt = v.lastBuilt
  <2>1. u \in ViewType /\ u = [v EXCEPT !.menu = u.menu, !.last = u.last]
    BY <1>1, Zenon DEF Unlists
  <2>. QED BY <1>1, <2>1 DEF Unlists, ViewType
<1>4. Len(u.menu) <= NumFiles /\ Items(u) \subseteq u.editors \ {f}
  BY <1>3, MenuBound DEF Formed, ViewType
<1>5. Clears(u, x, f)
  BY <1>3, ClearedEffect
<1>6. \/ u.menu = <<>> /\ w = [x EXCEPT !.mode = IF x.editors = {} THEN "empty" ELSE "source"]
      \/ \E g \in Items(u) : Displays(x, w, d, g, ok)
  BY <1>2, <1>3, <1>4, RemoveEditorEffect
<1>. HIDE DEF x
<1>7. /\ x \in ViewType /\ Items(x) = Items(u) /\ x.editors = v.editors \ {f}
      /\ x.questions = v.questions /\ x.correlated = v.correlated /\ x.lastBuilt = v.lastBuilt
      /\ x.text = [v.text EXCEPT ![f] = Empty(f)] /\ x.clean = [v.clean EXCEPT ![f] = NoText]
      /\ x.modified = [v.modified EXCEPT ![f] = FALSE] /\ x.recorded = [v.recorded EXCEPT ![f] = 0]
  BY <1>3, <1>5 DEF Clears, Items
<1>8. Quiet(x, w, d) /\ w.lastBuilt = x.lastBuilt
  <2>1. CASE w = [x EXCEPT !.mode = IF x.editors = {} THEN "empty" ELSE "source"]
    <3>1. /\ w.menu = x.menu /\ w.questions = x.questions /\ w.correlated = x.correlated
          /\ w.text = x.text /\ w.clean = x.clean /\ w.modified = x.modified /\ w.recorded = x.recorded
          /\ w.lastBuilt = x.lastBuilt
      BY <1>7, <2>1 DEF ViewType
    <3>. QED BY <3>1 DEF Quiet, SameTexts, Items
  <2>2. ASSUME NEW g \in Items(u), Displays(x, w, d, g, ok) PROVE Quiet(x, w, d) /\ w.lastBuilt = x.lastBuilt
    <3>1. g \in x.editors
      BY <1>3, <1>4, <1>7
    <3>. QED BY <1>7, <2>2, <3>1, DisplayIsQuiet
  <2>. QED BY <1>6, <2>1, <2>2
<1>9. /\ v.text \in [File -> Text] /\ v.clean \in [File -> MaybeText]
      /\ v.recorded \in [File -> Time] /\ v.modified \in [File -> BOOLEAN]
  BY DEF ViewType
<1>10. OnlyOf(v, x, d, f)
  BY <1>3, <1>7, <1>9 DEF OnlyOf, Untouched
<1>11. Closed(x, f)
  BY <1>3, <1>7, <1>9 DEF Closed
<1>12. Closed(w, f) /\ w.correlated = v.correlated
  BY <1>7, <1>8, <1>11 DEF Closed, Quiet, SameTexts
<1>13. OnlyOf(v, w, d, f)
  BY <1>8, <1>10, OnlyBetween
<1>. QED BY <1>12, <1>13

\* RemoveInputFile.
LEMMA ForgetChange ==
    ASSUME SourceAssumption, NEW v \in ViewType, NEW d \in DiskType, NEW f \in File, NEW ok \in BOOLEAN,
           Formed(v), NEW w, w = RemoveInputFile(v, d, f, ok)
    PROVE  OnlyOf(v, w, d, f) /\ Closed(w, f) /\ f \notin w.correlated
<1> DEFINE C == v.correlated \ {f}
           x == [v EXCEPT !.correlated = C]
<1>1. w = RemoveEditor(RemoveItem(x, f), d, f, ok)
  BY DEF RemoveInputFile
<1>2. C \in SUBSET File /\ f \notin C /\ C \subseteq v.correlated
  BY DEF ViewType
<1>. HIDE DEF C
<1>3. x \in ViewType
  BY <1>2 DEF ViewType
<1>4. /\ x.menu = v.menu /\ x.editors = v.editors /\ x.last = v.last /\ x.current = v.current
      /\ x.selected = v.selected /\ x.questions = v.questions /\ x.text = v.text /\ x.clean = v.clean
      /\ x.modified = v.modified /\ x.recorded = v.recorded /\ x.lastBuilt = v.lastBuilt /\ x.correlated = C
  BY DEF ViewType
<1>. HIDE DEF x
<1>5. Items(x) = Items(v) /\ ClosedOK(x)
  BY <1>4 DEF Items, ClosedOK, Formed
<1>6. Formed(x)
  BY <1>4, <1>5 DEF Formed
<1>7. OnlyOf(x, w, d, f) /\ Closed(w, f) /\ w.correlated = C
  BY <1>1, <1>3, <1>4, <1>6, RemoveChange
<1>8. OnlyOf(v, w, d, f)
  BY <1>2, <1>4, <1>5, <1>7 DEF OnlyOf, Untouched
<1>. QED BY <1>2, <1>7, <1>8

\* A file becomes an item, is shown and read.
LEMMA JoinChange ==
    ASSUME SourceAssumption, NEW v \in ViewType, Formed(v), v.questions = <<>>, NEW d, DiskOK(d), NEW f \in File,
           Exists(d, f), NEW w, Lists(v, w, f), NEW z, z = LoadText(Display(w, d, f, TRUE), d, f)
    PROVE  OnlyOf(v, z, d, f) /\ Loaded(v, z, d, f)
<1> DEFINE ok == TRUE
           x == Display(w, d, f, ok)
<1>1. ok \in BOOLEAN /\ d \in DiskType
  BY DEF DiskOK
<1>2. z = LoadText(x, d, f)
  OBVIOUS
<1>3. /\ w \in ViewType /\ Distinct(w.menu) /\ Items(w) = Items(v) \cup {f}
      /\ w.editors = v.editors /\ w.questions = v.questions /\ w.text = v.text
      /\ w.clean = v.clean /\ w.modified = v.modified /\ w.recorded = v.recorded
      /\ w.lastBuilt = v.lastBuilt /\ w.correlated = v.correlated \ {f}
  <2>1. w \in ViewType /\ w = [v EXCEPT !.menu = w.menu, !.correlated = v.correlated \ {f}, !.pending = w.pending]
    BY Zenon DEF Lists
  <2>. QED BY <2>1 DEF Lists, ViewType
<1>4. f \in Items(w) /\ Len(w.menu) <= NumFiles
  BY <1>3, MenuBound DEF ViewType
<1>5. Displays(w, x, d, f, ok)
  BY <1>1, <1>3, <1>4, DisplayEffect
<1>. HIDE DEF x
<1>6. /\ x \in ViewType /\ SameTexts(w, x) /\ x.menu = w.menu
      /\ x.recorded = IF f \in w.editors THEN w.recorded ELSE [w.recorded EXCEPT ![f] = d.time[f]]
      /\ x.current = f /\ MayAsk(w.questions, x.questions, x.recorded, d, f)
  BY <1>5 DEF Displays
<1>7. Items(x) = Items(w) /\ x.questions \in Seq(Question) /\ w.questions \in Seq(Question)
  BY <1>3, <1>6 DEF Items, ViewType
<1>8. Seen(x.questions) \subseteq Seen(v.questions) \cup Moments(d)
  BY <1>1, <1>3, <1>6, <1>7, MayAskSeen
<1>9. v.recorded \in [File -> Time]
  BY DEF ViewType
<1>10. x.lastBuilt = v.lastBuilt
  BY <1>3, <1>6 DEF SameTexts
<1>11. ASSUME NEW g \in File \ {f} PROVE Untouched(v, x, g)
  <2>1. x.recorded[g] = v.recorded[g]
    BY <1>3, <1>6, <1>9
  <2>2. g \in Items(x) <=> g \in Items(v)
    BY <1>3, <1>7
  <2>. QED BY <1>3, <1>6, <2>1, <2>2 DEF Untouched, SameTexts
<1>12. OnlyOf(v, x, d, f)
  BY <1>8, <1>10, <1>11 DEF OnlyOf
<1>13. OnlyOf(x, z, d, f) /\ Loaded(x, z, d, f)
  BY <1>2, <1>4, <1>6, <1>7, LoadedChange
<1>14. Loaded(v, z, d, f)
  BY <1>10, <1>13 DEF Loaded
<1>. QED BY <1>12, <1>13, <1>14, OnlyTwice

-----------------------------------------------------------------------------
(* The steps that do not begin or end a build.                              *)

\* The files of S change, if any, and time goes on, while the build does, too.
Goes(S) ==
    /\ S \in SUBSET File
    /\ Tick(S) \/ NoTick(S) \/ (Still /\ S = {})
    /\ TextsChange(S)
    /\ UNCHANGED <<built, touched>> /\ (leaving => leaving')

\* The disk stays as it is.
LEMMA DiskStays ==
    ASSUME disk' = disk
    PROVE  \A S, f : DiskChange(S, f)
BY DEF DiskChange

\* One file is written.
LEMMA DiskWritten ==
    ASSUME disk \in DiskType, NEW f \in File, NEW txt, txt.of \in {f, view.text[f].of}, clock' = Now,
           disk' = Write(disk, f, txt, Now), NEW S, f \in S
    PROVE  \A g \in File : DiskChange(S, g)
BY DEF DiskType, Write, DiskChange

\* A step that changes no text.
LEMMA QuietGoes ==
    ASSUME Quiet(view, view', disk), Still, disk' = disk, UNCHANGED <<built, touched>>, leaving => leaving'
    PROVE  \E S : Goes(S)
<1>1. \A f \in File : Change(view', {}, f)
  BY DEF Quiet, SameTexts, Change, Untouched
<1>2. TextsChange({})
  BY <1>1, DiskStays DEF TextsChange, Quiet, SameTexts
<1>. QED BY <1>2 DEF Goes

\* A step that changes one text, and then others that change none.
LEMMA OneGoes ==
    ASSUME NEW f \in File, NEW w, OnlyOf(view, w, disk', f), NEW S, Change(w, S, f), Quiet(w, view', disk'),
           \A g \in File : DiskChange(S, g)
    PROVE  TextsChange(S)
<1>1. Change(view', S, f)
  BY ThenQuiet
<1>2. OnlyOf(view, view', disk', f)
  BY OnlyBetween
<1>3. \A g \in File : Change(view', S, g)
  BY <1>1, <1>2 DEF OnlyOf, Change
<1>. QED BY <1>2, <1>3 DEF TextsChange, OnlyOf

\* Nothing more happens after the change.
LEMMA SelfQuiet ==
    ASSUME NEW v, NEW d
    PROVE  Quiet(v, v, d)
BY DEF Quiet, SameTexts

\* Typing.
LEMMA TypeGoes ==
    ASSUME SourceAssumption, FilesInv, Type
    PROVE  \E S : Goes(S)
<1> DEFINE c == view.current
           txt == [view.text[c] EXCEPT !.at = Now]
<1>1. /\ c \in Items(view) /\ c \in File /\ Tick({c}) /\ {c} \in SUBSET File
      /\ view' = SignalModified([view EXCEPT !.text[c].at = Now], c, TRUE)
      /\ UNCHANGED <<disk, leaving, built, touched>>
  BY ViewFacts DEF Type, TickEarly, history
<1>2. Now \in Time
  BY <1>1, TicksType, ViewFacts
<1>3. TextChange(view, view', c, txt, view.clean[c], view.recorded[c], TRUE) /\ TRUE \in BOOLEAN
  BY <1>1, <1>2, TypeChange, ViewFacts
<1>4. txt.of = view.text[c].of
  BY <1>1, TimeFacts DEF Text
<1>. HIDE DEF c, txt
<1>5. OnlyOf(view, view', disk', c) /\ Changed(view, view', c, txt, view.clean[c], view.recorded[c], TRUE)
  BY <1>1, <1>3, TextOthers, ViewFacts
<1>6. Change(view', {c}, c)
  BY <1>1, <1>4, <1>5 DEF Changed, Change, Edited
<1>7. TextsChange({c})
  BY <1>1, <1>5, <1>6, SelfQuiet, DiskStays, OneGoes
<1>. QED BY <1>1, <1>7 DEF Goes

\* Undoing.
LEMMA UndoGoes ==
    ASSUME SourceAssumption, FilesInv, Undo
    PROVE  \E S : Goes(S)
<1> DEFINE c == view.current
<1>1. /\ c \in Items(view) /\ c \in File /\ NoTick({c}) /\ {c} \in SUBSET File
      /\ view.modified[c] /\ view.clean[c] # NoText
      /\ view' = SignalModified([view EXCEPT !.text[c] = view.clean[c]], c, FALSE)
      /\ UNCHANGED <<disk, leaving, built, touched>>
  BY ViewFacts DEF Undo, history
<1>2. TextChange(view, view', c, view.clean[c], view.clean[c], view.recorded[c], FALSE) /\ FALSE \in BOOLEAN
  BY <1>1, UndoChange, ViewFacts
<1>. HIDE DEF c
<1>3. OnlyOf(view, view', disk', c) /\ Changed(view, view', c, view.clean[c], view.clean[c], view.recorded[c], FALSE)
  BY <1>1, <1>2, TextOthers, ViewFacts
<1>4. Change(view', {c}, c)
  BY <1>1, <1>3 DEF Changed, Change, Undone
<1>5. TextsChange({c})
  BY <1>1, <1>3, <1>4, SelfQuiet, DiskStays, OneGoes
<1>. QED BY <1>1, <1>5 DEF Goes

\* SaveCurrentFile, to the path of the file that is edited.
LEMMA SaveCurrentFileGoes ==
    ASSUME SourceAssumption, FilesInv, SaveCurrentFile, ~refused
    PROVE  \E S : Goes(S)
<1> DEFINE c == view.current
<1>1. /\ c \in Items(view) /\ c \in File /\ view.modified[c]
      /\ view' = Saved(view, c, Now) /\ UNCHANGED <<leaving, built, touched>>
      /\ view.mode = "source" /\ view.current # None
  BY ViewFacts DEF SaveCurrentFile, history
<1>2. view.selected = c
  BY <1>1 DEF FilesInv, Steady
<1>3. Tick({c}) /\ {c} \in SUBSET File /\ disk' = Write(disk, c, view.text[c], Now)
  BY <1>1, <1>2 DEF SaveCurrentFile
<1>4. Now \in Time /\ clock' = Now
  BY <1>3, TicksType, ViewFacts
<1>. HIDE DEF c
<1>5. OnlyOf(view, view', disk', c) /\ Stored(view, view', disk', Now, c)
  BY <1>1, <1>3, <1>4, StoredChange, ViewFacts
<1>6. Change(view', {c}, c)
  BY <1>4, <1>5 DEF Change
<1>7. \A g \in File : DiskChange({c}, g)
  BY <1>1, <1>3, <1>4, DiskWritten, ViewFacts
<1>8. TextsChange({c})
  BY <1>1, <1>5, <1>6, <1>7, SelfQuiet, OneGoes
<1>. QED BY <1>1, <1>3, <1>8 DEF Goes

\* The settings and the focus.
LEMMA SettingsGo ==
    ASSUME SourceAssumption, FilesInv,
           OpenSettingsButton \/ OpenSettingsAction \/ ChangeSetting \/ MoveFocus(1) \/ MoveFocus(2)
    PROVE  \E S : Goes(S)
<1>1. Still /\ UNCHANGED <<disk, leaving, built, touched>>
  BY DEF OpenSettingsButton, OpenSettingsAction, ChangeSetting, MoveFocus, history
<1>2. CASE OpenSettingsButton
  <2>1. Stays(view, view')
    BY <1>2, SettingsEffect, ViewFacts, FormedIsDisplayable DEF OpenSettingsButton
  <2>. QED BY <1>1, <2>1, StaysIsQuiet, QuietGoes
<1>3. CASE OpenSettingsAction
  <2>1. view' = [view EXCEPT !.mode = "settings", !.selected = None]
    BY <1>3 DEF OpenSettingsAction
  <2>2. /\ view'.menu = view.menu /\ view'.questions = view.questions
        /\ view'.text = view.text /\ view'.clean = view.clean /\ view'.modified = view.modified
        /\ view'.recorded = view.recorded /\ view'.correlated = view.correlated /\ view'.lastBuilt = view.lastBuilt
    BY <2>1, ViewFacts DEF ViewType
  <2>3. Quiet(view, view', disk)
    BY <2>2 DEF Quiet, SameTexts, Items
  <2>. QED BY <1>1, <2>3, QuietGoes
<1>4. CASE ChangeSetting
  <2>1. Stays(view, view')
    BY <1>4, QuietStays, ViewFacts DEF ChangeSetting
  <2>. QED BY <1>1, <2>1, StaysIsQuiet, QuietGoes
<1>5. CASE MoveFocus(1) \/ MoveFocus(2)
  <2>1. \E n : view' = [view EXCEPT !.focus = n]
    BY <1>5 DEF MoveFocus
  <2>2. /\ view'.menu = view.menu /\ view'.questions = view.questions
        /\ view'.text = view.text /\ view'.clean = view.clean /\ view'.modified = view.modified
        /\ view'.recorded = view.recorded /\ view'.correlated = view.correlated /\ view'.lastBuilt = view.lastBuilt
    BY <2>1, ViewFacts DEF ViewType
  <2>3. Quiet(view, view', disk)
    BY <2>2 DEF Quiet, SameTexts, Items
  <2>. QED BY <1>1, <2>3, QuietGoes
<1>. QED BY <1>2, <1>3, <1>4, <1>5

\* A file that is dropped on the window.
LEMMA AddFileGoes ==
    ASSUME SourceAssumption, FilesInv, NEW f \in File, AddFile(f), ~refused'
    PROVE  \E S : Goes(S)
<1> DEFINE w == [view EXCEPT !.menu = Append(@, f), !.correlated = @ \ {f}]
           x == [view EXCEPT !.menu = Append(view.menu, f), !.correlated = view.correlated \ {f},
                             !.pending = view.pending]
<1>1. /\ f \notin Items(view) /\ view.questions = <<>> /\ Exists(disk, f) /\ NoTick({f}) /\ {f} \in SUBSET File
      /\ UNCHANGED <<disk, leaving, built, touched>>
  BY DEF AddFile, Free
<1>2. view' = LoadText(Display(w, disk, f, TRUE), disk, f)
  <2>1. PICK ok \in BOOLEAN : view' = LoadText(Display(w, disk, f, ok), disk, f) /\ refused' = (refused \/ ~ok)
    BY AnswersType DEF AddFile
  <2>2. ok = TRUE
    BY <2>1
  <2>. QED BY <2>1, <2>2
<1>3. w = x /\ view.pending \in BOOLEAN
  BY ViewFacts DEF ViewType
<1>. HIDE DEF w, x
<1>4. Lists(view, x, f)
  BY <1>1, <1>3, ListEffect, ViewFacts DEF x, Formed
<1>5. OnlyOf(view, view', disk, f) /\ Loaded(view, view', disk, f)
  BY <1>1, <1>2, <1>3, <1>4, JoinChange, ViewFacts
<1>6. Change(view', {f}, f)
  BY <1>1, <1>5 DEF Change
<1>7. TextsChange({f})
  BY <1>1, <1>5, <1>6, SelfQuiet, DiskStays, OneGoes
<1>. QED BY <1>1, <1>7 DEF Goes

\* A new file.
LEMMA CreateFileGoes ==
    ASSUME SourceAssumption, FilesInv, FilesInv', NEW f \in File, CreateFile(f)
    PROVE  \E S : Goes(S)
<1> DEFINE txt == [of |-> f, at |-> Now]
           d == Write(disk, f, txt, Now)
           w == [view EXCEPT !.menu = Append(@, f), !.correlated = @ \ {f}, !.pending = FALSE]
           x == [view EXCEPT !.menu = Append(view.menu, f), !.correlated = view.correlated \ {f}, !.pending = FALSE]
<1>1. /\ f \notin Items(view) /\ view.questions = <<>> /\ Tick({f}) /\ {f} \in SUBSET File /\ disk' = d
      /\ UNCHANGED <<leaving, built, touched>>
  BY DEF CreateFile, Free, history
<1>2. view' = LoadText(Display(w, d, f, TRUE), d, f)
  BY DEF CreateFile
<1>3. w = x /\ FALSE \in BOOLEAN /\ clock' = Now /\ txt.of = f
  BY <1>1 DEF Tick
<1>4. Exists(d, f)
  BY TimeFacts, ViewFacts DEF Exists, Write, DiskType
<1>5. disk' = Write(disk, f, txt, Now)
  BY <1>1
<1>. HIDE DEF w, x, d, txt
<1>6. Lists(view, x, f)
  BY <1>1, <1>3, ListEffect, ViewFacts DEF x, Formed
<1>7. DiskOK(d)
  BY <1>1, NextFacts
<1>8. OnlyOf(view, view', d, f) /\ Loaded(view, view', d, f)
  BY <1>1, <1>2, <1>3, <1>4, <1>6, <1>7, JoinChange, ViewFacts
<1>9. Change(view', {f}, f)
  BY <1>1, <1>8 DEF Change
<1>10. \A g \in File : DiskChange({f}, g)
  BY <1>3, <1>5, DiskWritten, ViewFacts
<1>11. TextsChange({f})
  BY <1>1, <1>8, <1>9, <1>10, SelfQuiet, OneGoes
<1>. QED BY <1>1, <1>11 DEF Goes

\* A click on a file of the menu.
LEMMA ClickItemGoes ==
    ASSUME SourceAssumption, FilesInv, NEW f \in File, ClickItem(f), ~refused'
    PROVE  \E S : Goes(S)
<1> DEFINE x == [view EXCEPT !.pending = FALSE]
           W(first) == IF first THEN Display(x, disk, f, TRUE) ELSE view
           w == Display(x, disk, f, TRUE)
<1>1. /\ f \in Items(view) /\ view.questions = <<>>
      /\ Still /\ UNCHANGED <<disk, leaving, built, touched>>
  BY DEF ClickItem, Free
<1>2. view' = ThenActivate(w, disk, 0, TRUE)
  <2>1. PICK first \in BOOLEAN :
           \E second \in ActivateAnswers(W(first)) :
              /\ view' = ThenActivate(W(first), disk, 0, second)
              /\ refused' = (refused \/ ~first \/ ~second)
    BY DEF ClickItem
  <2>2. PICK second \in BOOLEAN :
           view' = ThenActivate(W(first), disk, 0, second) /\ refused' = (refused \/ ~first \/ ~second)
    BY <2>1, AnswersType
  <2>3. first = TRUE /\ second = TRUE
    BY <2>2
  <2>. QED BY <2>2, <2>3
<1>3. Stays(view, x)
  BY QuietStays, ViewFacts
<1>4. x \in ViewType /\ Formed(x) /\ Items(x) = Items(view) /\ x.questions = <<>>
  <2>1. ViewOK(x, refused) /\ SameItems(view, x)
    BY <1>3, StaysStep, ViewFacts
  <2>2. x.questions = <<>>
    BY <1>1, ViewFacts DEF ViewType
  <2>. QED BY <2>1, <2>2 DEF ViewOK, SameItems
<1>5. Quiet(view, x, disk)
  BY <1>3, StaysIsQuiet
<1> DEFINE ok == TRUE
<1>6. ok \in BOOLEAN /\ 0 \in Nat
  OBVIOUS
<1>. HIDE DEF x
<1>7. w \in ViewType /\ Formed(w)
  BY <1>1, <1>4, DisplayStep, ViewFacts
<1>8. Displays(x, w, disk, f, ok) /\ f \in x.editors
  BY <1>1, <1>4, <1>6, DisplayEffect, FormedIsDisplayable, ViewFacts DEF Formed
<1>9. view' = ThenActivate(w, disk, 0, ok)
  BY <1>2
<1>. HIDE DEF w, ok
<1>10. Quiet(x, w, disk)
  BY <1>4, <1>6, <1>8, DisplayIsQuiet, ViewFacts
<1>11. Quiet(w, view', disk)
  BY <1>6, <1>7, <1>9, ActivateIsQuiet, ViewFacts
<1>12. Quiet(view, view', disk)
  BY <1>5, <1>10, <1>11, QuietTwice
<1>. QED BY <1>1, <1>12, QuietGoes

\* The Return key.
LEMMA PressReturnGoes ==
    ASSUME SourceAssumption, FilesInv, PressReturn
    PROVE  \E S : Goes(S)
<1>1. view.questions = <<>> /\ Still /\ UNCHANGED <<disk, leaving, built, touched>> /\ 0 \in Nat
  BY DEF PressReturn, Free
<1>2. PICK ok \in BOOLEAN : view' = Activate(view, disk, ok)
  BY AnswersType DEF PressReturn
<1>3. view' = ThenActivate(view, disk, 0, ok)
  BY <1>1, <1>2 DEF ThenActivate
<1>4. Quiet(view, view', disk)
  BY <1>1, <1>3, ActivateIsQuiet, ViewFacts
<1>. QED BY <1>1, <1>4, QuietGoes

\* The focus returns to RGA.
LEMMA ApplicationActiveGoes ==
    ASSUME SourceAssumption, FilesInv, ApplicationActive
    PROVE  \E S : Goes(S)
<1>1. Still /\ view' = CheckExternal(view, disk) /\ UNCHANGED <<disk, leaving, built, touched>>
  BY DEF ApplicationActive, history
<1>2. Quiet(view, view', disk)
  BY <1>1, CheckIsQuiet, ViewFacts
<1>. QED BY <1>1, <1>2, QuietGoes

\* Other programs.
LEMMA ExternalGoes ==
    ASSUME SourceAssumption, FilesInv, NEW f \in File, ExternalWrite(f) \/ ExternalDelete(f)
    PROVE  \E S : Goes(S)
<1>1. Tick({f}) /\ {f} \in SUBSET File /\ clock' = Now /\ UNCHANGED <<view, leaving, built, touched>>
  BY DEF ExternalWrite, ExternalDelete, TickEarly, Tick, history
<1>2. \A g \in File : DiskChange({f}, g)
  <2>1. CASE ExternalWrite(f)
    <3> DEFINE txt == [of |-> f, at |-> Now]
    <3>1. txt.of = f /\ disk' = Write(disk, f, txt, Now)
      BY <2>1 DEF ExternalWrite
    <3>. HIDE DEF txt
    <3>. QED BY <1>1, <3>1, DiskWritten, ViewFacts
  <2>2. CASE ExternalDelete(f)
    <3>1. disk' = Write(disk, f, NoText, 0)
      BY <2>2 DEF ExternalDelete
    <3>. QED BY <1>1, <3>1, ViewFacts DEF DiskType, Write, DiskChange
  <2>. QED BY <2>1, <2>2
<1>3. \A g \in File : Change(view', {f}, g)
  BY <1>1 DEF Change, Untouched
<1>4. TextsChange({f})
  BY <1>1, <1>2, <1>3 DEF TextsChange
<1>. QED BY <1>1, <1>4 DEF Goes

\* A file is closed, saved before or not.
LEMMA CloseItemGoes ==
    ASSUME SourceAssumption, FilesInv, NEW f \in File, CloseItem(f)
    PROVE  \E S : Goes(S)
<1> DEFINE D(save) == IF save THEN Write(disk, f, view.text[f], Now) ELSE disk
           W(save) == IF save THEN Saved(view, f, Now) ELSE view
<1>1. f \in Items(view) /\ {f} \in SUBSET File /\ UNCHANGED <<leaving, built, touched>>
  BY DEF CloseItem
<1>2. PICK save \in BOOLEAN, ok \in BOOLEAN :
         /\ disk' = D(save) /\ (IF save THEN Tick({f}) ELSE NoTick({f}))
         /\ view' = RemoveInputFile(W(save), D(save), f, ok)
  <2>1. PICK save \in BOOLEAN :
           /\ disk' = D(save) /\ (IF save THEN Tick({f}) ELSE NoTick({f}))
           /\ \E ok \in RemoveAnswers(view) :
                 view' = RemoveInputFile(W(save), D(save), f, ok) /\ refused' = (refused \/ ~ok)
    BY DEF CloseItem
  <2>. QED BY <2>1, AnswersType
<1> DEFINE w == W(save)
           d == D(save)
<1>3. save => Now \in Time /\ Now # 0 /\ clock' = Now
  BY <1>1, <1>2, TicksType, ViewFacts DEF Now
<1>4. w \in ViewType /\ Formed(w) /\ OnlyOf(view, w, d, f)
  <2>1. CASE save
    <3>1. TextChange(view, w, f, view.text[f], view.text[f], Now, FALSE) /\ FALSE \in BOOLEAN
      BY <1>3, <2>1, SavedChange, ViewFacts
    <3>. HIDE DEF w, d
    <3>2. OnlyOf(view, w, d, f)
      BY <3>1, TextOthers, ViewFacts
    <3>3. ViewOK(w, refused)
      BY <1>1, <3>1, TextStep, ViewFacts
    <3>. QED BY <3>2, <3>3 DEF ViewOK
  <2>2. CASE ~save
    <3>1. w = view
      BY <2>2
    <3>. HIDE DEF w, d
    <3>2. Quiet(view, w, d)
      BY <3>1, SelfQuiet
    <3>. QED BY <3>1, <3>2, ViewFacts DEF OnlyOf, Quiet, SameTexts, Untouched
  <2>. QED BY <2>1, <2>2
<1>5. d \in DiskType /\ (\A g \in File : DiskChange({f}, g)) /\ disk' = d
  <2>1. CASE save
    <3> DEFINE txt == view.text[f]
    <3>1. disk' = Write(disk, f, txt, Now) /\ txt \in MaybeText /\ txt.of \in {f, view.text[f].of}
      BY <1>2, <2>1, ViewFacts DEF ViewType, MaybeText
    <3>2. txt # NoText /\ f \in {f}
      BY TextIsText, ViewFacts DEF ViewType
    <3>. HIDE DEF txt
    <3>3. DiskOK(disk')
      BY <1>3, <2>1, <3>1, <3>2, WriteKeeps, ViewFacts
    <3>4. \A g \in File : DiskChange({f}, g)
      BY <1>3, <2>1, <3>1, DiskWritten, ViewFacts
    <3>. QED BY <1>2, <3>3, <3>4 DEF DiskOK
  <2>2. CASE ~save
    BY <1>2, <2>2, DiskStays, ViewFacts
  <2>. QED BY <2>1, <2>2
<1>6. view' = RemoveInputFile(w, d, f, ok) /\ (Tick({f}) \/ NoTick({f}))
  BY <1>2
<1>. HIDE DEF w, d
<1>7. OnlyOf(w, view', d, f) /\ Closed(view', f) /\ f \notin view'.correlated
  BY <1>4, <1>5, <1>6, ForgetChange
<1>8. OnlyOf(view, view', disk', f)
  BY <1>4, <1>5, <1>7, OnlyTwice
<1>9. Change(view', {f}, f)
  BY <1>7 DEF Change
<1>10. TextsChange({f})
  BY <1>5, <1>8, <1>9, SelfQuiet, OneGoes
<1>. QED BY <1>1, <1>6, <1>10 DEF Goes

\* All unsaved texts are written.
LEMMA SaveAllChange ==
    ASSUME SourceAssumption, FilesInv, Now \in Time, clock' = Now, disk' = WriteAll(view, disk, Now),
           NEW w, w = SavedAll(view, Now)
    PROVE  /\ \A f \in File : Change(w, Unsaved(view), f) /\ DiskChange(Unsaved(view), f)
           /\ w.questions = view.questions /\ w.lastBuilt = view.lastBuilt /\ Items(w) = Items(view)
           /\ \A f \in File : ~w.modified[f]
<1> DEFINE S == Unsaved(view)
<1>1. /\ w \in ViewType /\ SamePlaces(view, w) /\ w.text = view.text
      /\ w.correlated = view.correlated \ S
      /\ \A f \in File :
            /\ w.recorded[f] = IF f \in S THEN Now ELSE view.recorded[f]
            /\ w.clean[f] = IF f \in S THEN view.text[f] ELSE view.clean[f]
            /\ w.modified[f] <=> view.modified[f] /\ f \notin S
  BY SavedAllChange, ViewFacts
<1>2. w.questions = view.questions /\ w.lastBuilt = view.lastBuilt /\ Items(w) = Items(view)
  BY <1>1 DEF SamePlaces, Items
<1>3. \A f \in S : f \in Items(view)
  BY ViewFacts DEF Unsaved, Formed, ClosedOK, ViewType
<1>4. \A f \in File : /\ f \in S => disk'.text[f] = view.text[f] /\ disk'.time[f] = Now
                      /\ f \notin S => disk'.text[f] = disk.text[f] /\ disk'.time[f] = disk.time[f]
  BY DEF WriteAll
<1>5. \A f \in File : view.modified[f] => f \in S
  BY ViewFacts DEF Formed, ClosedOK, Unsaved
<1>. HIDE DEF S
<1>6. ASSUME NEW f \in File PROVE Change(w, S, f) /\ DiskChange(S, f) /\ ~w.modified[f]
  <2>1. CASE f \in S
    <3>1. Stored(view, w, disk', Now, f)
      BY <1>1, <1>2, <1>3, <1>4, <2>1 DEF Stored
    <3>. QED BY <1>1, <1>4, <2>1, <3>1 DEF Change, DiskChange
  <2>2. CASE f \notin S
    <3>1. Untouched(view, w, f)
      BY <1>1, <1>2, <2>2 DEF Untouched
    <3>. QED BY <1>1, <1>4, <1>5, <2>2, <3>1 DEF Change, DiskChange
  <2>. QED BY <2>1, <2>2
<1>. QED BY <1>2, <1>6 DEF S

\* ShowSaveDialog, and then the files are closed.
LEMMA GoHomeGoes ==
    ASSUME SourceAssumption, FilesInv, GoHome
    PROVE  \E S : Goes(S)
<1>1. PICK answer \in BOOLEAN : SaveEverything(answer)
  BY DEF GoHome
<1>2. leaving' = TRUE /\ UNCHANGED <<built, touched>>
  BY DEF GoHome, history
<1>3. CASE answer /\ Unsaved(view) # {}
  <2> DEFINE S == Unsaved(view)
             w == SavedAll(view, Now)
  <2>1. Tick(S) /\ S \in SUBSET File /\ disk' = WriteAll(view, disk, Now) /\ view' = [w EXCEPT !.pending = FALSE]
    BY <1>1, <1>3, ViewFacts DEF SaveEverything, Unsaved, ViewType
  <2>2. Now \in Time /\ clock' = Now
    BY <2>1, TicksType, ViewFacts
  <2>3. /\ \A f \in File : Change(w, S, f) /\ DiskChange(S, f)
        /\ w.questions = view.questions /\ w.lastBuilt = view.lastBuilt
    BY <2>1, <2>2, SaveAllChange
  <2>4. w \in ViewType
    BY <2>2, SavedAllChange, ViewFacts
  <2>. HIDE DEF S, w
  <2>5. Stays(w, view')
    BY <2>1, <2>4, QuietStays
  <2>6. Quiet(w, view', disk')
    BY <2>5, StaysIsQuiet
  <2>7. \A f \in File : Change(view', S, f)
    BY <2>3, <2>6, ThenQuiet
  <2>8. Seen(view'.questions) \subseteq Seen(view.questions) \cup Moments(disk') /\ view'.lastBuilt = view.lastBuilt
    BY <2>3, <2>6 DEF Quiet, SameTexts
  <2>9. TextsChange(S)
    BY <2>3, <2>7, <2>8 DEF TextsChange
  <2>. QED BY <1>2, <2>1, <2>9 DEF Goes
<1>4. CASE ~(answer /\ Unsaved(view) # {}) /\ (answer \/ view.pending)
  <2>1. Still /\ disk' = disk /\ view' = [view EXCEPT !.pending = FALSE]
    BY <1>1, <1>4 DEF SaveEverything
  <2>2. Stays(view, view')
    BY <2>1, QuietStays, ViewFacts
  <2>. QED BY <1>2, <2>1, <2>2, StaysIsQuiet, QuietGoes
<1>5. CASE ~(answer \/ view.pending)
  <2>1. Still /\ disk' = disk /\ view' = Discarded(view)
    BY <1>1, <1>5 DEF SaveEverything
  <2>2. /\ SamePlaces(view, view') /\ view'.text = view.text /\ view'.recorded = view.recorded
        /\ \A f \in File :
              /\ view'.clean[f] = IF f \in Unsaved(view) THEN view.text[f] ELSE view.clean[f]
              /\ view'.modified[f] <=> view.modified[f] /\ f \notin Unsaved(view)
        /\ \A f \in view'.correlated : f \in view.correlated \/ f \in Unsaved(view)
    BY <2>1, DiscardedChange, ViewFacts
  <2>3. view'.questions = view.questions /\ view'.lastBuilt = view.lastBuilt /\ Items(view') = Items(view)
    BY <2>2 DEF SamePlaces, Items
  <2>4. \A f \in Unsaved(view) : f \in Items(view)
    BY ViewFacts DEF Unsaved, Formed, ClosedOK, ViewType
  <2>5. \A f \in File : Change(view', {}, f)
    BY <1>2, <2>2, <2>3, <2>4 DEF Change, Untouched, Dropped
  <2>6. TextsChange({})
    BY <2>1, <2>3, <2>5, DiskStays DEF TextsChange
  <2>. QED BY <1>2, <2>1, <2>6 DEF Goes
<1>. QED BY <1>3, <1>4, <1>5

\* The files are closed one by one.
LEMMA CloseNextGoes ==
    ASSUME SourceAssumption, FilesInv, CloseNext
    PROVE  \E S : Goes(S)
<1>1. leaving /\ leaving' /\ Still /\ UNCHANGED <<disk, built, touched>>
  BY DEF CloseNext
<1>2. PICK f \in File, ok \in BOOLEAN : view' = RemoveEditor(RemoveItem(view, f), disk, f, ok)
  <2>1. view.editors \subseteq File
    BY ViewFacts DEF ViewType
  <2>. QED BY <2>1, AnswersType DEF CloseNext
<1>3. OnlyOf(view, view', disk', f) /\ Closed(view', f)
  BY <1>1, <1>2, RemoveChange, ViewFacts
<1>4. Change(view', {}, f)
  BY <1>1, <1>3 DEF Change
<1>5. TextsChange({})
  BY <1>1, <1>3, <1>4, SelfQuiet, DiskStays, OneGoes
<1>. QED BY <1>1, <1>5 DEF Goes

-----------------------------------------------------------------------------
(* The answers to the questions about files changed or deleted outside.     *)

\* The second handler of a click changes no text.
LEMMA ResumeIsQuiet ==
    ASSUME SourceAssumption, FilesInv, view.questions # <<>>, NEW w, ViewOK(w, refused),
           NEW d \in DiskType, Resume(w, d)
    PROVE  Quiet(w, view', d)
<1>1. CASE ~Question1.activate
  <2>1. view' = w
    BY <1>1 DEF Resume
  <2>. QED BY <2>1, SelfQuiet
<1>2. CASE Question1.activate
  <2> DEFINE n == Len(view.questions) - 1
  <2>1. PICK ok \in BOOLEAN : view' = ThenActivate(w, d, n, ok)
    BY <1>2, AnswersType DEF Resume
  <2>2. n \in Nat
    BY AnsweredKeeps
  <2>. HIDE DEF n
  <2>. QED BY <2>1, <2>2, ActivateIsQuiet DEF ViewOK
<1>. QED BY <1>1, <1>2

\* The file is reloaded into the editor that shows it.
LEMMA AnswerReloadGoes ==
    ASSUME SourceAssumption, FilesInv, AnswerReload, ~refused
    PROVE  \E S : Goes(S)
<1> DEFINE f == Question1.file
           v == Answered
           w == LoadText(v, disk, f)
<1>1. /\ view.questions # <<>> /\ Resume(w, disk)
      /\ Still /\ UNCHANGED <<disk, leaving, built, touched>>
  BY DEF AnswerReload
<1>2. /\ v \in ViewType /\ Formed(v) /\ SameButQuestions(view, v)
      /\ f \in File /\ f \in Items(view) /\ f = view.current
  BY <1>1, AnsweredKeeps DEF ViewOK
<1>3. /\ w \in ViewType /\ Formed(w) /\ (Steady(v) => Steady(w))
  BY <1>2, LoadKeeps, ViewFacts
<1>4. ViewOK(w, refused)
  BY <1>1, <1>3, AnsweredKeeps DEF ViewOK
<1>5. Quiet(view, v, disk)
  BY <1>1, AnsweredIsQuiet
<1>6. v.current = f /\ f \in Items(v)
  BY <1>2 DEF SameButQuestions
<1>7. Exists(disk, f) => OnlyOf(v, w, disk, f) /\ Loaded(v, w, disk, f)
  BY <1>2, <1>6, LoadedChange, ViewFacts
<1>8. ~Exists(disk, f) => w = v
  BY DEF LoadText
<1>. HIDE DEF f, v, w
<1>9. Quiet(w, view', disk)
  BY <1>1, <1>4, ResumeIsQuiet, ViewFacts
<1>10. CASE ~Exists(disk, f)
  <2>1. Quiet(view, view', disk)
    BY <1>5, <1>8, <1>9, <1>10, QuietTwice
  <2>. QED BY <1>1, <2>1, QuietGoes
<1>11. CASE Exists(disk, f)
  <2>1. OnlyOf(view, w, disk, f)
    BY <1>5, <1>7, <1>11, OnlyBetween
  <2>2. Loaded(view, w, disk, f)
    BY <1>5, <1>7, <1>11 DEF Loaded, Quiet, SameTexts
  <2>3. Change(w, {}, f)
    BY <1>1, <2>2 DEF Change, f
  <2>4. TextsChange({})
    BY <1>1, <1>2, <1>9, <2>1, <2>3, DiskStays, OneGoes
  <2>. QED BY <1>1, <2>4 DEF Goes
<1>. QED BY <1>10, <1>11

\* The editor keeps its text, unsaved.
LEMMA AnswerKeepGoes ==
    ASSUME SourceAssumption, FilesInv, AnswerKeep
    PROVE  \E S : Goes(S)
<1> DEFINE c == view.current
           v == Answered
           t == Question1.seen
           x == [v EXCEPT !.recorded[c] = t]
           w == SetModified(x, c)
<1>1. /\ view.questions # <<>> /\ Resume(w, disk)
      /\ NoTick({c}) /\ UNCHANGED <<disk, leaving, built, touched>>
  BY DEF AnswerKeep
<1>2. /\ ViewOK(v, refused) /\ SameButQuestions(view, v) /\ v \in ViewType
      /\ c \in File /\ c \in Items(view) /\ {c} \in SUBSET File /\ t \in Time
  BY <1>1, AnsweredKeeps DEF ViewOK, Question
<1>3. t \in Seen(view.questions) \ {0}
  <2>1. /\ Len(view.questions) \in DOMAIN view.questions
        /\ \A i \in DOMAIN view.questions : view.questions[i].kind = "changed" <=> view.questions[i].seen # 0
    BY <1>1, AnsweredEffect, ViewFacts DEF Formed, AskedOf
  <2>. QED BY <2>1 DEF AnswerKeep, Question1, Seen
<1>4. Quiet(view, v, disk)
  BY <1>1, AnsweredIsQuiet
<1>5. v.modified[c] \in BOOLEAN /\ TRUE \in BOOLEAN /\ c \in Items(v)
  BY <1>2 DEF SameButQuestions, ViewType
<1>6. TextChange(v, x, c, v.text[c], v.clean[c], t, v.modified[c])
  BY <1>2, RecordChange
<1>. HIDE DEF c, v, t, x
<1>7. OnlyOf(v, x, disk, c) /\ Changed(v, x, c, v.text[c], v.clean[c], t, v.modified[c])
  BY <1>2, <1>5, <1>6, TextOthers
<1>8. ViewOK(x, refused) /\ x \in ViewType /\ c \in Items(x)
  BY <1>2, <1>5, <1>6, TextStep DEF ViewOK, SameItems
<1>9. TextChange(x, w, c, x.text[c], NoText, x.recorded[c], TRUE)
  BY <1>2, <1>8, ModifiedChange
<1>. HIDE DEF w
<1>10. OnlyOf(x, w, disk, c) /\ Changed(x, w, c, x.text[c], NoText, x.recorded[c], TRUE)
  BY <1>2, <1>5, <1>8, <1>9, TextOthers
<1>11. ViewOK(w, refused)
  BY <1>5, <1>8, <1>9, TextStep
<1>12. OnlyOf(view, w, disk, c)
  BY <1>4, <1>7, <1>10, OnlyTwice, OnlyBetween
<1>13. Edited(view, w, c)
  <2>1. /\ w.text[c] = v.text[c] /\ w.clean[c] = NoText /\ w.recorded[c] = t /\ w.modified[c]
        /\ c \in Items(w) /\ (c \in w.correlated => c \in v.correlated /\ v.modified[c])
    BY <1>5, <1>7, <1>10 DEF Changed
  <2>2. v.text = view.text /\ v.modified = view.modified /\ v.correlated = view.correlated
    BY <1>4 DEF Quiet, SameTexts
  <2>. QED BY <1>2, <1>3, <2>1, <2>2 DEF Edited
<1>14. Change(w, {c}, c)
  BY <1>13 DEF Change
<1>15. Quiet(w, view', disk)
  BY <1>1, <1>11, ResumeIsQuiet, ViewFacts
<1>16. TextsChange({c})
  BY <1>1, <1>2, <1>12, <1>14, <1>15, DiskStays, OneGoes
<1>. QED BY <1>1, <1>2, <1>16 DEF Goes

\* The missing file is written again, with the text of its editor.
LEMMA AnswerCreateGoes ==
    ASSUME SourceAssumption, FilesInv, FilesInv', AnswerCreate, ~refused
    PROVE  \E S : Goes(S)
<1> DEFINE f == Question1.file
           v == Answered
           w == SetModified(v, view.current)
           z == Saved(w, f, Now)
<1>1. /\ view.questions # <<>> /\ UNCHANGED <<leaving, built, touched>>
      /\ IF w.modified[f] THEN Tick({f}) /\ disk' = Write(disk, f, w.text[f], Now) ELSE Still /\ disk' = disk
      /\ Resume(IF w.modified[f] THEN z ELSE w, disk')
  BY DEF AnswerCreate
<1>2. /\ ViewOK(v, refused) /\ SameButQuestions(view, v) /\ v \in ViewType
      /\ f \in File /\ f \in Items(view) /\ {f} \in SUBSET File /\ view.current = f
  BY <1>1, AnsweredKeeps DEF ViewOK
<1>3. TextChange(v, w, f, v.text[f], NoText, v.recorded[f], TRUE) /\ TRUE \in BOOLEAN /\ f \in Items(v)
  BY <1>2, ModifiedChange DEF SameButQuestions
<1>4. Quiet(view, v, disk')
  BY <1>1, AnsweredIsQuiet
<1>. HIDE DEF f, v, w
<1>5. OnlyOf(v, w, disk', f) /\ Changed(v, w, f, v.text[f], NoText, v.recorded[f], TRUE)
  BY <1>2, <1>3, TextOthers
<1>6. ViewOK(w, refused) /\ w \in ViewType /\ f \in Items(w) /\ w.modified[f] /\ w.text[f] = view.text[f]
  <2>1. ViewOK(w, refused) /\ w \in ViewType
    BY <1>2, <1>3, TextStep DEF ViewOK
  <2>. QED BY <1>3, <1>4, <1>5, <2>1 DEF Changed, Quiet, SameTexts
<1>7. /\ Tick({f}) /\ disk' = Write(disk, f, w.text[f], Now) /\ Resume(z, disk') /\ disk' \in DiskType
  BY <1>1, <1>6, NextFacts
<1>8. Now \in Time /\ clock' = Now /\ FALSE \in BOOLEAN
  BY <1>2, <1>7, TicksType, ViewFacts
<1>9. OnlyOf(w, z, disk', f) /\ Stored(w, z, disk', Now, f)
  BY <1>2, <1>6, <1>7, <1>8, StoredChange, ViewFacts
<1>10. TextChange(w, z, f, w.text[f], w.text[f], Now, FALSE)
  BY <1>2, <1>6, <1>8, SavedChange
<1>. HIDE DEF z
<1>11. ViewOK(z, refused)
  BY <1>6, <1>8, <1>10, TextStep
<1>12. OnlyOf(view, z, disk', f)
  BY <1>4, <1>5, <1>9, OnlyTwice, OnlyBetween
<1>13. Stored(view, z, disk', Now, f)
  BY <1>2, <1>4, <1>5, <1>6, <1>9 DEF Stored, OnlyOf, Quiet, SameTexts
<1>14. Change(z, {f}, f)
  BY <1>8, <1>13 DEF Change
<1>15. \A g \in File : DiskChange({f}, g)
  <2> DEFINE txt == w.text[f]
  <2>1. txt.of \in {f, view.text[f].of} /\ disk' = Write(disk, f, txt, Now)
    BY <1>6, <1>7
  <2>. HIDE DEF txt
  <2>. QED BY <1>2, <1>8, <2>1, DiskWritten, ViewFacts
<1>16. Quiet(z, view', disk')
  BY <1>1, <1>7, <1>11, ResumeIsQuiet
<1>17. TextsChange({f})
  BY <1>2, <1>12, <1>14, <1>15, <1>16, OneGoes
<1>. QED BY <1>1, <1>2, <1>7, <1>17 DEF Goes

\* The missing file is removed from the project.
LEMMA AnswerRemoveGoes ==
    ASSUME SourceAssumption, FilesInv, AnswerRemove
    PROVE  \E S : Goes(S)
<1> DEFINE f == Question1.file
           v == Answered
           ok == TRUE
           w == RemoveInputFile(v, disk, f, ok)
<1>1. /\ view.questions # <<>> /\ Resume(w, disk)
      /\ NoTick({f}) /\ UNCHANGED <<disk, leaving, built, touched>>
  BY DEF AnswerRemove
<1>2. /\ v \in ViewType /\ Formed(v) /\ f \in File /\ {f} \in SUBSET File /\ ok \in BOOLEAN
      /\ \A i \in DOMAIN v.questions : v.questions[i].file # f
      /\ v.questions # <<>> => ok
      /\ refused \/ v.questions = <<>>
  BY <1>1, AnsweredKeeps DEF ViewOK
<1>3. Quiet(view, v, disk)
  BY <1>1, AnsweredIsQuiet
<1>4. ok = TRUE
  OBVIOUS
<1>. HIDE DEF f, v, ok
<1>5. /\ w \in ViewType /\ Formed(w) /\ (ok /\ v.questions = <<>> => Steady(w))
  BY <1>2, ForgetKeeps, ViewFacts
<1>6. OnlyOf(v, w, disk, f) /\ Closed(w, f) /\ f \notin w.correlated
  BY <1>2, ForgetChange, ViewFacts
<1>. HIDE DEF w
<1>7. ViewOK(w, refused)
  BY <1>2, <1>4, <1>5 DEF ViewOK
<1>8. Quiet(w, view', disk)
  BY <1>1, <1>7, ResumeIsQuiet, ViewFacts
<1>9. OnlyOf(view, w, disk, f)
  BY <1>3, <1>6, OnlyBetween
<1>10. Change(w, {f}, f)
  BY <1>6 DEF Change
<1>11. TextsChange({f})
  BY <1>1, <1>2, <1>8, <1>9, <1>10, DiskStays, OneGoes
<1>. QED BY <1>1, <1>2, <1>11 DEF Goes

-----------------------------------------------------------------------------
(* The inductive invariant of the texts, step by step.                      *)

\* An answer "Cancel" is not forgotten.
LEMMA RefusedStays ==
    ASSUME SourceAssumption, FilesInv, Next, refused
    PROVE  refused'
<1>1. refused \in BOOLEAN
  BY ViewFacts
<1>2. CASE \E f \in File : \/ AddFile(f) \/ CreateFile(f) \/ ClickItem(f) \/ CloseItem(f)
                           \/ ExternalWrite(f) \/ ExternalDelete(f)
  BY <1>1, <1>2 DEF AddFile, CreateFile, ClickItem, CloseItem, ExternalWrite, ExternalDelete, history
<1>3. CASE Type \/ Undo \/ SaveCurrentFile \/ OpenSettingsButton \/ OpenSettingsAction \/ ChangeSetting
  BY <1>3 DEF Type, Undo, SaveCurrentFile, OpenSettingsButton, OpenSettingsAction, ChangeSetting, history
<1>4. CASE MoveFocus(1) \/ MoveFocus(2) \/ PressReturn \/ GoHome \/ ExitRefused \/ CloseNext \/ ApplicationActive
  BY <1>1, <1>4 DEF MoveFocus, PressReturn, GoHome, ExitRefused, CloseNext, ApplicationActive, history
<1>5. CASE AnswerReload \/ AnswerKeep \/ AnswerCreate \/ AnswerRemove
  BY <1>1, <1>5 DEF AnswerReload, AnswerKeep, AnswerCreate, AnswerRemove, Resume
<1>6. CASE ClickBuild \/ BuildReads \/ BuildFails \/ BuildSucceeds
  BY <1>1, <1>6 DEF ClickBuild, BuildReads, BuildFails, BuildSucceeds, history
<1>. QED BY <1>2, <1>3, <1>4, <1>5, <1>6 DEF Next

\* The actions of this module that end or begin no build.
OtherThanBuild ==
    \/ Type \/ Undo \/ SaveCurrentFile
    \/ OpenSettingsButton \/ OpenSettingsAction \/ ChangeSetting
    \/ \E f \in File : AddFile(f) \/ CreateFile(f) \/ ClickItem(f) \/ CloseItem(f)
    \/ MoveFocus(1) \/ MoveFocus(2) \/ PressReturn
    \/ GoHome \/ ExitRefused \/ CloseNext
    \/ \E f \in File : ExternalWrite(f) \/ ExternalDelete(f)
    \/ ApplicationActive
    \/ AnswerReload \/ AnswerKeep \/ AnswerCreate \/ AnswerRemove

\* Each of them is described.
LEMMA OthersGo ==
    ASSUME SourceAssumption, FilesInv, FilesInv', OtherThanBuild, ~refused, ~refused'
    PROVE  \E S : Goes(S)
<1>1. ASSUME NEW f \in File, AddFile(f) \/ CreateFile(f) \/ ClickItem(f) \/ CloseItem(f)
      PROVE  \E S : Goes(S)
  BY <1>1, AddFileGoes, CreateFileGoes, ClickItemGoes, CloseItemGoes
<1>2. ASSUME NEW f \in File, ExternalWrite(f) \/ ExternalDelete(f)
      PROVE  \E S : Goes(S)
  BY <1>2, ExternalGoes
<1>3. CASE Type \/ Undo \/ SaveCurrentFile \/ OpenSettingsButton \/ OpenSettingsAction \/ ChangeSetting
  BY <1>3, TypeGoes, UndoGoes, SaveCurrentFileGoes, SettingsGo
<1>4. CASE MoveFocus(1) \/ MoveFocus(2) \/ PressReturn \/ GoHome \/ CloseNext \/ ApplicationActive
  BY <1>4, SettingsGo, PressReturnGoes, GoHomeGoes, CloseNextGoes, ApplicationActiveGoes
<1>5. CASE AnswerReload \/ AnswerKeep \/ AnswerCreate \/ AnswerRemove
  BY <1>5, AnswerReloadGoes, AnswerKeepGoes, AnswerCreateGoes, AnswerRemoveGoes
<1>6. CASE ExitRefused
  BY <1>6 DEF ExitRefused
<1>. QED BY <1>1, <1>2, <1>3, <1>4, <1>5, <1>6 DEF OtherThanBuild

\* The build learns of what is typed or written.
LEMMA BuildGoesOn ==
    ASSUME SourceAssumption, FilesInv, BuildKnows, NEW S, Goes(S)
    PROVE  BuildKnows'
<1>1. /\ build'.phase = build.phase /\ build'.files = build.files
      /\ Building => build.changed \cup S \subseteq build'.changed
  <2>1. build \in BuildType
    BY ViewFacts DEF TypeOK, BuildType
  <2>2. CASE Tick(S) \/ NoTick(S)
    BY <2>1, <2>2 DEF Tick, NoTick, BuildType
  <2>3. CASE Still /\ S = {}
    BY <2>3 DEF Still
  <2>. QED BY <2>2, <2>3 DEF Goes
<1>2. \A f \in File : Change(view', S, f) /\ DiskChange(S, f)
  BY DEF Goes, TextsChange
<1>3. ASSUME build'.phase = "read", NEW f \in File \ build'.changed, build'.files[f] # NoText
      PROVE  disk'.text[f] = build'.files[f]
  <2>1. Building /\ f \notin build.changed /\ f \notin S
    BY <1>1, <1>3 DEF Building
  <2>2. disk'.text[f] = disk.text[f]
    BY <1>2, <2>1 DEF DiskChange
  <2>. QED BY <1>1, <1>3, <2>1, <2>2 DEF BuildKnows
<1>4. ASSUME Building', NEW f \in File, view'.modified[f]
      PROVE  f \in build'.changed
  <2>1. Building
    BY <1>1, <1>4 DEF Building
  <2>2. view.modified[f] \/ f \in S
    BY <1>2, <1>4 DEF Change, Untouched, Edited, Undone, Stored, Loaded, Dropped, Closed
  <2>. QED BY <1>1, <2>1, <2>2 DEF BuildKnows
<1>. QED BY <1>3, <1>4 DEF BuildKnows

\* What a step does to each file is enough, if the build knows of it.
LEMMA TextsKeep ==
    ASSUME SourceAssumption, FilesInv, FilesInv', TextsInv, ~refused, UNCHANGED <<built, touched>>,
           leaving => leaving', clock' \in {clock, Now}, NEW S, TextsChange(S),
           leaving' \/ (BuildKnows => BuildKnows')
    PROVE  TextsInv'
<1>1. Own(view, disk) /\ Past(view, disk, clock)
  BY DEF TextsInv
<1>2. Own(view', disk') /\ Past(view', disk', clock')
  BY <1>1, OwnChange, PastChange
<1>3. ASSUME ~leaving'
      PROVE  Agree(view', disk') /\ Correlation(view', disk', built', touched') /\ BuildKnows'
  <2>1. Agree(view, disk) /\ Correlation(view, disk, built, touched) /\ BuildKnows
    BY <1>3 DEF TextsInv
  <2>2. Agree(view', disk') /\ Correlation(view', disk', built, touched)
    BY <1>1, <1>3, <2>1, AgreeChange, CorrelationChange
  <2>. QED BY <1>3, <2>1, <2>2
<1>. QED BY <1>2, <1>3 DEF TextsInv

\* The steps that end or begin no build.
LEMMA OthersKeep ==
    ASSUME SourceAssumption, FilesInv, FilesInv', TextsInv, OtherThanBuild, ~refused, ~refused'
    PROVE  TextsInv'
<1>1. PICK S : Goes(S)
  BY OthersGo
<1>2. BuildKnows => BuildKnows'
  BY <1>1, BuildGoesOn
<1>3. clock' \in {clock, Now}
  BY <1>1 DEF Goes, Tick, NoTick, Still
<1>. QED BY <1>1, <1>2, <1>3, TextsKeep DEF Goes

\* HandleBuildProjectEvent: when the build begins, nothing is unsaved.
LEMMA ClickBuildTexts ==
    ASSUME SourceAssumption, FilesInv, ClickBuild, ~refused'
    PROVE  /\ UNCHANGED <<built, touched, leaving>> /\ clock' \in {clock, Now} /\ BuildKnows'
           /\ \E S : TextsChange(S)
<1> DEFINE S == Unsaved(view)
           w == IF S = {} THEN view ELSE SavedAll(view, Now)
<1>1. /\ disk' = WriteAll(view, disk, Now) /\ UNCHANGED <<built, touched, leaving>>
      /\ IF S = {} THEN clock' = clock ELSE clock < MaxClock /\ clock' = Now
  BY DEF ClickBuild
<1>2. /\ view' = [w EXCEPT !.pending = FALSE]
      /\ build' = [phase |-> "running", files |-> NoTexts, changed |-> {}]
  <2>1. PICK ok \in BOOLEAN :
           /\ view' = [w EXCEPT !.pending = @ /\ ~ok] /\ refused' = (refused \/ ~ok)
           /\ build' = IF ok THEN [phase |-> "running", files |-> NoTexts, changed |-> {}] ELSE build
    BY DEF ClickBuild
  <2>2. ok = TRUE
    BY <2>1
  <2>3. [w EXCEPT !.pending = @ /\ ~ok] = [w EXCEPT !.pending = FALSE]
    BY <2>2
  <2>. QED BY <2>1, <2>2, <2>3
<1>3. /\ w \in ViewType /\ w.questions = view.questions /\ w.lastBuilt = view.lastBuilt
      /\ \A f \in File : Change(w, S, f) /\ DiskChange(S, f) /\ ~w.modified[f]
  <2>1. CASE S = {}
    <3>1. w = view /\ \A f \in File : ~view.modified[f]
      BY <2>1, ViewFacts DEF Formed, ClosedOK, Unsaved
    <3>2. \A f \in File : disk'.text[f] = disk.text[f] /\ disk'.time[f] = disk.time[f]
      BY <1>1, <2>1 DEF WriteAll
    <3>. HIDE DEF w, S
    <3>. QED BY <3>1, <3>2, ViewFacts DEF Change, Untouched, DiskChange
  <2>2. CASE S # {}
    <3>1. clock' = Now /\ Now \in Time /\ w = SavedAll(view, Now)
      BY <1>1, <2>2, ViewFacts DEF TypeOK, Time, Now, SourceAssumption
    <3>. HIDE DEF w
    <3>2. w \in ViewType
      BY <3>1, SavedAllChange, ViewFacts
    <3>. QED BY <1>1, <3>1, <3>2, SaveAllChange
  <2>. QED BY <2>1, <2>2
<1>. HIDE DEF w, S
<1>4. Stays(w, view')
  BY <1>2, <1>3, QuietStays
<1>5. Quiet(w, view', disk')
  BY <1>4, StaysIsQuiet
<1>6. \A f \in File : Change(view', S, f) /\ ~view'.modified[f]
  BY <1>3, <1>5, ThenQuiet DEF Quiet, SameTexts
<1>7. Seen(view'.questions) \subseteq Seen(view.questions) \cup Moments(disk') /\ view'.lastBuilt = view.lastBuilt
  BY <1>3, <1>5 DEF Quiet, SameTexts
<1>8. TextsChange(S)
  BY <1>3, <1>6, <1>7 DEF TextsChange
<1>9. BuildKnows'
  BY <1>2, <1>6 DEF BuildKnows
<1>. QED BY <1>1, <1>8, <1>9 DEF S

\* The build reads, or fails.
LEMMA BuildTexts ==
    ASSUME SourceAssumption, FilesInv, BuildReads \/ BuildFails
    PROVE  /\ UNCHANGED <<built, touched, leaving>> /\ clock' \in {clock, Now} /\ (BuildKnows => BuildKnows')
           /\ \E S : TextsChange(S)
<1>1. UNCHANGED <<view, disk, clock, leaving, built, touched>>
  BY DEF BuildReads, BuildFails, history
<1>2. \A f \in File : Change(view', {}, f)
  BY <1>1 DEF Change, Untouched
<1>3. TextsChange({})
  BY <1>1, <1>2, DiskStays DEF TextsChange
<1>4. CASE BuildReads
  <2> DEFINE B == [f \in File |-> IF f \in Items(view) THEN disk.text[f] ELSE NoText]
  <2>1. build.phase = "running" /\ build' = [build EXCEPT !.phase = "read", !.files = B]
    BY <1>4 DEF BuildReads
  <2>2. \A f \in File : B[f] = NoText \/ B[f] = disk.text[f]
    OBVIOUS
  <2>. HIDE DEF B
  <2>3. build'.files = B /\ build'.changed = build.changed
    BY <2>1, ViewFacts DEF TypeOK
  <2>. QED BY <1>1, <1>3, <2>1, <2>2, <2>3 DEF BuildKnows, Building
<1>5. CASE BuildFails
  <2>1. build'.phase = "idle"
    BY <1>5, ViewFacts DEF BuildFails, TypeOK
  <2>. QED BY <1>1, <1>3, <2>1 DEF BuildKnows, Building
<1>. QED BY <1>4, <1>5

\* HandleProjectBuildSuccess: no text changes, and no item gets another time.
LEMMA BuildSucceedsTexts ==
    ASSUME SourceAssumption, FilesInv, BuildSucceeds, ~refused'
    PROVE  /\ view'.text = view.text /\ view'.clean = view.clean /\ view'.modified = view.modified
           /\ view'.lastBuilt = Now /\ Items(view') = Items(view)
           /\ \A f \in Items(view) : view'.recorded[f] = view.recorded[f]
           /\ \A f \in File : view'.recorded[f] \in {view.recorded[f], disk.time[f]}
           /\ view'.correlated \subseteq view.correlated \cup Items(view)
           /\ Seen(view'.questions) \subseteq Seen(view.questions) \cup Moments(disk)
<1> DEFINE w == [Correlated(view, disk) EXCEPT !.lastBuilt = Now, !.selected = None]
           ok == TRUE
<1>1. clock < MaxClock /\ Building /\ ok \in BOOLEAN
  BY DEF BuildSucceeds, Building
<1>2. Now \in Time
  BY <1>1, ViewFacts DEF Time, Now, SourceAssumption
<1>3. \/ w.last = None /\ view' = w
      \/ w.last # None /\ view' = Display(w, disk, w.last, ok)
  <2>1. IF w.last = None
        THEN view' = w /\ refused' = refused
        ELSE \E a \in Answers(w) : view' = Display(w, disk, w.last, a) /\ refused' = (refused \/ ~a)
    BY DEF BuildSucceeds
  <2>. HIDE DEF w
  <2>2. CASE w.last # None
    <3>1. PICK a \in BOOLEAN : view' = Display(w, disk, w.last, a) /\ refused' = (refused \/ ~a)
      BY <2>1, <2>2, AnswersType
    <3>2. a = ok
      BY <3>1
    <3>. QED BY <2>2, <3>1, <3>2
  <2>. QED BY <2>1, <2>2
<1>4. Succeeds(view, w, disk, Now)
  BY <1>2, SucceedEffect, ViewFacts
<1>. HIDE DEF w, ok
<1>5. /\ w \in ViewType /\ w.menu = view.menu /\ w.last = view.last /\ w.questions = view.questions
      /\ w.text = view.text /\ w.clean = view.clean /\ w.modified = view.modified /\ w.lastBuilt = Now
      /\ view.editors \subseteq w.editors
      /\ w.correlated \subseteq view.correlated \cup Items(view)
      /\ \/ w.recorded = view.recorded
         \/ view.selected \notin view.editors /\ w.recorded = [view.recorded EXCEPT ![view.selected] = disk.time[view.selected]]
  BY <1>4, Zenon DEF Succeeds
<1>6. Items(w) = Items(view) /\ Items(view) \subseteq view.editors /\ Items(view) \subseteq File
  BY <1>5, ViewFacts DEF Items, Formed
<1>7. /\ \A f \in Items(view) : w.recorded[f] = view.recorded[f]
      /\ \A f \in File : w.recorded[f] \in {view.recorded[f], disk.time[f]}
  <2>1. view.recorded \in [File -> Time]
    BY ViewFacts DEF ViewType
  <2>. QED BY <1>5, <1>6, <2>1
<1>8. CASE view' = w
  BY <1>5, <1>6, <1>7, <1>8
<1>9. CASE w.last # None /\ view' = Display(w, disk, w.last, ok)
  <2>1. w.last \in Items(w) /\ w.last \in w.editors
    BY <1>5, <1>6, <1>9, ViewFacts DEF Formed
  <2>2. Len(w.menu) <= NumFiles
    BY <1>5, FormedIsDisplayable, ViewFacts
  <2>3. Displays(w, view', disk, w.last, ok)
    BY <1>1, <1>5, <1>9, <2>1, <2>2, DisplayEffect, ViewFacts
  <2>4. Quiet(w, view', disk)
    BY <1>1, <1>5, <2>1, <2>3, DisplayIsQuiet, ViewFacts
  <2>. QED BY <1>5, <1>6, <1>7, <2>4 DEF Quiet, SameTexts
<1>. QED BY <1>3, <1>8, <1>9

\* What was built is what the editors and the files hold.
LEMMA BuildSucceedsKeeps ==
    ASSUME SourceAssumption, FilesInv, TextsInv, BuildSucceeds, ~refused, ~refused'
    PROVE  TextsInv'
<1>1. /\ build.phase = "read" /\ Building /\ clock' = Now /\ built' = build.files /\ touched' = build.changed
      /\ build' = [build EXCEPT !.phase = "idle", !.files = NoTexts] /\ UNCHANGED <<disk, leaving>>
  BY DEF BuildSucceeds, Building
<1>2. /\ view'.text = view.text /\ view'.clean = view.clean /\ view'.modified = view.modified
      /\ view'.lastBuilt = Now /\ Items(view') = Items(view)
      /\ \A f \in Items(view) : view'.recorded[f] = view.recorded[f]
      /\ \A f \in File : view'.recorded[f] \in {view.recorded[f], disk.time[f]}
      /\ view'.correlated \subseteq view.correlated \cup Items(view)
      /\ Seen(view'.questions) \subseteq Seen(view.questions) \cup Moments(disk)
  BY BuildSucceedsTexts
<1>3. /\ Own(view, disk) /\ Past(view, disk, clock) /\ Agree(view, disk)
      /\ Correlation(view, disk, built, touched) /\ BuildKnows /\ ~leaving
  BY <1>1 DEF TextsInv, FilesInv, BuildOK
<1>4. Own(view', disk')
  BY <1>1, <1>2, <1>3 DEF Own
<1>5. Past(view', disk', clock')
  <2>1. Now \in Nat /\ clock \in Nat /\ clock <= Now
    BY TimeFacts
  <2>2. \A f \in File : /\ view.recorded[f] \in Nat /\ disk.time[f] \in Nat
                        /\ view.recorded[f] <= clock /\ disk.time[f] <= clock
    BY <1>3, TimeFacts DEF Past
  <2>3. \A f \in File : view'.recorded[f] <= Now /\ disk.time[f] <= Now
    BY <1>2, <2>1, <2>2
  <2>4. \A s \in Seen(view.questions) : s \in Nat /\ s <= clock
    BY <1>3, TimeFacts DEF Past
  <2>5. \A s \in Seen(view'.questions) : s <= Now
    BY <1>2, <2>1, <2>2, <2>4 DEF Moments
  <2>. QED BY <1>1, <1>2, <2>1, <2>3, <2>5 DEF Past
<1>6. Agree(view', disk')
  BY <1>1, <1>2, <1>3 DEF Agree
<1>7. Correlation(view', disk', built', touched')
  <2>1. view'.correlated \subseteq Items(view') /\ Items(view) \subseteq File
    BY <1>2, <1>3, ViewFacts DEF Correlation
  <2>2. \A f \in File \ touched' : built'[f] # NoText => disk'.text[f] = built'[f]
    BY <1>1, <1>3 DEF BuildKnows
  <2>3. \A f \in File : view'.modified[f] => f \in touched'
    BY <1>1, <1>2, <1>3 DEF BuildKnows
  <2>4. ASSUME NEW f \in view'.correlated \ touched', built'[f] # NoText
        PROVE  view'.recorded[f] # disk'.time[f] \/ view'.text[f] = built'[f]
    <3>1. f \in Items(view) /\ f \in File /\ ~view.modified[f]
      BY <1>2, <2>1, <2>3, <2>4
    <3>2. view.recorded[f] # disk.time[f] \/ view.text[f] = disk.text[f]
      BY <1>3, <3>1 DEF Agree
    <3>3. disk'.text[f] = built'[f]
      BY <2>2, <2>4, <3>1
    <3>. QED BY <1>1, <1>2, <3>1, <3>2, <3>3
  <2>5. ASSUME NEW f \in view'.correlated, view'.modified[f]
        PROVE  f \in touched' \/ built'[f] = NoText
    <3>1. f \in File
      BY <1>2, <2>1
    <3>. QED BY <2>3, <2>5, <3>1
  <2>6. \A f \in view'.correlated \ touched' :
           built'[f] = NoText \/ view'.recorded[f] # disk'.time[f] \/ view'.text[f] = built'[f]
    BY <2>4
  <2>. QED BY <2>1, <2>2, <2>5, <2>6, Zenon DEF Correlation
<1>8. BuildKnows'
  <2>1. build'.phase = "idle"
    BY <1>1, ViewFacts DEF TypeOK
  <2>. QED BY <2>1 DEF BuildKnows, Building
<1>. QED BY <1>4, <1>5, <1>6, <1>7, <1>8 DEF TextsInv

\* Nothing is typed or built yet.
LEMMA TextsInit ==
    ASSUME SourceAssumption, Init
    PROVE  TextsInv
<1>1. NoText.of = None /\ None \in {None} /\ \A f \in File : Empty(f).of = f
  BY DEF NoText, Empty
<1>2. /\ view.text = [f \in File |-> Empty(f)] /\ view.clean = NoTexts /\ view.menu = <<>>
      /\ view.recorded = [f \in File |-> 0] /\ view.correlated = {} /\ view.lastBuilt = 0 /\ view.questions = <<>>
      /\ disk.text = [f \in File |-> IF f < NumFiles THEN [of |-> f, at |-> 1] ELSE NoText]
      /\ disk.time = [f \in File |-> IF f < NumFiles THEN 1 ELSE 0]
      /\ clock = 1 /\ build.phase = "idle" /\ built = NoTexts
  BY DEF Init
<1>3. Items(view) = {} /\ Seen(view.questions) = {}
  BY <1>2 DEF Items, Seen
<1>4. Own(view, disk)
  BY <1>1, <1>2 DEF Own, NoTexts
<1>5. Past(view, disk, clock)
  BY <1>2, <1>3 DEF Past
<1>6. Agree(view, disk) /\ BuildKnows
  BY <1>2, <1>3 DEF Agree, BuildKnows, Building
<1>7. Correlation(view, disk, built, touched)
  BY <1>2, <1>3 DEF Correlation, NoTexts
<1>. QED BY <1>4, <1>5, <1>6, <1>7 DEF TextsInv

\* Every step preserves the invariant.
LEMMA TextsNext ==
    ASSUME SourceAssumption, FilesInv, FilesInv', TextsInv, [Next]_vars
    PROVE  TextsInv'
<1>1. CASE UNCHANGED vars
  BY <1>1 DEF vars, TextsInv, BuildKnows, Building
<1>2. CASE Next
  <2>1. CASE refused'
    BY <2>1 DEF TextsInv
  <2>2. CASE ~refused'
    <3>1. ~refused
      BY <1>2, <2>2, RefusedStays
    <3>2. CASE OtherThanBuild
      BY <2>2, <3>1, <3>2, OthersKeep
    <3>3. CASE ClickBuild
      BY <2>2, <3>1, <3>3, ClickBuildTexts, TextsKeep
    <3>4. CASE BuildReads \/ BuildFails
      BY <3>1, <3>4, BuildTexts, TextsKeep
    <3>5. CASE BuildSucceeds
      BY <2>2, <3>1, <3>5, BuildSucceedsKeeps
    <3>. QED BY <1>2, <3>2, <3>3, <3>4, <3>5 DEF Next, OtherThanBuild
  <2>. QED BY <2>1, <2>2
<1>. QED BY <1>1, <1>2

\* No step loses an unsaved text.
LEMMA UnsavedNext ==
    ASSUME SourceAssumption, FilesInv, FilesInv', Next,
           NEW f \in File, view.modified[f], ~view'.modified[f], ~refused'
    PROVE  \/ disk'.text[f] = view.text[f]
           \/ f \notin Items(view')
           \/ view'.text[f] = view.clean[f]
           \/ AnswerReload /\ Question1.file = f
           \/ leaving'
<1>1. ~refused
  BY RefusedStays
<1>2. CASE OtherThanBuild
  BY <1>1, <1>2, OthersGo, UnsavedChange DEF Goes
<1>3. CASE ClickBuild
  BY <1>3, ClickBuildTexts, UnsavedChange
<1>4. CASE BuildReads \/ BuildFails
  BY <1>4, BuildTexts, UnsavedChange
<1>5. CASE BuildSucceeds
  <2>1. view'.modified = view.modified
    BY <1>5, BuildSucceedsTexts
  <2>. QED BY <2>1
<1>. QED BY <1>2, <1>3, <1>4, <1>5 DEF Next, OtherThanBuild

-----------------------------------------------------------------------------
(* The theorems.                                                            *)

\* The inductive invariant of the texts: own texts, past moments, and, while no
\* question about saving was canceled and nothing is being closed, editors that
\* agree with the disk and a build that knows of every change.
THEOREM TextsInvariant == Spec => []TextsInv
<1>1. Init => TextsInv
  BY TextsInit, SourceAssumption
<1>2. FilesInv /\ FilesInv' /\ TextsInv /\ [Next]_vars => TextsInv'
  BY TextsNext, SourceAssumption
<1>. QED BY <1>1, <1>2, FilesInvariant, PTL DEF Spec

\* A text stays with its file (SaveCurrentFile writes to the selected path,
\* SetSourceCodeText into the current editor), unless the user cancels a
\* question about pending build settings.
THEOREM TextStaysWithFile == Spec => []OwnTextUnlessRefused
<1>1. TextsInv => OwnTextUnlessRefused
  BY DEF TextsInv, Own, OwnTextUnlessRefused, OwnText
<1>. QED BY <1>1, TextsInvariant, PTL

\* An editor marked as saved shows what is on disk, or the recorded time
\* (file_modified_time_map_) differs from that of the file.
THEOREM SavedTextIsOnDisk == Spec => []CleanIsSaved
<1>1. FilesInv /\ TextsInv => CleanIsSaved
  BY DEF FilesInv, TextsInv, Agree, CleanIsSaved, EditorsMatchMenu
<1>. QED BY <1>1, FilesInvariant, TextsInvariant, PTL

\* Line correlation, once enabled (CurrentBuildSucceeded,
\* HandleEditorModificationStateChanged), leads to the text that was compiled.
THEOREM CorrelationIsRight == Spec => []CorrelatedIsBuilt
<1>1. TextsInv => CorrelatedIsBuilt
  BY DEF TextsInv, Correlation, CorrelatedIsBuilt
<1>. QED BY <1>1, TextsInvariant, PTL

\* An unsaved text leaves its editor only for the disk, when it is undone or
\* reloaded, or when its file is closed: no build, click or answer about
\* another file drops it.
THEOREM UnsavedTextIsKept == Spec => UnsavedIsKept
<1> DEFINE Kept ==
      \A f \in File :
          view.modified[f] /\ ~view'.modified[f] =>
              \/ disk'.text[f] = view.text[f]
              \/ f \notin Items(view')
              \/ view'.text[f] = view.clean[f]
              \/ AnswerReload /\ Question1.file = f
              \/ refused' \/ leaving'
<1>1. FilesInv /\ FilesInv' /\ [Next]_vars => [Kept]_vars
  BY UnsavedNext, SourceAssumption
<1>. QED BY <1>1, FilesInvariant, PTL DEF Spec, UnsavedIsKept
=============================================================================
