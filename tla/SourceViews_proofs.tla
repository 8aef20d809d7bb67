------------------------- MODULE SourceViews_proofs -------------------------
(***************************************************************************)
(* What the handlers of SourceFiles do to a view, stated for the whole of  *)
(* the view, and what they keep of its shape.                              *)
(***************************************************************************)
EXTENDS SourceFiles, FunctionTheorems, FiniteSetTheorems, SequenceTheorems, TLAPS

\* No file is in the menu twice.
Distinct(menu) == \A i, j \in DOMAIN menu : menu[i] = menu[j] => i = j

\* Where the user is, and what is open, are the same in v and w.
SamePlaces(v, w) ==
    /\ w.menu = v.menu /\ w.editors = v.editors /\ w.questions = v.questions
    /\ w.selected = v.selected /\ w.last = v.last /\ w.focus = v.focus
    /\ w.current = v.current /\ w.mode = v.mode /\ w.pending = v.pending
    /\ w.lastBuilt = v.lastBuilt

\* The texts are the same in v and w, and what is known of them.
SameTexts(v, w) ==
    /\ w.text = v.text /\ w.clean = v.clean /\ w.modified = v.modified
    /\ w.correlated = v.correlated /\ w.lastBuilt = v.lastBuilt

\* The question that CheckExternal asks about the file c.
QuestionAbout(d, c) ==
    [file |-> c, kind |-> IF Exists(d, c) THEN "changed" ELSE "deleted",
     seen |-> d.time[c], activate |-> FALSE]

\* The questions qs, and perhaps one about c, where there is none about c yet
\* and another moment than that of the file is recorded.
MayAsk(qs, new, recorded, d, c) ==
    \/ new = qs
    \/ /\ c \in File
       /\ new = Append(qs, QuestionAbout(d, c))
       /\ d.time[c] # recorded[c]
       /\ \A i \in DOMAIN qs : qs[i].file # c

\* Of the editors' documents, only that of f changes, to the text `text`, which
\* undoing leads back to `clean`; line correlation is enabled for no other file.
TextChange(v, w, f, text, clean, recorded, modified) ==
    /\ w \in ViewType
    /\ SamePlaces(v, w)
    /\ w.text = [v.text EXCEPT ![f] = text]
    /\ w.clean = [v.clean EXCEPT ![f] = clean]
    /\ w.recorded = [v.recorded EXCEPT ![f] = recorded]
    /\ w.modified = [v.modified EXCEPT ![f] = modified]
    /\ \A g \in w.correlated :
          \/ g \in v.correlated /\ (g = f => (v.modified[f] <=> modified))
          \/ g = f /\ ~modified /\ g \in v.correlated \cup Items(v) /\ recorded <= v.lastBuilt

\* A sequence without places is empty.
LEMMA NoPlaces ==
    ASSUME NEW S, NEW s \in Seq(S)
    PROVE  s = <<>> <=> DOMAIN s = {}
<1>1. Len(s) \in Nat /\ DOMAIN s = 1 .. Len(s)
  OBVIOUS
<1>2. s = <<>> <=> Len(s) = 0
  BY EmptySeq
<1>3. ASSUME Len(s) # 0 PROVE 1 \in DOMAIN s
  BY <1>1, <1>3
<1>4. ASSUME Len(s) = 0 PROVE \A i : i \notin DOMAIN s
  BY <1>1, <1>4
<1>. QED BY <1>2, <1>3, <1>4

-----------------------------------------------------------------------------
(* The menu.                                                                *)

\* The place of a file that is in the menu.
LEMMA PlaceType ==
    ASSUME NEW v \in ViewType, NEW f \in Items(v)
    PROVE  Place(v, f) \in 1 .. Len(v.menu) /\ v.menu[Place(v, f)] = f
<1>1. v.menu \in Seq(File) /\ DOMAIN v.menu = 1 .. Len(v.menu)
  BY DEF ViewType
<1>2. \E i \in DOMAIN v.menu : v.menu[i] = f
  BY DEF Items
<1>3. Place(v, f) \in DOMAIN v.menu /\ v.menu[Place(v, f)] = f
  BY <1>2 DEF Place
<1>. QED BY <1>1, <1>3

\* The items are files, and a menu without items is empty.
LEMMA ItemsType ==
    ASSUME NEW v \in ViewType
    PROVE  Items(v) \subseteq File /\ (Items(v) = {} <=> v.menu = <<>>) /\ (Len(v.menu) = 0 <=> v.menu = <<>>)
<1>1. v.menu \in Seq(File) /\ DOMAIN v.menu = 1 .. Len(v.menu) /\ Len(v.menu) \in Nat
  BY DEF ViewType
<1>2. Items(v) \subseteq File
  BY <1>1 DEF Items
<1>3. Len(v.menu) = 0 <=> v.menu = <<>>
  BY <1>1
<1>4. ASSUME Len(v.menu) # 0 PROVE v.menu[1] \in Items(v)
  BY <1>1, <1>4 DEF Items
<1>5. ASSUME v.menu = <<>> PROVE Items(v) = {}
  BY <1>5 DEF Items
<1>. QED BY <1>2, <1>3, <1>4, <1>5

\* There are no more items than files.
LEMMA MenuBound ==
    ASSUME SourceAssumption, NEW menu \in Seq(File), Distinct(menu)
    PROVE  Len(menu) \in Nat /\ Len(menu) <= NumFiles
<1>1. Len(menu) \in Nat /\ DOMAIN menu = 1 .. Len(menu) /\ menu \in [1 .. Len(menu) -> File]
  OBVIOUS
<1>2. menu \in Injection(1 .. Len(menu), File)
  BY <1>1 DEF Distinct, Injection, IsInjective
<1>3. /\ IsFiniteSet(1 .. Len(menu)) /\ Cardinality(1 .. Len(menu)) = Len(menu)
  BY <1>1, FS_Interval
<1>4. IsFiniteSet(File) /\ Cardinality(File) = NumFiles
  BY FS_Interval DEF File, SourceAssumption
<1>5. Cardinality(1 .. Len(menu)) <= Cardinality(File)
  BY <1>2, <1>3, <1>4, FS_Injection
<1>. QED BY <1>1, <1>3, <1>4, <1>5

-----------------------------------------------------------------------------
(* Handlers of the documents: nothing but the texts changes.                *)

\* SignalModified, for a view u that has another text of f than v.
LEMMA SignalChange ==
    ASSUME NEW v \in ViewType, NEW u \in ViewType, NEW f \in File, NEW m \in BOOLEAN,
           NEW text, NEW clean, NEW recorded, SamePlaces(v, u),
           u.text = [v.text EXCEPT ![f] = text], u.clean = [v.clean EXCEPT ![f] = clean],
           u.recorded = [v.recorded EXCEPT ![f] = recorded],
           u.modified = v.modified, u.correlated = v.correlated
    PROVE  TextChange(v, SignalModified(u, f, m), f, text, clean, recorded, m)
<1> DEFINE w == SignalModified(u, f, m)
<1>0. /\ Items(u) = Items(v) /\ u.recorded[f] = recorded /\ u.lastBuilt = v.lastBuilt
      /\ v.modified \in [File -> BOOLEAN]
  BY DEF Items, SamePlaces, ViewType
<1>1. CASE v.modified[f] = m
  <2>1. w = u
    BY <1>1 DEF SignalModified
  <2>2. u.modified = [v.modified EXCEPT ![f] = m]
    BY <1>0, <1>1
  <2>. QED BY <1>1, <2>1, <2>2 DEF TextChange
<1>2. CASE v.modified[f] # m
  <2> DEFINE M == [v.modified EXCEPT ![f] = m]
             C == IF ~m /\ recorded <= v.lastBuilt
                  THEN v.correlated \cup ({f} \cap Items(v)) ELSE v.correlated \ {f}
  <2>1. w = [u EXCEPT !.modified = M, !.correlated = C]
    BY <1>0, <1>2 DEF SignalModified
  <2>2. M \in [File -> BOOLEAN] /\ C \in SUBSET File
    BY DEF ViewType
  <2>3. \A g \in C : \/ g \in v.correlated /\ g # f
                     \/ g = f /\ ~m /\ g \in v.correlated \cup Items(v) /\ recorded <= v.lastBuilt
    <3>1. CASE ~m /\ recorded <= v.lastBuilt
      BY <3>1
    <3>2. CASE ~(~m /\ recorded <= v.lastBuilt)
      BY <3>2
    <3>. QED BY <3>1, <3>2
  <2>. HIDE DEF C
  <2>4. w \in ViewType
    BY <2>1, <2>2 DEF ViewType
  <2>5. SamePlaces(u, w) /\ w.text = u.text /\ w.clean = u.clean /\ w.recorded = u.recorded
        /\ w.modified = M /\ w.correlated = C
    BY <2>1 DEF SamePlaces, ViewType
  <2>6. SamePlaces(v, w)
    BY <2>5 DEF SamePlaces
  <2>7. \A g \in w.correlated :
           \/ g \in v.correlated /\ (g = f => (v.modified[f] <=> m))
           \/ g = f /\ ~m /\ g \in v.correlated \cup Items(v) /\ recorded <= v.lastBuilt
    BY <2>3, <2>5
  <2>8. /\ w.text = [v.text EXCEPT ![f] = text] /\ w.clean = [v.clean EXCEPT ![f] = clean]
        /\ w.recorded = [v.recorded EXCEPT ![f] = recorded]
        /\ w.modified = [v.modified EXCEPT ![f] = m]
    BY <2>5, Zenon
  <2>. QED BY <2>4, <2>6, <2>7, <2>8, Zenon DEF TextChange
<1>. QED BY <1>1, <1>2

\* Typing.
LEMMA TypeChange ==
    ASSUME NEW v \in ViewType, NEW f \in File, NEW t \in Time
    PROVE  TextChange(v, SignalModified([v EXCEPT !.text[f].at = t], f, TRUE), f,
                      [v.text[f] EXCEPT !.at = t], v.clean[f], v.recorded[f], TRUE)
<1> DEFINE x == [v.text[f] EXCEPT !.at = t]
           T == [v.text EXCEPT ![f] = x]
           u == [v EXCEPT !.text = T]
<1>1. [v EXCEPT !.text[f].at = t] = u
  OBVIOUS
<1>2. x \in Text /\ T \in [File -> Text]
  <2>1. v.text[f] \in Text /\ v.text \in [File -> Text]
    BY DEF ViewType
  <2>2. x \in Text
    BY <2>1 DEF Text
  <2>. QED BY <2>1, <2>2
<1>3. v.clean = [v.clean EXCEPT ![f] = v.clean[f]] /\ v.recorded = [v.recorded EXCEPT ![f] = v.recorded[f]]
  BY DEF ViewType
<1>. HIDE DEF x, T
<1>4. u \in ViewType /\ SamePlaces(v, u)
  BY <1>2 DEF SamePlaces, ViewType
<1>5. /\ u.clean = v.clean /\ u.text = T /\ u.recorded = v.recorded
      /\ u.modified = v.modified /\ u.correlated = v.correlated
  BY DEF ViewType
<1>. HIDE DEF u
<1>6. u.text = [v.text EXCEPT ![f] = x]
  BY <1>5 DEF T
<1>7. TRUE \in BOOLEAN
  OBVIOUS
<1>8. TextChange(v, SignalModified(u, f, TRUE), f, x, v.clean[f], v.recorded[f], TRUE)
  BY <1>3, <1>4, <1>5, <1>6, <1>7, SignalChange, Zenon
<1>. QED BY <1>1, <1>8, Zenon DEF x

\* Undoing everything since the text was loaded or saved.
LEMMA UndoChange ==
    ASSUME NEW v \in ViewType, NEW f \in File, v.clean[f] # NoText
    PROVE  TextChange(v, SignalModified([v EXCEPT !.text[f] = v.clean[f]], f, FALSE), f,
                      v.clean[f], v.clean[f], v.recorded[f], FALSE)
<1> DEFINE T == [v.text EXCEPT ![f] = v.clean[f]]
           u == [v EXCEPT !.text = T]
<1>1. [v EXCEPT !.text[f] = v.clean[f]] = u
  OBVIOUS
<1>2. T \in [File -> Text]
  BY DEF ViewType, MaybeText
<1>3. v.clean = [v.clean EXCEPT ![f] = v.clean[f]] /\ v.recorded = [v.recorded EXCEPT ![f] = v.recorded[f]]
  BY DEF ViewType
<1>. HIDE DEF T
<1>4. u \in ViewType /\ SamePlaces(v, u)
  BY <1>2 DEF SamePlaces, ViewType
<1>5. /\ u.clean = v.clean /\ u.text = T /\ u.recorded = v.recorded
      /\ u.modified = v.modified /\ u.correlated = v.correlated
  BY DEF ViewType
<1>. HIDE DEF u
<1>6. u.text = [v.text EXCEPT ![f] = v.clean[f]]
  BY <1>5 DEF T
<1>7. FALSE \in BOOLEAN
  OBVIOUS
<1>8. TextChange(v, SignalModified(u, f, FALSE), f, v.clean[f], v.clean[f], v.recorded[f], FALSE)
  BY <1>3, <1>4, <1>5, <1>6, <1>7, SignalChange, Zenon
<1>. QED BY <1>1, <1>8, Zenon

\* SetUnmodified.
LEMMA UnmodifiedChange ==
    ASSUME NEW v \in ViewType, NEW f \in File
    PROVE  TextChange(v, SetUnmodified(v, f), f, v.text[f], v.text[f], v.recorded[f], FALSE)
<1> DEFINE C == [v.clean EXCEPT ![f] = v.text[f]]
           u == [v EXCEPT !.clean = C]
<1>1. C \in [File -> MaybeText]
  BY DEF ViewType, MaybeText
<1>2. SetUnmodified(v, f) = SignalModified(u, f, FALSE)
  BY DEF SetUnmodified
<1>3. v.text = [v.text EXCEPT ![f] = v.text[f]] /\ v.recorded = [v.recorded EXCEPT ![f] = v.recorded[f]]
  BY DEF ViewType
<1>. HIDE DEF C
<1>4. u \in ViewType /\ SamePlaces(v, u)
  BY <1>1 DEF SamePlaces, ViewType
<1>5. /\ u.clean = C /\ u.text = v.text /\ u.recorded = v.recorded
      /\ u.modified = v.modified /\ u.correlated = v.correlated
  BY DEF ViewType
<1>. HIDE DEF u
<1>6. u.clean = [v.clean EXCEPT ![f] = v.text[f]]
  BY <1>5 DEF C
<1>7. FALSE \in BOOLEAN
  OBVIOUS
<1>8. TextChange(v, SignalModified(u, f, FALSE), f, v.text[f], v.text[f], v.recorded[f], FALSE)
  BY <1>3, <1>4, <1>5, <1>6, <1>7, SignalChange, Zenon
<1>. QED BY <1>2, <1>8, Zenon

\* SetModified.
LEMMA ModifiedChange ==
    ASSUME NEW v \in ViewType, NEW f \in File
    PROVE  TextChange(v, SetModified(v, f), f, v.text[f], NoText, v.recorded[f], TRUE)
<1> DEFINE C == [v.clean EXCEPT ![f] = NoText]
           u == [v EXCEPT !.clean = C]
<1>1. C \in [File -> MaybeText]
  BY DEF ViewType, MaybeText
<1>2. SetModified(v, f) = SignalModified(u, f, TRUE)
  BY DEF SetModified
<1>3. v.text = [v.text EXCEPT ![f] = v.text[f]] /\ v.recorded = [v.recorded EXCEPT ![f] = v.recorded[f]]
  BY DEF ViewType
<1>. HIDE DEF C
<1>4. u \in ViewType /\ SamePlaces(v, u)
  BY <1>1 DEF SamePlaces, ViewType
<1>5. /\ u.clean = C /\ u.text = v.text /\ u.recorded = v.recorded
      /\ u.modified = v.modified /\ u.correlated = v.correlated
  BY DEF ViewType
<1>. HIDE DEF u
<1>6. u.clean = [v.clean EXCEPT ![f] = NoText]
  BY <1>5 DEF C
<1>7. TRUE \in BOOLEAN
  OBVIOUS
<1>8. TextChange(v, SignalModified(u, f, TRUE), f, v.text[f], NoText, v.recorded[f], TRUE)
  BY <1>3, <1>4, <1>5, <1>6, <1>7, SignalChange, Zenon
<1>. QED BY <1>2, <1>8, Zenon

\* SaveEditorTextToFile.
LEMMA SavedChange ==
    ASSUME NEW v \in ViewType, NEW f \in File, NEW t \in Time
    PROVE  TextChange(v, Saved(v, f, t), f, v.text[f], v.text[f], t, FALSE)
<1> DEFINE C == [v.clean EXCEPT ![f] = v.text[f]]
           R == [v.recorded EXCEPT ![f] = t]
           u == [v EXCEPT !.recorded = R, !.clean = C]
<1>1. C \in [File -> MaybeText] /\ R \in [File -> Time]
  BY DEF ViewType, MaybeText
<1>2. Saved(v, f, t) = SignalModified(u, f, FALSE)
  <2> DEFINE u0 == [v EXCEPT !.recorded = R]
  <2>1. Saved(v, f, t) = SetUnmodified(u0, f)
    BY DEF Saved
  <2>2. SetUnmodified(u0, f) = SignalModified([u0 EXCEPT !.clean[f] = u0.text[f]], f, FALSE)
    BY DEF SetUnmodified
  <2>. HIDE DEF R
  <2>3. [u0 EXCEPT !.clean[f] = u0.text[f]] = u
    BY DEF ViewType
  <2>. QED BY <2>1, <2>2, <2>3
<1>3. v.text = [v.text EXCEPT ![f] = v.text[f]]
  BY DEF ViewType
<1>. HIDE DEF C, R
<1>4. u \in ViewType /\ SamePlaces(v, u)
  BY <1>1 DEF SamePlaces, ViewType
<1>5. /\ u.clean = C /\ u.text = v.text /\ u.recorded = R
      /\ u.modified = v.modified /\ u.correlated = v.correlated
  BY DEF ViewType
<1>. HIDE DEF u
<1>6. u.clean = [v.clean EXCEPT ![f] = v.text[f]] /\ u.recorded = [v.recorded EXCEPT ![f] = t]
  BY <1>5 DEF C, R
<1>7. FALSE \in BOOLEAN
  OBVIOUS
<1>8. TextChange(v, SignalModified(u, f, FALSE), f, v.text[f], v.text[f], t, FALSE)
  BY <1>3, <1>4, <1>5, <1>6, <1>7, SignalChange, Zenon
<1>. QED BY <1>2, <1>8, Zenon

\* SetSourceCodeText, into the current editor.  Whether its line correlation is
\* enabled depends on the time of the file alone.
LEMMA LoadChange ==
    ASSUME NEW v \in ViewType, NEW d \in DiskType, NEW f \in File,
           v.current \in File, Exists(d, f), d.text[f] \in Text
    PROVE  LET c == v.current
               w == LoadText(v, d, f)
           IN /\ TextChange(v, w, c, d.text[f], d.text[f], d.time[f], FALSE)
              /\ c \in w.correlated => c \in v.correlated \cup Items(v) /\ d.time[f] <= v.lastBuilt
<1> DEFINE c == v.current
           u == [v EXCEPT !.text[c] = d.text[f]]
           w == SignalModified(u, c, TRUE)
           x == [w EXCEPT !.recorded[c] = d.time[f]]
           r == SetUnmodified(x, c)
<1>1. LoadText(v, d, f) = r
  BY DEF LoadText, File, None
<1>2. u \in ViewType /\ SamePlaces(v, u) /\ u.text = [v.text EXCEPT ![c] = d.text[f]]
      /\ u.clean = v.clean /\ u.recorded = v.recorded /\ u.modified = v.modified /\ u.correlated = v.correlated
  <2> DEFINE T == [v.text EXCEPT ![c] = d.text[f]]
  <2>1. T \in [File -> Text]
    BY DEF ViewType
  <2>2. u = [v EXCEPT !.text = T]
    OBVIOUS
  <2>. HIDE DEF T, u
  <2>3. u \in ViewType /\ u.text = T
    BY <2>1, <2>2 DEF ViewType
  <2>4. SamePlaces(v, u) /\ u.clean = v.clean /\ u.recorded = v.recorded /\ u.modified = v.modified
        /\ u.correlated = v.correlated
    BY <2>2 DEF ViewType, SamePlaces
  <2>. QED BY <2>3, <2>4 DEF T
<1>3. v.clean = [v.clean EXCEPT ![c] = v.clean[c]] /\ v.recorded = [v.recorded EXCEPT ![c] = v.recorded[c]]
  BY DEF ViewType
<1>. HIDE DEF u
<1>4. TRUE \in BOOLEAN
  OBVIOUS
<1>5. TextChange(v, w, c, d.text[f], v.clean[c], v.recorded[c], TRUE)
  BY <1>2, <1>3, <1>4, SignalChange, Zenon
<1>6. w \in ViewType /\ Items(w) = Items(v) /\ c \in File /\ w.lastBuilt = v.lastBuilt
  <2>1. w \in ViewType /\ SamePlaces(v, w)
    BY <1>5, Zenon DEF TextChange
  <2>. QED BY <2>1 DEF Items, SamePlaces
<1>. HIDE DEF w
<1>7. x \in ViewType /\ SamePlaces(w, x) /\ x.text = w.text /\ x.clean = w.clean
      /\ x.recorded = [w.recorded EXCEPT ![c] = d.time[f]]
      /\ x.modified = w.modified /\ x.correlated = w.correlated
  <2> DEFINE R == [w.recorded EXCEPT ![c] = d.time[f]]
  <2>1. R \in [File -> Time]
    BY <1>6 DEF ViewType, DiskType
  <2>2. x = [w EXCEPT !.recorded = R]
    OBVIOUS
  <2>. HIDE DEF R, x
  <2>3. x \in ViewType /\ x.recorded = R
    BY <1>6, <2>1, <2>2 DEF ViewType
  <2>4. SamePlaces(w, x) /\ x.text = w.text /\ x.clean = w.clean /\ x.modified = w.modified /\ x.correlated = w.correlated
    BY <1>6, <2>2 DEF ViewType, SamePlaces
  <2>. QED BY <2>3, <2>4 DEF R
<1>. HIDE DEF x
<1>8. TextChange(x, r, c, x.text[c], x.text[c], x.recorded[c], FALSE)
  BY <1>6, <1>7, UnmodifiedChange
<1>9. Items(x) = Items(v) /\ x.lastBuilt = v.lastBuilt /\ x.recorded[c] = d.time[f] /\ x.text[c] = d.text[f]
      /\ x.modified[c]
  BY <1>5, <1>6, <1>7 DEF TextChange, SamePlaces, Items, ViewType
<1>. HIDE DEF r
<1>10. /\ r \in ViewType /\ SamePlaces(v, r)
       /\ r.text = [v.text EXCEPT ![c] = d.text[f]]
       /\ r.clean = [v.clean EXCEPT ![c] = d.text[f]]
       /\ r.recorded = [v.recorded EXCEPT ![c] = d.time[f]]
       /\ r.modified = [v.modified EXCEPT ![c] = FALSE]
  <2>1. r \in ViewType /\ SamePlaces(v, r)
    BY <1>5, <1>7, <1>8 DEF TextChange, SamePlaces
  <2>2. r.text = [v.text EXCEPT ![c] = d.text[f]] /\ r.clean = [v.clean EXCEPT ![c] = d.text[f]]
    BY <1>5, <1>7, <1>8, <1>9 DEF TextChange, ViewType
  <2>3. r.recorded = [v.recorded EXCEPT ![c] = d.time[f]] /\ r.modified = [v.modified EXCEPT ![c] = FALSE]
    BY <1>5, <1>7, <1>8, <1>9 DEF TextChange, ViewType
  <2>. QED BY <2>1, <2>2, <2>3
<1>11. \A g \in r.correlated :
          \/ g \in v.correlated /\ g # c
          \/ g = c /\ g \in v.correlated \cup Items(v) /\ d.time[f] <= v.lastBuilt
  <2>1. \A g \in w.correlated : g \in v.correlated
    BY <1>5, Zenon DEF TextChange
  <2>2. \A g \in r.correlated :
           \/ g \in x.correlated /\ g # c
           \/ g = c /\ g \in x.correlated \cup Items(x) /\ x.recorded[c] <= x.lastBuilt
    BY <1>8, <1>9 DEF TextChange
  <2>. QED BY <1>7, <1>9, <2>1, <2>2
<1>12. TextChange(v, r, c, d.text[f], d.text[f], d.time[f], FALSE)
  BY <1>10, <1>11 DEF TextChange
<1>. QED BY <1>1, <1>11, <1>12

\* SaveSourceFile for each unsaved file.
LEMMA SavedAllChange ==
    ASSUME NEW v \in ViewType, NEW t \in Time, NEW w, w = SavedAll(v, t)
    PROVE  /\ w \in ViewType /\ SamePlaces(v, w) /\ w.text = v.text
           /\ w.correlated = v.correlated \ Unsaved(v)
           /\ \A f \in File :
                 /\ w.recorded[f] = IF f \in Unsaved(v) THEN t ELSE v.recorded[f]
                 /\ w.clean[f] = IF f \in Unsaved(v) THEN v.text[f] ELSE v.clean[f]
                 /\ w.modified[f] <=> v.modified[f] /\ f \notin Unsaved(v)
<1> DEFINE S == Unsaved(v)
           R == [f \in File |-> IF f \in S THEN t ELSE v.recorded[f]]
           C == [f \in File |-> IF f \in S THEN v.text[f] ELSE v.clean[f]]
           M == [f \in File |-> v.modified[f] /\ f \notin S]
           K == v.correlated \ S
<1>1. w = [v EXCEPT !.recorded = R, !.clean = C, !.modified = M, !.correlated = K]
  BY DEF SavedAll
<1>2. R \in [File -> Time] /\ C \in [File -> MaybeText] /\ M \in [File -> BOOLEAN] /\ K \in SUBSET File
  BY DEF ViewType, MaybeText
<1>. HIDE DEF R, C, M, K
<1>3. w \in ViewType /\ SamePlaces(v, w) /\ w.text = v.text
      /\ w.recorded = R /\ w.clean = C /\ w.modified = M /\ w.correlated = K
  BY <1>1, <1>2 DEF ViewType, SamePlaces
<1>. QED BY <1>3 DEF R, C, M, K

\* DiscardEditorChanges for each unsaved file.
LEMMA DiscardedChange ==
    ASSUME NEW v \in ViewType, NEW w, w = Discarded(v)
    PROVE  /\ w \in ViewType /\ SamePlaces(v, w) /\ w.text = v.text /\ w.recorded = v.recorded
           /\ \A f \in File :
                 /\ w.clean[f] = IF f \in Unsaved(v) THEN v.text[f] ELSE v.clean[f]
                 /\ w.modified[f] <=> v.modified[f] /\ f \notin Unsaved(v)
           /\ \A f \in w.correlated :
                 \/ f \in v.correlated
                 \/ f \in Unsaved(v) \cap Items(v) /\ v.recorded[f] <= v.lastBuilt
<1> DEFINE S == Unsaved(v)
           C == [f \in File |-> IF f \in S THEN v.text[f] ELSE v.clean[f]]
           M == [f \in File |-> v.modified[f] /\ f \notin S]
           K == v.correlated \cup {f \in S \cap Items(v) : v.recorded[f] <= v.lastBuilt}
<1>1. w = [v EXCEPT !.clean = C, !.modified = M, !.correlated = K]
  BY DEF Discarded
<1>2. C \in [File -> MaybeText] /\ M \in [File -> BOOLEAN] /\ K \in SUBSET File
  BY DEF ViewType, MaybeText, Unsaved
<1>. HIDE DEF C, M, K
<1>3. w \in ViewType /\ SamePlaces(v, w) /\ w.text = v.text /\ w.recorded = v.recorded
      /\ w.clean = C /\ w.modified = M /\ w.correlated = K
  BY <1>1, <1>2 DEF ViewType, SamePlaces
<1>. QED BY <1>3 DEF C, M, K

-----------------------------------------------------------------------------
(* Handlers that show a file.                                               *)

\* CheckExternal asks about the current file, or does nothing.
LEMMA CheckEffect ==
    ASSUME NEW v \in ViewType, NEW d \in DiskType, NEW w, w = CheckExternal(v, d)
    PROVE  /\ w \in ViewType
           /\ w = [v EXCEPT !.questions = w.questions]
           /\ MayAsk(v.questions, w.questions, v.recorded, d, v.current)
<1> DEFINE c == v.current
           Q == Append(v.questions, QuestionAbout(d, c))
           Asks == c # None /\ d.time[c] # v.recorded[c] /\ \A i \in DOMAIN v.questions : v.questions[i].file # c
<1>1. CASE Asks
  <2>1. w = [v EXCEPT !.questions = Q]
    BY <1>1 DEF CheckExternal, QuestionAbout
  <2>2. c \in File
    BY <1>1 DEF ViewType, MaybeFile
  <2>3. QuestionAbout(d, c) \in Question
    BY <2>2 DEF QuestionAbout, Question, DiskType
  <2>4. Q \in Seq(Question)
    BY <2>3 DEF ViewType
  <2>. HIDE DEF Q
  <2>5. w \in ViewType /\ w.questions = Q
    BY <2>1, <2>4 DEF ViewType
  <2>. QED BY <1>1, <2>1, <2>2, <2>5 DEF MayAsk, Q
<1>2. CASE ~Asks
  <2>1. w = v
    BY <1>2 DEF CheckExternal
  <2>2. v = [v EXCEPT !.questions = v.questions]
    BY DEF ViewType
  <2>. QED BY <2>1, <2>2 DEF MayAsk
<1>. QED BY <1>1, <1>2

\* The view v becomes w when there is to be an editor of f: nothing changes but
\* the editors, and the time that is recorded with a new one.
Opens(v, w, d, f) ==
    /\ w \in ViewType
    /\ w = [v EXCEPT !.editors = w.editors, !.recorded = w.recorded]
    /\ w.editors = v.editors \cup {f}
    /\ w.recorded = IF f \in v.editors THEN v.recorded ELSE [v.recorded EXCEPT ![f] = d.time[f]]

\* GetEditorForFilepath.
LEMMA OpenEffect ==
    ASSUME NEW v \in ViewType, NEW d \in DiskType, NEW f \in File
    PROVE  Opens(v, OpenEditor(v, d, f), d, f)
<1> DEFINE w == OpenEditor(v, d, f)
           E == v.editors \cup {f}
           R == [v.recorded EXCEPT ![f] = d.time[f]]
<1>1. CASE f \in v.editors
  <2>1. w = v /\ v.editors = v.editors \cup {f}
    BY <1>1 DEF OpenEditor
  <2>2. v = [v EXCEPT !.editors = v.editors, !.recorded = v.recorded]
    BY DEF ViewType
  <2>. QED BY <1>1, <2>1, <2>2 DEF Opens
<1>2. CASE f \notin v.editors
  <2>1. w = [v EXCEPT !.editors = E, !.recorded = R]
    BY <1>2 DEF OpenEditor
  <2>2. E \in SUBSET File /\ R \in [File -> Time]
    BY DEF ViewType, DiskType
  <2>. HIDE DEF E, R
  <2>3. w \in ViewType /\ w.editors = E /\ w.recorded = R
    BY <2>1, <2>2 DEF ViewType
  <2>. QED BY <1>2, <2>1, <2>3 DEF E, R, Opens
<1>. QED BY <1>1, <1>2

\* The editor of f is opened and switched to, as Display and Activate do.
Show(v, d, f, ok) == SwitchToEditor(OpenEditor(v, d, f), d, f, ok)

\* What a view becomes when the editor of f is shown: w, which is typed and
\* has the texts and the menu of v.
Shows(v, w, d, f, ok) ==
    /\ w \in ViewType
    /\ SameTexts(v, w)
    /\ w.menu = v.menu /\ w.selected = v.selected /\ w.last = v.last /\ w.focus = v.focus
    /\ w.editors = v.editors \cup {f}
    /\ w.recorded = IF f \in v.editors THEN v.recorded ELSE [v.recorded EXCEPT ![f] = d.time[f]]
    /\ IF ok
       THEN /\ w.current = f /\ w.mode = "source"
            /\ MayAsk(v.questions, w.questions, w.recorded, d, f)
       ELSE w.current = v.current /\ w.questions = v.questions

\* SwitchToEditor opens the editor that is missing, and may ask.
LEMMA ShowEffect ==
    ASSUME NEW v \in ViewType, NEW d \in DiskType, NEW f \in File, NEW ok \in BOOLEAN
    PROVE  Shows(v, Show(v, d, f, ok), d, f, ok)
<1> DEFINE u == OpenEditor(v, d, f)
           w == Show(v, d, f, ok)
<1>0. Opens(v, u, d, f)
  BY OpenEffect
<1>2. w = SwitchToEditor(u, d, f, ok)
  BY DEF Show
<1>. HIDE DEF u
<1>1. /\ u \in ViewType
      /\ u = [v EXCEPT !.editors = u.editors, !.recorded = u.recorded]
      /\ u.editors = v.editors \cup {f}
      /\ u.recorded = IF f \in v.editors THEN v.recorded ELSE [v.recorded EXCEPT ![f] = d.time[f]]
  BY <1>0, Zenon DEF Opens
<1>3. /\ SameTexts(v, u) /\ u.menu = v.menu /\ u.selected = v.selected /\ u.last = v.last /\ u.focus = v.focus
      /\ u.current = v.current /\ u.mode = v.mode /\ u.pending = v.pending /\ u.questions = v.questions
  BY <1>1 DEF SameTexts, ViewType
<1>4. CASE ~ok
  <2>1. w = u
    BY <1>2, <1>4 DEF SwitchToEditor
  <2>. QED BY <1>1, <1>3, <1>4, <2>1 DEF Shows
<1>5. CASE ok
  <2> DEFINE p == u.pending /\ u.mode # "settings"
             x == [u EXCEPT !.pending = p, !.current = f, !.mode = "source"]
  <2>1. w = CheckExternal(x, d)
    BY <1>2, <1>5 DEF SwitchToEditor
  <2>2. p \in BOOLEAN
    OBVIOUS
  <2>. HIDE DEF p
  <2>3. x \in ViewType
    BY <1>1, <2>2 DEF ViewType, MaybeFile, Mode
  <2>4. /\ SameTexts(u, x) /\ x.menu = u.menu /\ x.selected = u.selected /\ x.last = u.last /\ x.focus = u.focus
        /\ x.editors = u.editors /\ x.recorded = u.recorded /\ x.questions = u.questions
        /\ x.current = f /\ x.mode = "source"
    BY <1>1 DEF SameTexts, ViewType
  <2>. HIDE DEF x
  <2>5. /\ w \in ViewType /\ w = [x EXCEPT !.questions = w.questions]
        /\ MayAsk(x.questions, w.questions, x.recorded, d, x.current)
    BY <2>1, <2>3, CheckEffect
  <2>. HIDE DEF w
  <2>6. /\ SameTexts(x, w) /\ w.menu = x.menu /\ w.selected = x.selected /\ w.last = x.last /\ w.focus = x.focus
        /\ w.editors = x.editors /\ w.recorded = x.recorded /\ w.current = x.current /\ w.mode = x.mode
    BY <2>3, <2>5 DEF SameTexts, ViewType
  <2>7. MayAsk(v.questions, w.questions, w.recorded, d, f)
    BY <1>3, <2>4, <2>5, <2>6
  <2>8. SameTexts(v, w)
    BY <1>3, <2>4, <2>6 DEF SameTexts
  <2>. QED BY <1>1, <1>3, <1>5, <2>4, <2>5, <2>6, <2>7, <2>8 DEF Shows, w
<1>. QED BY <1>4, <1>5

\* The view v becomes w when the file f is selected and its editor is shown.
Displays(v, w, d, f, ok) ==
    /\ w \in ViewType
    /\ SameTexts(v, w)
    /\ w.menu = v.menu /\ w.selected = f /\ w.last = f
    /\ w.editors = v.editors \cup {f}
    /\ w.recorded = IF f \in v.editors THEN v.recorded ELSE [v.recorded EXCEPT ![f] = d.time[f]]
    /\ IF ok
       THEN /\ w.current = f /\ w.mode = "source"
            /\ MayAsk(v.questions, w.questions, w.recorded, d, f)
       ELSE w.current = v.current /\ w.questions = v.questions

\* An editor that is shown for a selected file.
LEMMA ShownIsDisplayed ==
    ASSUME NEW v \in ViewType, NEW d \in DiskType, NEW f \in File, NEW ok \in BOOLEAN,
           NEW n \in 0 .. NumFiles + 2
    PROVE  Displays(v, Show([v EXCEPT !.focus = n, !.selected = f, !.last = f], d, f, ok), d, f, ok)
<1> DEFINE u == [v EXCEPT !.focus = n, !.selected = f, !.last = f]
           w == Show(u, d, f, ok)
<1>1. u \in ViewType
  BY DEF ViewType, MaybeFile
<1>2. /\ SameTexts(v, u) /\ u.menu = v.menu /\ u.selected = f /\ u.last = f /\ u.editors = v.editors
      /\ u.recorded = v.recorded /\ u.current = v.current /\ u.questions = v.questions
  BY DEF SameTexts, ViewType
<1>. HIDE DEF u
<1>3. Shows(u, w, d, f, ok)
  BY <1>1, ShowEffect
<1>. HIDE DEF w
<1>4. SameTexts(v, w)
  BY <1>2, <1>3 DEF SameTexts, Shows
<1>5. Displays(v, w, d, f, ok)
  BY <1>2, <1>3, <1>4 DEF Displays, Shows
<1>. QED BY <1>5 DEF w, u

\* HandleSelectedFileChanged and DisplayFileInEditor.
LEMMA DisplayEffect ==
    ASSUME SourceAssumption, NEW v \in ViewType, NEW d \in DiskType, NEW f \in Items(v), NEW ok \in BOOLEAN,
           Len(v.menu) <= NumFiles
    PROVE  Displays(v, Display(v, d, f, ok), d, f, ok)
<1> DEFINE n == Place(v, f) - 1
<1>1. f \in File
  BY ItemsType
<1>2. n \in 0 .. NumFiles + 2
  <2>1. Place(v, f) \in 1 .. Len(v.menu) /\ Len(v.menu) \in Nat
    BY PlaceType DEF ViewType
  <2>. QED BY <2>1 DEF SourceAssumption
<1>3. Display(v, d, f, ok) = Show([v EXCEPT !.focus = n, !.selected = f, !.last = f], d, f, ok)
  BY DEF Display, Show
<1>. HIDE DEF n
<1>4. Displays(v, Show([v EXCEPT !.focus = n, !.selected = f, !.last = f], d, f, ok), d, f, ok)
  BY <1>1, <1>2, ShownIsDisplayed
<1>. QED BY <1>3, <1>4, Zenon

\* The same questions, which may be answered in different ways.
SameQuestions(qs, new) ==
    /\ DOMAIN new = DOMAIN qs
    /\ \A i \in DOMAIN qs : new[i].file = qs[i].file /\ new[i].kind = qs[i].kind /\ new[i].seen = qs[i].seen

\* Nothing is opened or selected; the settings may be shown.
Stays(v, w) ==
    /\ w \in ViewType
    /\ SameTexts(v, w)
    /\ w.menu = v.menu /\ w.editors = v.editors /\ w.selected = v.selected /\ w.last = v.last
    /\ w.recorded = v.recorded /\ w.current = v.current
    /\ SameQuestions(v.questions, w.questions)
    /\ w.mode \in {v.mode, "settings"}

\* HandleBuildSettingsButtonClicked.
LEMMA SettingsEffect ==
    ASSUME SourceAssumption, NEW v \in ViewType, Len(v.menu) <= NumFiles
    PROVE  Stays(v, OpenSettings(v))
<1> DEFINE n == Len(v.menu) + 2
           w == [v EXCEPT !.focus = n, !.mode = "settings"]
<1>1. n \in 0 .. NumFiles + 2
  <2>1. Len(v.menu) \in Nat
    BY DEF ViewType
  <2>. QED BY <2>1 DEF SourceAssumption
<1>2. OpenSettings(v) = w
  BY DEF OpenSettings
<1>. HIDE DEF n
<1>3. w \in ViewType
  BY <1>1 DEF ViewType, Mode
<1>4. /\ SameTexts(v, w) /\ w.menu = v.menu /\ w.editors = v.editors /\ w.selected = v.selected /\ w.last = v.last
      /\ w.recorded = v.recorded /\ w.current = v.current /\ w.questions = v.questions /\ w.mode = "settings"
  BY DEF SameTexts, ViewType
<1>. QED BY <1>2, <1>3, <1>4 DEF Stays, SameQuestions

\* HandleActivateItemAction: the file that has the focus is shown, or nothing
\* is opened.
LEMMA ActivateEffect ==
    ASSUME SourceAssumption, NEW v \in ViewType, NEW d \in DiskType, NEW ok \in BOOLEAN,
           Len(v.menu) <= NumFiles
    PROVE  \/ \E f \in Items(v) : Displays(v, Activate(v, d, ok), d, f, ok)
           \/ Stays(v, Activate(v, d, ok))
<1> DEFINE w == Activate(v, d, ok)
<1>1. CASE v.focus < Len(v.menu)
  <2> DEFINE f == v.menu[v.focus + 1]
             u == [v EXCEPT !.focus = v.focus, !.selected = f, !.last = f]
  <2>1. v.focus \in 0 .. NumFiles + 2 /\ v.menu \in Seq(File) /\ Len(v.menu) \in Nat
        /\ DOMAIN v.menu = 1 .. Len(v.menu)
    BY DEF ViewType
  <2>2. v.focus + 1 \in DOMAIN v.menu
    BY <1>1, <2>1
  <2>3. f \in Items(v) /\ f \in File
    BY <2>1, <2>2 DEF Items
  <2>. HIDE DEF f
  <2>4. [v EXCEPT !.selected = f, !.last = f] = u
    BY DEF ViewType
  <2>5. w = Show(u, d, f, ok)
    BY <1>1, <2>4 DEF Activate, Show, f
  <2>6. Displays(v, Show(u, d, f, ok), d, f, ok)
    BY <2>1, <2>3, ShownIsDisplayed
  <2>. QED BY <2>3, <2>5, <2>6, Zenon
<1>2. CASE v.focus >= Len(v.menu)
  <2>1. w = OpenSettings(v) \/ w = v
    BY <1>2 DEF Activate, ViewType
  <2>2. Stays(v, v)
    BY DEF Stays, SameTexts, SameQuestions
  <2>. QED BY <2>1, <2>2, SettingsEffect, Zenon
<1>3. v.focus < Len(v.menu) \/ v.focus >= Len(v.menu)
  BY DEF ViewType
<1>. QED BY <1>1, <1>2, <1>3

\* The view v becomes w when the file f is a new item of the menu.
Lists(v, w, f) ==
    /\ w \in ViewType
    /\ w = [v EXCEPT !.menu = w.menu, !.correlated = v.correlated \ {f}, !.pending = w.pending]
    /\ Distinct(w.menu)
    /\ Items(w) = Items(v) \cup {f}

\* AddFile of the menu and of the project.
LEMMA ListEffect ==
    ASSUME NEW v \in ViewType, NEW f \in File, f \notin Items(v), Distinct(v.menu), NEW p \in BOOLEAN,
           NEW w, w = [v EXCEPT !.menu = Append(v.menu, f), !.correlated = v.correlated \ {f}, !.pending = p]
    PROVE  Lists(v, w, f)
<1> DEFINE n == Len(v.menu)
           M == Append(v.menu, f)
           K == v.correlated \ {f}
<1>1. n \in Nat /\ v.menu \in Seq(File) /\ DOMAIN v.menu = 1 .. n
  BY DEF ViewType
<1>2. /\ M \in Seq(File) /\ DOMAIN M = 1 .. n + 1 /\ M[n + 1] = f
      /\ \A i \in 1 .. n : M[i] = v.menu[i]
  BY <1>1
<1>3. K \in SUBSET File
  BY DEF ViewType
<1>. HIDE DEF M, n, K
<1>4. w = [v EXCEPT !.menu = M, !.correlated = K, !.pending = p]
  BY DEF M, K
<1>5. w \in ViewType /\ w.menu = M /\ w.pending = p
  BY <1>2, <1>3, <1>4 DEF ViewType
<1>6. \A i \in 1 .. n : v.menu[i] # f
  BY <1>1 DEF Items
<1>7. Distinct(M)
  <2> SUFFICES ASSUME NEW i \in 1 .. n + 1, NEW j \in 1 .. n + 1, M[i] = M[j] PROVE i = j
    BY <1>2 DEF Distinct
  <2>1. CASE i \in 1 .. n /\ j \in 1 .. n
    BY <1>1, <1>2, <2>1 DEF Distinct
  <2>2. CASE i = n + 1 \/ j = n + 1
    BY <1>1, <1>2, <1>6, <2>2
  <2>. QED BY <1>1, <2>1, <2>2
<1>8. Items(w) = Items(v) \cup {f}
  <2>1. n + 1 \in 1 .. n + 1 /\ \A i \in 1 .. n : i \in 1 .. n + 1
    BY <1>1
  <2>2. \A i \in 1 .. n + 1 : i \in 1 .. n \/ i = n + 1
    BY <1>1
  <2>3. ASSUME NEW g \in Items(w) PROVE g \in Items(v) \cup {f}
    BY <1>1, <1>2, <1>5, <2>2 DEF Items
  <2>4. ASSUME NEW g \in Items(v) \cup {f} PROVE g \in Items(w)
    BY <1>1, <1>2, <1>5, <2>1 DEF Items
  <2>. QED BY <2>3, <2>4
<1>9. w = [v EXCEPT !.menu = w.menu, !.correlated = K, !.pending = w.pending]
  BY <1>4, <1>5, Zenon
<1>. QED BY <1>5, <1>7, <1>8, <1>9 DEF Lists, K

-----------------------------------------------------------------------------
(* Handlers that close a file.                                              *)

\* The view v becomes w when the file f is no item of the menu any more.
Unlists(v, w, f) ==
    /\ w \in ViewType
    /\ w = [v EXCEPT !.menu = w.menu, !.last = w.last]
    /\ Distinct(w.menu)
    /\ Items(w) = Items(v) \ {f}
    /\ w.last = IF f \in Items(v) /\ v.last = f THEN None ELSE v.last

\* RgMenu::RemoveItem.
LEMMA RemoveItemEffect ==
    ASSUME NEW v \in ViewType, NEW f \in File, Distinct(v.menu)
    PROVE  Unlists(v, RemoveItem(v, f), f)
<1> DEFINE w == RemoveItem(v, f)
           n == Len(v.menu)
           p == Place(v, f)
<1>1. CASE f \notin Items(v)
  <2>1. w = v
    BY <1>1 DEF RemoveItem
  <2>2. v = [v EXCEPT !.menu = v.menu, !.last = v.last]
    BY DEF ViewType
  <2>. QED BY <1>1, <2>1, <2>2 DEF Unlists
<1>2. CASE f \in Items(v)
  <2> DEFINE M == [i \in 1 .. n - 1 |-> IF i < p THEN v.menu[i] ELSE v.menu[i + 1]]
             L == IF v.last = f THEN None ELSE v.last
  <2>1. w = [v EXCEPT !.menu = M, !.last = L]
    BY <1>2 DEF RemoveItem
  <2>2. p \in 1 .. n /\ v.menu[p] = f
    BY <1>2, PlaceType
  <2>3. v.menu \in Seq(File) /\ n \in Nat /\ DOMAIN v.menu = 1 .. n /\ \A i \in 1 .. n : v.menu[i] \in File
    BY DEF ViewType
  <2>. HIDE DEF p, n
  <2>4. n - 1 \in Nat /\ \A i \in 1 .. n - 1 : i \in 1 .. n /\ i + 1 \in 1 .. n
    BY <2>2, <2>3
  <2>5. M \in [1 .. n - 1 -> File]
    BY <2>3, <2>4
  <2>6. M \in Seq(File) /\ DOMAIN M = 1 .. n - 1
    BY <2>4, <2>5
  <2>7. \A i \in 1 .. n - 1 : M[i] = IF i < p THEN v.menu[i] ELSE v.menu[i + 1]
    OBVIOUS
  <2>8. L \in MaybeFile
    BY DEF L, MaybeFile, ViewType
  <2>. HIDE DEF M, L
  <2>9. w \in ViewType /\ w.menu = M /\ w.last = L
    BY <2>1, <2>6, <2>8 DEF ViewType
  <2>10. ASSUME NEW i \in 1 .. n - 1, NEW j \in 1 .. n - 1, M[i] = M[j] PROVE i = j
    <3> DEFINE k(x) == IF x < p THEN x ELSE x + 1
    <3>1. k(i) \in 1 .. n /\ k(j) \in 1 .. n /\ M[i] = v.menu[k(i)] /\ M[j] = v.menu[k(j)]
      BY <2>4, <2>7
    <3>2. k(i) = k(j)
      BY <2>3, <2>10, <3>1 DEF Distinct
    <3>. QED BY <2>2, <2>3, <3>2
  <2>11. Distinct(w.menu)
    BY <2>6, <2>9, <2>10 DEF Distinct
  <2>12. ASSUME NEW g \in Items(w) PROVE g \in Items(v) \ {f}
    <3>1. PICK i \in 1 .. n - 1 : g = M[i]
      BY <2>6, <2>9 DEF Items
    <3> DEFINE k == IF i < p THEN i ELSE i + 1
    <3>2. k \in 1 .. n /\ g = v.menu[k] /\ k # p
      BY <2>2, <2>3, <2>4, <2>7, <3>1
    <3>3. g # f
      BY <2>2, <2>3, <3>2 DEF Distinct
    <3>. QED BY <2>3, <3>2, <3>3 DEF Items
  <2>13. ASSUME NEW g \in Items(v), g # f PROVE g \in Items(w)
    <3>1. PICK k \in 1 .. n : g = v.menu[k]
      BY <2>3 DEF Items
    <3> DEFINE i == IF k < p THEN k ELSE k - 1
    <3>2. k # p
      BY <2>2, <2>13, <3>1
    <3>3. i \in 1 .. n - 1 /\ M[i] = v.menu[k]
      BY <2>2, <2>3, <2>7, <3>2
    <3>. QED BY <2>6, <2>9, <3>1, <3>3 DEF Items
  <2>14. w = [v EXCEPT !.menu = w.menu, !.last = w.last]
    BY <2>1, <2>9
  <2>. QED BY <1>2, <2>9, <2>11, <2>12, <2>13, <2>14 DEF Unlists, L
<1>. QED BY <1>1, <1>2

\* The view after the editor of f has been closed, before another one is shown.
Cleared(v, f) ==
    [v EXCEPT !.editors = @ \ {f},
              !.current = IF @ = f THEN None ELSE @,
              !.text[f] = Empty(f), !.clean[f] = NoText,
              !.modified[f] = FALSE, !.recorded[f] = 0]

\* Nothing but that has changed from v to w.
Clears(v, w, f) ==
    /\ w \in ViewType
    /\ w.menu = v.menu /\ w.selected = v.selected /\ w.last = v.last /\ w.questions = v.questions
    /\ w.correlated = v.correlated /\ w.lastBuilt = v.lastBuilt
    /\ w.editors = v.editors \ {f}
    /\ w.current = IF v.current = f THEN None ELSE v.current
    /\ w.text = [v.text EXCEPT ![f] = Empty(f)]
    /\ w.clean = [v.clean EXCEPT ![f] = NoText]
    /\ w.modified = [v.modified EXCEPT ![f] = FALSE]
    /\ w.recorded = [v.recorded EXCEPT ![f] = 0]

\* RemoveEditor, before another file is shown.
LEMMA ClearedEffect ==
    ASSUME SourceAssumption, NEW v \in ViewType, NEW f \in File
    PROVE  Clears(v, Cleared(v, f), f)
<1> DEFINE w == Cleared(v, f)
           E == v.editors \ {f}
           N == IF v.current = f THEN None ELSE v.current
           T == [v.text EXCEPT ![f] = Empty(f)]
           C == [v.clean EXCEPT ![f] = NoText]
           M == [v.modified EXCEPT ![f] = FALSE]
           R == [v.recorded EXCEPT ![f] = 0]
<1>1. w = [v EXCEPT !.editors = E, !.current = N, !.text = T, !.clean = C, !.modified = M, !.recorded = R]
  BY DEF Cleared
<1>2. 0 \in Time /\ Empty(f) \in Text
  BY DEF Time, Text, Empty, SourceAssumption
<1>3. E \in SUBSET File /\ N \in MaybeFile /\ T \in [File -> Text] /\ C \in [File -> MaybeText]
  BY <1>2 DEF ViewType, MaybeFile, MaybeText
<1>4. M \in [File -> BOOLEAN] /\ R \in [File -> Time]
  BY <1>2 DEF ViewType
<1>. HIDE DEF E, N, T, C, M, R, w
<1>5. w \in ViewType
  BY <1>1, <1>3, <1>4 DEF ViewType
<1>6. /\ w.menu = v.menu /\ w.selected = v.selected /\ w.last = v.last /\ w.questions = v.questions
      /\ w.correlated = v.correlated /\ w.lastBuilt = v.lastBuilt
      /\ w.editors = E /\ w.current = N /\ w.text = T /\ w.clean = C /\ w.modified = M /\ w.recorded = R
  BY <1>1 DEF ViewType
<1>7. Clears(v, w, f)
  BY <1>5, <1>6 DEF Clears, E, N, T, C, M, R
<1>. QED BY <1>7 DEF w

\* RemoveEditor and SwitchToFirstRemainingFile: the editor of a file that is no
\* item any more is closed, and another file is displayed if there is one.
LEMMA RemoveEditorEffect ==
    ASSUME SourceAssumption, NEW v \in ViewType, NEW d \in DiskType, NEW f \in File, NEW ok \in BOOLEAN,
           Len(v.menu) <= NumFiles, Items(v) \subseteq v.editors \ {f}
    PROVE  LET x == Cleared(v, f)
               w == RemoveEditor(v, d, f, ok)
           IN \/ /\ v.menu = <<>> /\ w \in ViewType
                 /\ w = [x EXCEPT !.mode = IF x.editors = {} THEN "empty" ELSE "source"]
              \/ \E g \in Items(v) : Displays(x, w, d, g, ok)
<1> DEFINE x == Cleared(v, f)
           w == RemoveEditor(v, d, f, ok)
           g == v.menu[Len(v.menu)]
           y == Display(x, d, g, ok)
<1>1. Clears(v, x, f)
  BY ClearedEffect
<1>2. w = [(IF x.menu = <<>> THEN x ELSE Display(x, d, x.menu[Len(x.menu)], ok))
               EXCEPT !.mode = IF x.editors = {} THEN "empty" ELSE "source"]
  BY DEF RemoveEditor, Cleared
<1>. HIDE DEF x
<1>3. x \in ViewType /\ x.menu = v.menu /\ x.editors = v.editors \ {f} /\ Items(x) = Items(v)
  BY <1>1 DEF Clears, Items
<1>4. CASE v.menu = <<>>
  <2> DEFINE m == IF x.editors = {} THEN "empty" ELSE "source"
  <2>1. w = [x EXCEPT !.mode = m] /\ m \in Mode
    BY <1>2, <1>3, <1>4 DEF Mode
  <2>. HIDE DEF m
  <2>2. [x EXCEPT !.mode = m] \in ViewType
    BY <1>3, <2>1 DEF ViewType
  <2>. QED BY <1>4, <2>1, <2>2 DEF x, m
<1>5. CASE v.menu # <<>>
  <2>1. g \in Items(v)
    BY <1>5 DEF Items, ViewType
  <2>2. x.editors # {}
    BY <1>3, <2>1
  <2>. HIDE DEF g
  <2>3. w = [y EXCEPT !.mode = "source"]
    BY <1>2, <1>3, <1>5, <2>2 DEF g
  <2>4. Displays(x, y, d, g, ok)
    BY <1>3, <2>1, DisplayEffect
  <2>. HIDE DEF y
  <2>5. w \in ViewType /\ SameTexts(y, w) /\ w.menu = y.menu /\ w.selected = y.selected /\ w.last = y.last
        /\ w.editors = y.editors /\ w.recorded = y.recorded /\ w.current = y.current /\ w.questions = y.questions
        /\ w.mode = "source"
    <3>1. y \in ViewType
      BY <2>4 DEF Displays
    <3>. QED BY <2>3, <3>1 DEF ViewType, SameTexts, Mode
  <2>. HIDE DEF w
  <2>6. SameTexts(x, w)
    BY <2>4, <2>5 DEF Displays, SameTexts
  <2>7. Displays(x, w, d, g, ok)
    BY <2>4, <2>5, <2>6 DEF Displays
  <2>. QED BY <2>1, <2>7 DEF x, w
<1>. QED BY <1>4, <1>5

\* The second handler of a click, now or after the question that is open.
LEMMA ThenActivateEffect ==
    ASSUME SourceAssumption, NEW v \in ViewType, NEW d \in DiskType, NEW ok \in BOOLEAN, NEW n \in Nat,
           Len(v.menu) <= NumFiles
    PROVE  \/ Len(v.questions) <= n /\ \E f \in Items(v) : Displays(v, ThenActivate(v, d, n, ok), d, f, ok)
           \/ Stays(v, ThenActivate(v, d, n, ok))
<1> DEFINE w == ThenActivate(v, d, n, ok)
           k == Len(v.questions)
<1>0. k \in Nat /\ v.questions \in Seq(Question) /\ DOMAIN v.questions = 1 .. k
  BY DEF ViewType
<1>1. CASE k > n
  <2> DEFINE Q == [v.questions EXCEPT ![k] = [v.questions[k] EXCEPT !.activate = TRUE]]
  <2>1. w = [v EXCEPT !.questions = Q]
    BY <1>1 DEF ThenActivate
  <2>. HIDE DEF k
  <2>2. k \in 1 .. k
    BY <1>0, <1>1
  <2>3. \A i \in 1 .. k : v.questions[i] \in Question
    BY <1>0 DEF k
  <2>4. [v.questions[k] EXCEPT !.activate = TRUE] \in Question
    BY <2>2, <2>3 DEF Question
  <2>5. Q \in [1 .. k -> Question] /\ DOMAIN Q = 1 .. k
    BY <1>0, <2>2, <2>3, <2>4
  <2>6. Q \in Seq(Question)
    BY <1>0, <2>5
  <2>7. SameQuestions(v.questions, Q)
    BY <1>0, <2>2, <2>3, <2>5 DEF SameQuestions, Question
  <2>. HIDE DEF Q
  <2>8. w \in ViewType /\ w.questions = Q
    BY <2>1, <2>6 DEF ViewType
  <2>9. /\ SameTexts(v, w) /\ w.menu = v.menu /\ w.editors = v.editors /\ w.selected = v.selected /\ w.last = v.last
        /\ w.recorded = v.recorded /\ w.current = v.current /\ w.mode = v.mode
    BY <2>1 DEF ViewType, SameTexts
  <2>. QED BY <2>7, <2>8, <2>9 DEF Stays
<1>2. CASE ~(k > n)
  <2>1. w = Activate(v, d, ok)
    BY <1>2 DEF ThenActivate
  <2>2. k <= n
    BY <1>0, <1>2
  <2>. QED BY <2>1, <2>2, ActivateEffect
<1>. QED BY <1>1, <1>2

\* The innermost question is taken away.
LEMMA AnsweredEffect ==
    ASSUME NEW v \in ViewType, v.questions # <<>>,
           NEW w, w = [v EXCEPT !.questions = SubSeq(@, 1, Len(@) - 1)]
    PROVE  LET n == Len(v.questions)
           IN /\ w \in ViewType /\ n \in Nat \ {0}
              /\ w = [v EXCEPT !.questions = w.questions]
              /\ DOMAIN v.questions = 1 .. n /\ DOMAIN w.questions = 1 .. n - 1
              /\ Len(w.questions) = n - 1
              /\ \A i \in 1 .. n - 1 : w.questions[i] = v.questions[i]
              /\ v.questions[n] \in Question
<1> DEFINE n == Len(v.questions)
           Q == SubSeq(v.questions, 1, n - 1)
<1>1. v.questions \in Seq(Question) /\ n \in Nat /\ DOMAIN v.questions = 1 .. n /\ n # 0
  BY DEF ViewType
<1>2. Q \in Seq(Question) /\ Len(Q) = n - 1 /\ \A i \in 1 .. n - 1 : Q[i] = v.questions[i]
  <2>1. \A i \in 1 .. n - 1 : i \in 1 .. Len(v.questions)
    BY <1>1
  <2>2. \A i \in 1 .. n - 1 : v.questions[i] \in Question
    BY <1>1, <2>1
  <2>3. Q = [i \in 1 .. n - 1 |-> v.questions[i]]
    BY <1>1, SubSeqProperties
  <2>. QED BY <1>1, <2>2, <2>3
<1>3. DOMAIN Q = 1 .. n - 1
  BY <1>2
<1>4. w = [v EXCEPT !.questions = Q]
  OBVIOUS
<1>5. v.questions[n] \in Question
  BY <1>1
<1>. HIDE DEF Q, n
<1>6. w \in ViewType /\ w.questions = Q
  BY <1>2, <1>4 DEF ViewType
<1>. QED BY <1>1, <1>2, <1>3, <1>4, <1>5, <1>6 DEF n

\* The view v becomes w when a build succeeds at the moment t: the selected
\* file has an editor, and some items are correlated.
Succeeds(v, w, d, t) ==
    /\ w \in ViewType
    /\ w.menu = v.menu /\ w.last = v.last /\ w.current = v.current /\ w.mode = v.mode
    /\ w.questions = v.questions
    /\ w.text = v.text /\ w.clean = v.clean /\ w.modified = v.modified
    /\ w.selected = None /\ w.lastBuilt = t
    /\ IF v.selected \in {None} \cup v.editors
       THEN w.editors = v.editors /\ w.recorded = v.recorded
       ELSE /\ w.editors = v.editors \cup {v.selected}
            /\ w.recorded = [v.recorded EXCEPT ![v.selected] = d.time[v.selected]]
    /\ w.correlated = v.correlated \cup
          (({f \in v.editors : build.files[f] # NoText} \cup {v.selected}) \cap Items(v))

\* CurrentBuildSucceeded, and what HandleProjectBuildSuccess records.
LEMMA SucceedEffect ==
    ASSUME NEW v \in ViewType, NEW d \in DiskType, NEW t \in Time,
           NEW w, w = [Correlated(v, d) EXCEPT !.lastBuilt = t, !.selected = None]
    PROVE  Succeeds(v, w, d, t)
<1> DEFINE s == v.selected
           u == IF s = None THEN v ELSE OpenEditor(v, d, s)
           K == v.correlated \cup (({f \in v.editors : build.files[f] # NoText} \cup {s}) \cap Items(v))
<1>1. /\ u \in ViewType
      /\ u.menu = v.menu /\ u.last = v.last /\ u.current = v.current /\ u.mode = v.mode /\ u.questions = v.questions
      /\ u.text = v.text /\ u.clean = v.clean /\ u.modified = v.modified /\ u.correlated = v.correlated
  <2>1. CASE s = None
    BY <2>1
  <2>2. CASE s # None
    <3>1. s \in File
      BY <2>2 DEF ViewType, MaybeFile
    <3> DEFINE x == OpenEditor(v, d, s)
    <3>2. Opens(v, x, d, s)
      BY <3>1, OpenEffect
    <3>3. u = x
      BY <2>2
    <3>. HIDE DEF x, u, s
    <3>4. x \in ViewType /\ x = [v EXCEPT !.editors = x.editors, !.recorded = x.recorded]
      BY <3>2, Zenon DEF Opens
    <3>. QED BY <3>3, <3>4 DEF ViewType
  <2>. QED BY <2>1, <2>2
<1>2. IF s \in {None} \cup v.editors
      THEN u.editors = v.editors /\ u.recorded = v.recorded
      ELSE u.editors = v.editors \cup {s} /\ u.recorded = [v.recorded EXCEPT ![s] = d.time[s]]
  <2>1. CASE s = None
    BY <2>1
  <2>2. CASE s # None
    <3>1. s \in File
      BY <2>2 DEF ViewType, MaybeFile
    <3>2. Opens(v, u, d, s)
      BY <2>2, <3>1, OpenEffect
    <3>. HIDE DEF u
    <3>. QED BY <2>2, <3>2 DEF Opens
  <2>. QED BY <2>1, <2>2
<1>3. K \in SUBSET File
  BY ItemsType DEF ViewType
<1>4. w = [u EXCEPT !.correlated = K, !.lastBuilt = t, !.selected = None]
  <2>1. Correlated(v, d) = [u EXCEPT !.correlated = u.correlated \cup (({f \in v.editors : build.files[f] # NoText} \cup {s}) \cap Items(v))]
    BY DEF Correlated
  <2>2. Correlated(v, d) = [u EXCEPT !.correlated = K]
    BY <1>1, <2>1, Zenon
  <2>. QED BY <2>2
<1>. HIDE DEF K, u
<1>5. /\ w \in ViewType /\ w.correlated = K /\ w.lastBuilt = t /\ w.selected = None
      /\ w.menu = u.menu /\ w.last = u.last /\ w.current = u.current /\ w.mode = u.mode /\ w.questions = u.questions
      /\ w.text = u.text /\ w.clean = u.clean /\ w.modified = u.modified
      /\ w.editors = u.editors /\ w.recorded = u.recorded
  BY <1>1, <1>3, <1>4 DEF ViewType, MaybeFile
<1>. QED BY <1>1, <1>2, <1>5 DEF K, Succeeds

-----------------------------------------------------------------------------
(* Questions.                                                               *)

\* The questions are about files of S, of the kind that the time they cached
\* says, and about different files.
AskedOf(qs, S) ==
    \A i \in DOMAIN qs :
        /\ qs[i].file \in S
        /\ qs[i].kind = "changed" <=> qs[i].seen # 0
        /\ \A j \in DOMAIN qs : qs[i].file = qs[j].file => i = j

\* All there is, if anything, is one question, about c.
AskedAlone(qs, c) == \A i \in DOMAIN qs : i = 1 /\ qs[i].file = c

\* The question that is asked keeps the questions as they should be.
LEMMA MayAskKeeps ==
    ASSUME NEW qs \in Seq(Question), NEW new, NEW recorded, NEW d \in DiskType, NEW c \in File,
           MayAsk(qs, new, recorded, d, c)
    PROVE  /\ \A S : c \in S /\ AskedOf(qs, S) => AskedOf(new, S)
           /\ AskedAlone(qs, c) => AskedAlone(new, c)
<1> DEFINE q == QuestionAbout(d, c)
<1>1. CASE new = qs
  BY <1>1
<1>2. CASE new # qs
  <2>1. /\ new = Append(qs, q) /\ \A i \in DOMAIN qs : qs[i].file # c
    BY <1>2 DEF MayAsk
  <2>2. q \in Question /\ q.file = c /\ (q.kind = "changed" <=> q.seen # 0)
    BY DEF QuestionAbout, Question, DiskType, Exists
  <2>. HIDE DEF q
  <2>3. /\ Len(qs) \in Nat /\ DOMAIN qs = 1 .. Len(qs) /\ DOMAIN new = 1 .. Len(qs) + 1
        /\ new[Len(qs) + 1] = q /\ \A i \in 1 .. Len(qs) : new[i] = qs[i]
    BY <2>1, <2>2
  <2>4. ASSUME NEW S, c \in S, AskedOf(qs, S) PROVE AskedOf(new, S)
    <3> SUFFICES ASSUME NEW i \in 1 .. Len(qs) + 1
                 PROVE  /\ new[i].file \in S
                        /\ new[i].kind = "changed" <=> new[i].seen # 0
                        /\ \A j \in 1 .. Len(qs) + 1 : new[i].file = new[j].file => i = j
      BY <2>3 DEF AskedOf
    <3>1. CASE i = Len(qs) + 1
      BY <2>1, <2>2, <2>3, <2>4, <3>1
    <3>2. CASE i \in 1 .. Len(qs)
      <4>1. new[i] = qs[i] /\ qs[i].file # c
        BY <2>1, <2>3, <3>2
      <4>2. ASSUME NEW j \in 1 .. Len(qs) + 1, new[i].file = new[j].file PROVE i = j
        <5>1. CASE j = Len(qs) + 1
          BY <2>2, <2>3, <4>1, <4>2, <5>1
        <5>2. CASE j \in 1 .. Len(qs)
          BY <2>3, <2>4, <3>2, <4>1, <4>2, <5>2 DEF AskedOf
        <5>. QED BY <2>3, <5>1, <5>2
      <4>. QED BY <2>3, <2>4, <3>2, <4>1, <4>2 DEF AskedOf
    <3>. QED BY <2>3, <3>1, <3>2
  <2>5. ASSUME AskedAlone(qs, c) PROVE AskedAlone(new, c)
    <3>1. Len(qs) = 0
      BY <2>1, <2>3, <2>5 DEF AskedAlone
    <3>. QED BY <2>2, <2>3, <3>1 DEF AskedAlone
  <2>. QED BY <2>4, <2>5
<1>. QED BY <1>1, <1>2
=============================================================================
