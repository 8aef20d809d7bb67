--------------------------- MODULE Settings_proofs ---------------------------
(***************************************************************************)
(* The invariants of Settings, and what its steps may not do to the        *)
(* buttons, the project that is open and the question whether to save,     *)
(* hold for all sets of paths and lengths of the list of recent projects.  *)
(***************************************************************************)
EXTENDS Settings, FunctionTheorems, FiniteSetTheorems, SequenceTheorems, TLAPS

-----------------------------------------------------------------------------
(* States as records.                                                       *)

PathMap == UNION {[D -> Path] : D \in SUBSET Entry}

RecordType ==
    [config  : [ui : Ui, places : Places, recents : Seq(Entry), api : Valid],
     path    : PathMap,
     file    : [ui : Ui, places : Places, recents : Seq(Path), api : Valid],
     view    : ViewType,
     home    : [open : Path \cup {None}, buttons : Seq(Path)],
     written : BOOLEAN,
     unsaved : BOOLEAN]

\* The type of a state: the pointers in both lists are of objects there are.
StateOK(s) ==
    /\ s \in RecordType
    /\ Len(s.config.recents) <= MaxRecent
    /\ Len(s.view.recents) <= MaxRecent
    /\ Len(s.file.recents) <= MaxRecent
    /\ Elements(s.config.recents) \subseteq DOMAIN s.path
    /\ Elements(s.view.recents) \subseteq DOMAIN s.path

FileOK(s) ==
    s.written => s.file = [Stored(s.config, s.path) EXCEPT !.places = IF s.unsaved THEN s.file.places
                                                                      ELSE @]
ApiOK(s) == s.view.apiInitial = s.config.api /\ (s.view.apiFlag \/ s.view.api = s.config.api)

\* The inductive invariant.
Good(s) == StateOK(s) /\ FileOK(s) /\ ApiOK(s)

\* What has to do with the list of recent projects is the same in s and t, where
\* the page's copy or the file may have caught up with it.
SameLists(s, t) ==
    /\ t.home = s.home /\ t.config.recents = s.config.recents /\ t.path = s.path
    /\ t.view.recents \in {s.view.recents, s.config.recents}
    /\ t.file.recents \in {s.file.recents, Paths(s.config.recents, s.path)}

\* No list has a project twice: EachOnce of a record.
Once(s) ==
    /\ Distinct(Paths(s.config.recents, s.path))
    /\ Distinct(Paths(s.view.recents, s.path))
    /\ Distinct(s.file.recents)

\* The project is renamed to one that is listed.
RenamedOnto(s) ==
    /\ home.open \notin {None, s.home.open}
    /\ \E p \in Listed : Stripped[s.home.open] = Stripped[p]

\* The project p is in the list.
IsListed(p, s) == p \in Elements(Paths(s.config.recents, s.path))

\* The start tab shows the list, or the project that is open is in it.
HomeOK(s) ==
    IF s.home.open = None THEN s.home.buttons = Paths(s.config.recents, s.path)
    ELSE IsListed(s.home.open, s)

-----------------------------------------------------------------------------
(* Lists and objects.                                                       *)

\* The paths of a list of objects.
LEMMA PathsType ==
    ASSUME NEW objects \in PathMap, NEW list \in Seq(Entry), Elements(list) \subseteq DOMAIN objects
    PROVE  /\ Paths(list, objects) \in Seq(Path)
           /\ Len(Paths(list, objects)) = Len(list)
           /\ \A i \in 1 .. Len(list) : Paths(list, objects)[i] = objects[list[i]]
<1>0. PICK D \in SUBSET Entry : objects \in [D -> Path]
  BY DEF PathMap
<1>1. \A i \in 1 .. Len(list) : objects[list[i]] \in Path
  BY <1>0 DEF Elements
<1>2. Paths(list, objects) = [i \in 1 .. Len(list) |-> objects[list[i]]]
  BY DEF Paths
<1>3. Len(list) \in Nat
  OBVIOUS
<1>4. Paths(list, objects) \in [1 .. Len(list) -> Path]
  BY <1>1, <1>2
<1>. QED BY <1>2, <1>3, <1>4

\* The places of a list in two that are put together.
LEMMA Together ==
    ASSUME NEW a \in Seq(Entry), NEW b \in Seq(Entry)
    PROVE  /\ DOMAIN (a \o b) = 1 .. Len(a) + Len(b)
           /\ \A j \in 1 .. Len(a) : (a \o b)[j] = a[j]
           /\ \A j \in 1 .. Len(b) : (a \o b)[Len(a) + j] = b[j]
<1>1. /\ a \o b \in Seq(Entry) /\ Len(a \o b) = Len(a) + Len(b)
      /\ \A j \in 1 .. Len(a) + Len(b) : (a \o b)[j] = IF j <= Len(a) THEN a[j] ELSE b[j - Len(a)]
  BY ConcatProperties, Zenon
<1> DEFINE both == a \o b
<1> HIDE DEF both
<1>2. Len(a) \in Nat /\ Len(b) \in Nat
  OBVIOUS
<1>3. /\ both \in Seq(Entry) /\ Len(both) = Len(a) + Len(b)
      /\ \A j \in 1 .. Len(a) + Len(b) : both[j] = IF j <= Len(a) THEN a[j] ELSE b[j - Len(a)]
  BY <1>1, Zenon DEF both
<1>4. DOMAIN both = 1 .. Len(a) + Len(b)
  BY <1>2, <1>3
<1>5. ASSUME NEW j \in 1 .. Len(a) PROVE both[j] = a[j]
  <2>1. j \in 1 .. Len(a) + Len(b) /\ j <= Len(a)
    BY <1>2
  <2>. QED BY <1>3, <2>1
<1>6. ASSUME NEW j \in 1 .. Len(b) PROVE both[Len(a) + j] = b[j]
  <2>1. /\ Len(a) + j \in 1 .. Len(a) + Len(b) /\ ~ (Len(a) + j <= Len(a))
        /\ Len(a) + j - Len(a) = j
    BY <1>2
  <2>2. both[Len(a) + j] = b[Len(a) + j - Len(a)]
    BY <1>3, <2>1
  <2>. QED BY <2>1, <2>2
<1>. QED BY <1>4, <1>5, <1>6, Zenon DEF both

\* A list has at most as many members as places.
LEMMA FewElements ==
    ASSUME NEW list \in Seq(Entry)
    PROVE  IsFiniteSet(Elements(list)) /\ Cardinality(Elements(list)) <= Len(list)
<1>1. Len(list) \in Nat /\ DOMAIN list = 1 .. Len(list)
  OBVIOUS
<1>2. list \in Surjection(1 .. Len(list), Elements(list))
  <2>1. list = [i \in 1 .. Len(list) |-> list[i]]
    BY <1>1
  <2>2. list \in [1 .. Len(list) -> Elements(list)]
    BY <1>1, <2>1 DEF Elements
  <2>. QED BY <1>1, <2>2 DEF Surjection, Elements
<1>3. IsFiniteSet(1 .. Len(list)) /\ Cardinality(1 .. Len(list)) = Len(list)
  BY <1>1, FS_Interval
<1>. QED BY <1>2, <1>3, FS_Surjection

\* There is an object that neither list points to.
LEMMA FreshIsFree ==
    ASSUME SettingsAssumption, NEW s, StateOK(s)
    PROVE  /\ Fresh(s) \in Entry
           /\ Fresh(s) \notin Elements(s.config.recents)
           /\ Fresh(s) \notin Elements(s.view.recents)
<1> DEFINE A == Elements(s.config.recents)
           B == Elements(s.view.recents)
<1>1. s.config.recents \in Seq(Entry) /\ s.view.recents \in Seq(Entry)
  BY DEF StateOK, RecordType, ViewType
<1>2. /\ IsFiniteSet(A) /\ Cardinality(A) <= MaxRecent /\ Cardinality(A) \in Nat
      /\ IsFiniteSet(B) /\ Cardinality(B) <= MaxRecent /\ Cardinality(B) \in Nat
  <2>1. /\ IsFiniteSet(A) /\ Cardinality(A) <= Len(s.config.recents)
        /\ IsFiniteSet(B) /\ Cardinality(B) <= Len(s.view.recents)
    BY <1>1, FewElements
  <2>2. Cardinality(A) \in Nat /\ Cardinality(B) \in Nat
    BY <2>1, FS_CardinalityType
  <2>3. Len(s.config.recents) \in Nat /\ Len(s.view.recents) \in Nat /\ MaxRecent \in Nat
    BY <1>1 DEF SettingsAssumption
  <2>. QED BY <2>1, <2>2, <2>3 DEF StateOK
<1>3. IsFiniteSet(A \cup B) /\ Cardinality(A \cup B) <= 2 * MaxRecent
  <2>1. /\ IsFiniteSet(A \cup B)
        /\ Cardinality(A \cup B) = Cardinality(A) + Cardinality(B) - Cardinality(A \cap B)
    BY <1>2, FS_Union
  <2>2. IsFiniteSet(A \cap B)
    BY <1>2, FS_Subset
  <2>3. Cardinality(A \cap B) \in Nat
    BY <2>2, FS_CardinalityType
  <2>. QED BY <1>2, <2>1, <2>3 DEF SettingsAssumption
<1>4. Cardinality(Entry) = 2 * MaxRecent + 1
  BY FS_Interval DEF Entry, SettingsAssumption
<1>5. ~ (Entry \subseteq A \cup B)
  <2>1. SUFFICES ASSUME Entry \subseteq A \cup B PROVE FALSE
    OBVIOUS
  <2>2. Cardinality(Entry) <= Cardinality(A \cup B)
    BY <1>3, <2>1, FS_Subset
  <2>3. Cardinality(A \cup B) \in Nat
    BY <1>3, FS_CardinalityType
  <2>. QED BY <1>3, <1>4, <2>2, <2>3 DEF SettingsAssumption
<1>6. \E e \in Entry : e \notin A \cup B
  BY <1>5
<1>. QED BY <1>6 DEF Fresh

\* What Rest returns is a part of the list.
LEMMA RestList ==
    ASSUME NEW list \in Seq(Entry), NEW objects, NEW p
    PROVE  /\ Rest(list, objects, p) \in Seq(Entry)
           /\ Len(Rest(list, objects, p)) <= Len(list)
           /\ Elements(Rest(list, objects, p)) \subseteq Elements(list)
           /\ Distinct(Paths(list, objects)) =>
                 /\ Distinct(Paths(Rest(list, objects, p), objects))
                 /\ \A i \in DOMAIN Rest(list, objects, p) :
                       Stripped[objects[Rest(list, objects, p)[i]]] # Stripped[p]
<1> DEFINE same == {i \in DOMAIN list : Stripped[objects[list[i]]] = Stripped[p]}
           first == CHOOSE i \in same : \A j \in same : i <= j
           shorter == [i \in 1 .. Len(list) - 1 |-> IF i < first THEN list[i] ELSE list[i + 1]]
<1>0. Rest(list, objects, p) = IF same = {} THEN list ELSE shorter
  BY DEF Rest
<1> HIDE DEF first
<1>1. CASE same = {}
  <2>1. Rest(list, objects, p) = list
    BY <1>0, <1>1
  <2>2. \A i \in DOMAIN list : Stripped[objects[list[i]]] # Stripped[p]
    BY <1>1
  <2>. QED BY <2>1, <2>2
<1>2. CASE same # {}
  <2>1. Rest(list, objects, p) = shorter
    BY <1>0, <1>2
  <2>2. Len(list) \in Nat /\ Len(list) >= 1 /\ DOMAIN list = 1 .. Len(list)
    BY <1>2
  <2>3. \A i \in 1 .. Len(list) - 1 : \E j \in 1 .. Len(list) : shorter[i] = list[j]
    BY <2>2
  <2>4. shorter \in [1 .. Len(list) - 1 -> Entry]
    BY <2>2, <2>3
  <2>5. shorter \in Seq(Entry) /\ Len(shorter) = Len(list) - 1 /\ DOMAIN shorter = 1 .. Len(list) - 1
    BY <2>2, <2>4
  <2>6. Elements(shorter) \subseteq Elements(list)
    BY <2>2, <2>3, <2>5 DEF Elements
  <2>7. ASSUME Distinct(Paths(list, objects))
        PROVE  /\ Distinct(Paths(shorter, objects))
               /\ \A i \in DOMAIN shorter : Stripped[objects[shorter[i]]] # Stripped[p]
    <3>1. \A i, j \in 1 .. Len(list) :
             Stripped[objects[list[i]]] = Stripped[objects[list[j]]] => i = j
      BY <2>2, <2>7 DEF Distinct, Paths
    <3>2. PICK k \in 1 .. Len(list) : same = {k}
      BY <1>2, <2>2, <3>1
    <3>3. first = k
      BY <3>2 DEF first
    <3>4. \A i \in 1 .. Len(list) - 1 : shorter[i] = list[IF i < k THEN i ELSE i + 1]
      BY <3>3
    <3>5. \A i, j \in 1 .. Len(list) - 1 :
             Stripped[objects[shorter[i]]] = Stripped[objects[shorter[j]]] => i = j
      BY <2>2, <3>1, <3>2, <3>4
    <3>6. \A i \in 1 .. Len(list) - 1 : Stripped[objects[shorter[i]]] # Stripped[p]
      <4>1. ASSUME NEW i \in 1 .. Len(list) - 1, Stripped[objects[shorter[i]]] = Stripped[p]
            PROVE  FALSE
        <5>1. (IF i < k THEN i ELSE i + 1) \in 1 .. Len(list) /\ (IF i < k THEN i ELSE i + 1) # k
          BY <2>2, <3>2
        <5>2. (IF i < k THEN i ELSE i + 1) \in same
          BY <2>2, <3>4, <4>1, <5>1
        <5>. QED BY <3>2, <5>1, <5>2
      <4>. QED BY <4>1
    <3> HIDE DEF shorter
    <3> DEFINE q == Paths(shorter, objects)
    <3>7. /\ DOMAIN q = 1 .. Len(list) - 1
          /\ \A i \in 1 .. Len(list) - 1 : q[i] = objects[shorter[i]]
      BY <2>5 DEF Paths
    <3> HIDE DEF q
    <3>8. \A i, j \in DOMAIN q : Stripped[q[i]] = Stripped[q[j]] => i = j
      <4>1. ASSUME NEW i \in DOMAIN q, NEW j \in DOMAIN q, Stripped[q[i]] = Stripped[q[j]]
            PROVE  i = j
        BY <3>5, <3>7, <4>1
      <4>. QED BY <4>1
    <3>9. Distinct(q)
      BY <3>8 DEF Distinct
    <3>10. \A i \in DOMAIN shorter : Stripped[objects[shorter[i]]] # Stripped[p]
      BY <2>5, <3>6
    <3>. QED BY <3>9, <3>10 DEF q
  <2>. QED BY <2>1, <2>2, <2>5, <2>6, <2>7
<1>. QED BY <1>1, <1>2

-----------------------------------------------------------------------------
(* The renumbering of the objects at the end of a step.                     *)

\* After a step, both lists are of the same paths as those that the handler left.
LEMMA BecomesPaths ==
    ASSUME NEW s, StateOK(s), Becomes(s), SettingsAssumption
    PROVE  /\ StateOK(State')
           /\ Paths(config.recents, path)' = Paths(s.config.recents, s.path)
           /\ Paths(view.recents, path)' = Paths(s.view.recents, s.path)
<1> DEFINE listed == s.config.recents
           kept == s.view.recents
           Place(j) == IF kept[j] \in Elements(listed)
                       THEN CHOOSE i \in DOMAIN listed : listed[i] = kept[j]
                       ELSE Len(listed) + j
           Old(i) == IF i \in DOMAIN listed THEN listed[i] ELSE kept[i - Len(listed)]
           D == DOMAIN listed \cup {Place(j) : j \in DOMAIN kept}
<1>1. /\ config' = [s.config EXCEPT !.recents = [i \in DOMAIN listed |-> i]]
      /\ view' = [s.view EXCEPT !.recents = [j \in DOMAIN kept |-> Place(j)]]
      /\ path' = [i \in D |-> s.path[Old(i)]]
      /\ file' = s.file /\ home' = s.home
      /\ written' = s.written /\ unsaved' = s.unsaved
  BY DEF Becomes
<1>2. /\ s \in RecordType
      /\ Elements(listed) \subseteq DOMAIN s.path /\ Elements(kept) \subseteq DOMAIN s.path
      /\ Len(listed) <= MaxRecent /\ Len(kept) <= MaxRecent /\ Len(s.file.recents) <= MaxRecent
  BY DEF StateOK
<1>3. listed \in Seq(Entry) /\ kept \in Seq(Entry)
  BY <1>2 DEF RecordType, ViewType
<1>4. /\ Len(listed) \in Nat /\ DOMAIN listed = 1 .. Len(listed)
      /\ Len(kept) \in Nat /\ DOMAIN kept = 1 .. Len(kept)
      /\ MaxRecent \in Nat
  BY <1>3 DEF SettingsAssumption
<1>5. PICK E \in SUBSET Entry : s.path \in [E -> Path]
  BY <1>2 DEF RecordType, PathMap
<1>6. ASSUME NEW j \in DOMAIN kept
      PROVE  Place(j) \in Entry /\ Old(Place(j)) = kept[j]
  <2>1. CASE kept[j] \in Elements(listed)
    <3>1. \E i \in DOMAIN listed : listed[i] = kept[j]
      BY <2>1 DEF Elements
    <3>2. Place(j) \in DOMAIN listed /\ listed[Place(j)] = kept[j]
      BY <2>1, <3>1
    <3>. QED BY <3>2, <1>2, <1>4 DEF Entry
  <2>2. CASE kept[j] \notin Elements(listed)
    <3>1. Place(j) = Len(listed) + j
      BY <2>2
    <3>2. Place(j) \in Entry /\ Place(j) \notin DOMAIN listed /\ Place(j) - Len(listed) = j
      BY <3>1, <1>2, <1>4, <1>6 DEF Entry
    <3>. QED BY <3>2
  <2>. QED BY <2>1, <2>2
<1> HIDE DEF Place
<1>7. D \subseteq Entry
  BY <1>2, <1>4, <1>6 DEF Entry
<1>8. \A i \in D : Old(i) \in Elements(listed) \cup Elements(kept)
  <2>1. ASSUME NEW i \in DOMAIN listed PROVE Old(i) \in Elements(listed)
    BY <2>1 DEF Elements
  <2>2. ASSUME NEW j \in DOMAIN kept PROVE Old(Place(j)) \in Elements(kept)
    BY <2>2, <1>6 DEF Elements
  <2>. QED BY <2>1, <2>2
<1>9. path' \in [D -> Path]
  <2>1. \A i \in D : s.path[Old(i)] \in Path
    BY <1>2, <1>5, <1>8
  <2>. QED BY <1>1, <2>1
<1>10. path' \in PathMap
  BY <1>7, <1>9 DEF PathMap
<1>11. /\ config'.recents = [i \in DOMAIN listed |-> i]
       /\ view'.recents = [j \in DOMAIN kept |-> Place(j)]
  BY <1>1, <1>2 DEF RecordType, ViewType
<1>12. /\ config'.recents \in Seq(Entry) /\ Len(config'.recents) = Len(listed)
       /\ DOMAIN config'.recents = DOMAIN listed
  <2>1. config'.recents \in [1 .. Len(listed) -> Entry]
    BY <1>2, <1>4, <1>11 DEF Entry
  <2>. QED BY <1>4, <2>1
<1>13. /\ view'.recents \in Seq(Entry) /\ Len(view'.recents) = Len(kept)
       /\ DOMAIN view'.recents = DOMAIN kept
  <2>1. view'.recents \in [1 .. Len(kept) -> Entry]
    BY <1>4, <1>6, <1>11
  <2>. QED BY <1>4, <2>1
<1>14. Elements(config'.recents) \subseteq DOMAIN path' /\ Elements(view'.recents) \subseteq DOMAIN path'
  <2>1. DOMAIN path' = D
    BY <1>1
  <2>. QED BY <1>11, <1>12, <1>13, <2>1 DEF Elements
<1>15. Paths(config'.recents, path') = Paths(listed, s.path)
  <2>1. ASSUME NEW i \in DOMAIN listed PROVE path'[config'.recents[i]] = s.path[listed[i]]
    <3>1. config'.recents[i] = i /\ i \in D /\ Old(i) = listed[i]
      BY <1>11
    <3>2. path'[i] = s.path[Old(i)]
      BY <1>1, <3>1
    <3>. QED BY <3>1, <3>2
  <2>. QED BY <1>12, <2>1 DEF Paths
<1>16. Paths(view'.recents, path') = Paths(kept, s.path)
  <2>1. ASSUME NEW j \in DOMAIN kept PROVE path'[view'.recents[j]] = s.path[kept[j]]
    <3>1. view'.recents[j] = Place(j) /\ Place(j) \in D
      BY <1>11
    <3>2. path'[Place(j)] = s.path[Old(Place(j))]
      BY <1>1, <3>1
    <3>. QED BY <1>6, <3>1, <3>2
  <2>. QED BY <1>13, <2>1 DEF Paths
<1>17. StateOK(State')
  <2>1. config' \in [ui : Ui, places : Places, recents : Seq(Entry), api : Valid]
    BY <1>1, <1>2, <1>11, <1>12 DEF RecordType
  <2>2. view' \in ViewType
    BY <1>1, <1>2, <1>11, <1>13 DEF RecordType, ViewType
  <2>3. State' \in RecordType
    BY <1>1, <1>2, <1>10, <2>1, <2>2 DEF RecordType, State
  <2>. QED BY <1>1, <1>2, <1>12, <1>13, <1>14, <2>3 DEF StateOK, State
<1>. QED BY <1>15, <1>16, <1>17

\* A step that ends in a good state leaves the variables in one.
LEMMA BecomesGood ==
    ASSUME NEW s, Good(s), Becomes(s), SettingsAssumption
    PROVE  Good(State')
<1>1. StateOK(s)
  BY DEF Good
<1>2. /\ StateOK(State')
      /\ Paths(config.recents, path)' = Paths(s.config.recents, s.path)
  BY <1>1, BecomesPaths
<1>3. /\ s.config \in [ui : Ui, places : Places, recents : Seq(Entry), api : Valid] /\ s.view \in ViewType
  BY <1>1 DEF StateOK, RecordType
<1>4. /\ config'.ui = s.config.ui /\ config'.places = s.config.places
      /\ config'.api = s.config.api
      /\ view'.apiInitial = s.view.apiInitial /\ view'.api = s.view.api /\ view'.apiFlag = s.view.apiFlag
      /\ file' = s.file /\ written' = s.written /\ unsaved' = s.unsaved
  BY <1>3, Zenon DEF Becomes, ViewType
<1>5. config' \in [ui : Ui, places : Places, recents : Seq(Entry), api : Valid]
  BY <1>2 DEF StateOK, RecordType, State
<1>6. Stored(config', path') = Stored(s.config, s.path)
  BY <1>2, <1>3, <1>4, <1>5 DEF Stored
<1>7. FileOK(State')
  BY <1>4, <1>6 DEF Good, FileOK, State
<1>8. ApiOK(State')
  BY <1>4 DEF Good, ApiOK, State
<1>. QED BY <1>2, <1>7, <1>8 DEF Good
-----------------------------------------------------------------------------

-----------------------------------------------------------------------------
(* What the handlers call.                                                  *)

\* Writing the file, whether it succeeds or not, leaves a good state, and no
\* other variable is changed.
LEMMA WriteGood ==
    ASSUME NEW s, StateOK(s), ApiOK(s), NEW ok \in BOOLEAN, SettingsAssumption
    PROVE  /\ Good(WriteFile(s, ok))
           /\ WriteFile(s, ok).config = s.config /\ WriteFile(s, ok).path = s.path
           /\ WriteFile(s, ok).view = s.view /\ WriteFile(s, ok).home = s.home
           /\ WriteFile(s, ok).file.recents \in {s.file.recents, Paths(s.config.recents, s.path)}
<1> DEFINE t == WriteFile(s, ok)
<1>1. /\ s \in RecordType
      /\ s.config \in [ui : Ui, places : Places, recents : Seq(Entry), api : Valid]
      /\ s.path \in PathMap
  BY DEF StateOK, RecordType
<1>2. /\ Stored(s.config, s.path) \in [ui : Ui, places : Places, recents : Seq(Path), api : Valid]
      /\ Len(Stored(s.config, s.path).recents) <= MaxRecent
  <2>1. /\ Paths(s.config.recents, s.path) \in Seq(Path)
        /\ Len(Paths(s.config.recents, s.path)) = Len(s.config.recents)
    BY <1>1, PathsType DEF StateOK
  <2>. QED BY <1>1, <2>1 DEF Stored, StateOK
<1>3. t = [s EXCEPT !.file = IF ok THEN Stored(s.config, s.path) ELSE @, !.written = ok,
                    !.unsaved = @ /\ ~ok]
  BY DEF WriteFile
<1> HIDE DEF t
<1>4. /\ t.config = s.config /\ t.path = s.path /\ t.view = s.view /\ t.home = s.home
      /\ t.file = (IF ok THEN Stored(s.config, s.path) ELSE s.file) /\ t.written = ok
      /\ t.unsaved = (s.unsaved /\ ~ok)
      /\ t \in RecordType
  BY <1>1, <1>2, <1>3 DEF RecordType
<1>5. StateOK(t)
  BY <1>2, <1>4 DEF StateOK
<1>6. FileOK(t) /\ ApiOK(t)
  <2>1. [Stored(s.config, s.path) EXCEPT !.places = @] = Stored(s.config, s.path)
    BY <1>2
  <2>2. FileOK(t)
    BY <1>4, <2>1 DEF FileOK
  <2>. QED BY <1>4, <2>2 DEF ApiOK
<1>7. Stored(s.config, s.path).recents = Paths(s.config.recents, s.path)
  BY <1>1 DEF Stored
<1>. QED BY <1>4, <1>5, <1>6, <1>7 DEF Good, t

\* The page's copy goes to the manager.
LEMMA SetGlobalConfigOK ==
    ASSUME NEW s, StateOK(s), ApiOK(s)
    PROVE  StateOK(SetGlobalConfig(s)) /\ ApiOK(SetGlobalConfig(s))
<1>1. /\ SetGlobalConfig(s) \in RecordType
      /\ SetGlobalConfig(s).config.recents = s.view.recents
      /\ SetGlobalConfig(s).config.api = s.config.api
      /\ SetGlobalConfig(s).view = s.view /\ SetGlobalConfig(s).path = s.path
      /\ SetGlobalConfig(s).file = s.file
  BY DEF SetGlobalConfig, StateOK, RecordType, ViewType
<1>. QED BY <1>1 DEF StateOK, ApiOK

\* The manager's settings go to the page's copy.
LEMMA PullGood ==
    ASSUME NEW s, StateOK(s), ApiOK(s)
    PROVE  StateOK(Pull(s)) /\ ApiOK(Pull(s)) /\ (FileOK(s) => FileOK(Pull(s)))
<1>1. /\ Pull(s) \in RecordType
      /\ Pull(s).view.recents = s.config.recents
      /\ Pull(s).view.api = s.view.api /\ Pull(s).view.apiInitial = s.view.apiInitial
      /\ Pull(s).view.apiFlag = s.view.apiFlag
      /\ Pull(s).config = s.config /\ Pull(s).path = s.path
      /\ Pull(s).file = s.file /\ Pull(s).written = s.written
      /\ Pull(s).unsaved = s.unsaved
  BY DEF Pull, StateOK, RecordType, ViewType
<1>. QED BY <1>1 DEF StateOK, ApiOK, FileOK

\* A change of the application page, or of what is shown, keeps a state good.
LEMMA PageGood ==
    ASSUME NEW s, Good(s), NEW v \in ViewType, v.recents = s.view.recents,
           v.api = s.view.api, v.apiInitial = s.view.apiInitial, v.apiFlag = s.view.apiFlag
    PROVE  Good([s EXCEPT !.view = v]) /\ SameLists(s, [s EXCEPT !.view = v])
<1> DEFINE t == [s EXCEPT !.view = v]
<1>1. /\ t \in RecordType /\ t.view = v
      /\ t.config = s.config /\ t.path = s.path /\ t.file = s.file /\ t.written = s.written
      /\ t.unsaved = s.unsaved /\ t.home = s.home
  BY DEF Good, StateOK, RecordType
<1> HIDE DEF t
<1>2. StateOK(t) /\ FileOK(t) /\ ApiOK(t)
  BY <1>1 DEF Good, StateOK, FileOK, ApiOK
<1>. QED BY <1>1, <1>2 DEF Good, SameLists, t

\* Showing the application page.
LEMMA ShowGood == ASSUME NEW s, Good(s) PROVE Good(Show(s)) /\ SameLists(s, Show(s))
<1> DEFINE v == [s.view EXCEPT !.widgets = s.config.ui, !.flag = FALSE]
           t == [s EXCEPT !.view = v]
<1>1. s \in RecordType
  BY DEF Good, StateOK
<1>2. /\ v \in ViewType /\ v.recents = s.view.recents
      /\ v.api = s.view.api /\ v.apiInitial = s.view.apiInitial /\ v.apiFlag = s.view.apiFlag
  BY <1>1 DEF RecordType, ViewType
<1>3. Good(t) /\ SameLists(s, t)
  BY <1>2, PageGood
<1>4. [s EXCEPT !.view.widgets = s.config.ui, !.view.flag = FALSE] = t
  BY <1>1 DEF RecordType, ViewType
<1>5. Show(s) = IF HasPending(s.view) THEN s ELSE Pull(t)
  BY <1>4 DEF Show
<1> HIDE DEF t
<1>6. SameLists(t, Pull(t))
  <2>1. t \in RecordType
    BY <1>3 DEF Good, StateOK
  <2>2. /\ Pull(t).home = t.home /\ Pull(t).config = t.config /\ Pull(t).path = t.path
        /\ Pull(t).file = t.file /\ Pull(t).view.recents = t.config.recents
    BY <2>1 DEF RecordType, ViewType, Pull
  <2>. QED BY <2>2 DEF SameLists
<1>. QED BY <1>3, <1>5, <1>6, PullGood DEF Good, SameLists

\* Saving the application settings.
LEMMA SaveGlobalGood ==
    ASSUME NEW s, Good(s), NEW ok \in BOOLEAN, SettingsAssumption
    PROVE  Good(SaveGlobal(s, ok)) /\ SameLists(s, SaveGlobal(s, ok))
<1> DEFINE t == SetGlobalConfig(Pull(s))
           w == WriteFile(t, ok)
           v == [w.view EXCEPT !.flag = @ /\ ~ok]
<1>1. StateOK(t) /\ ApiOK(t)
  BY PullGood, SetGlobalConfigOK DEF Good
<1>2. Good(w) /\ SameLists(s, w)
  <2>1. /\ t.config.recents = s.config.recents /\ t.path = s.path /\ t.home = s.home
        /\ t.view.recents = s.config.recents /\ t.file = s.file
    BY DEF Good, StateOK, RecordType, ViewType, Pull, SetGlobalConfig
  <2> HIDE DEF t
  <2>. QED BY <1>1, <2>1, WriteGood DEF SameLists
<1> HIDE DEF w
<1>3. /\ v \in ViewType /\ v.recents = w.view.recents
      /\ v.api = w.view.api /\ v.apiInitial = w.view.apiInitial /\ v.apiFlag = w.view.apiFlag
  BY <1>2 DEF Good, StateOK, RecordType, ViewType
<1>4. [w EXCEPT !.view.flag = @ /\ ~ok] = [w EXCEPT !.view = v]
  BY <1>2 DEF Good, StateOK, RecordType, ViewType
<1>5. SaveGlobal(s, ok) = [w EXCEPT !.view.flag = @ /\ ~ok]
  BY DEF SaveGlobal, w
<1> HIDE DEF v
<1>6. Good([w EXCEPT !.view = v]) /\ SameLists(w, [w EXCEPT !.view = v])
  BY <1>2, <1>3, PageGood
<1>. QED BY <1>2, <1>4, <1>5, <1>6 DEF SameLists

\* Saving the build settings.
LEMMA SaveApiGood ==
    ASSUME NEW s, Good(s), NEW ok \in BOOLEAN, SettingsAssumption
    PROVE  Good(SaveApi(s, ok)) /\ SameLists(s, SaveApi(s, ok))
<1> DEFINE t == [s EXCEPT !.view.apiInitial = s.view.api, !.config.api = s.view.api]
           w == WriteFile(t, ok)
<1>0. SaveApi(s, ok) = IF s.view.api = Invalid THEN s ELSE [w EXCEPT !.view.apiFlag = @ /\ ~ok]
  BY DEF SaveApi
<1>1. CASE s.view.api = Invalid
  BY <1>0, <1>1 DEF SameLists
<1>2. CASE s.view.api # Invalid
  <2>1. s \in RecordType /\ s.view \in ViewType /\ s.view.api \in Valid
    BY <1>2 DEF Good, StateOK, RecordType, ViewType
  <2>2. /\ t \in RecordType
        /\ t.view.recents = s.view.recents /\ t.config.recents = s.config.recents
        /\ t.view.apiInitial = s.view.api /\ t.view.api = s.view.api /\ t.config.api = s.view.api
        /\ t.path = s.path /\ t.file = s.file /\ t.home = s.home
    BY <2>1 DEF RecordType, ViewType
  <2>3. StateOK(t) /\ ApiOK(t)
    <3> HIDE DEF t
    <3>. QED BY <2>2 DEF Good, StateOK, ApiOK
  <2>4. Good(w) /\ w.view = t.view /\ w.config = t.config /\ w.path = t.path /\ w.home = t.home
    BY <2>3, WriteGood
  <2>5. w.view.api = w.view.apiInitial
    BY <2>2, <2>4
  <2> HIDE DEF w, t
  <2> DEFINE r == [w EXCEPT !.view.apiFlag = @ /\ ~ok]
  <2>6. /\ r \in RecordType
        /\ r.view.recents = w.view.recents /\ r.view.apiInitial = w.view.apiInitial
        /\ r.view.api = w.view.api
        /\ r.config = w.config /\ r.path = w.path /\ r.file = w.file /\ r.written = w.written
        /\ r.unsaved = w.unsaved /\ r.home = w.home
    <3> DEFINE x == [w.view EXCEPT !.apiFlag = @ /\ ~ok]
    <3>1. w \in RecordType /\ w.view \in ViewType
      BY <2>4 DEF Good, StateOK, RecordType
    <3>2. /\ x \in ViewType /\ x.recents = w.view.recents
          /\ x.apiInitial = w.view.apiInitial /\ x.api = w.view.api
      BY <3>1 DEF ViewType
    <3>3. r = [w EXCEPT !.view = x]
      BY <3>1 DEF RecordType
    <3> HIDE DEF x, r
    <3>. QED BY <3>1, <3>2, <3>3 DEF RecordType
  <2> HIDE DEF r
  <2>7. Good(r)
    BY <2>4, <2>5, <2>6 DEF Good, StateOK, FileOK, ApiOK
  <2>8. SameLists(s, r)
    <3>1. r.file.recents \in {t.file.recents, Paths(t.config.recents, t.path)}
      BY <2>3, <2>6, WriteGood DEF w
    <3>. QED BY <2>2, <2>4, <2>6, <3>1 DEF SameLists
  <2>. QED BY <1>0, <1>2, <2>7, <2>8 DEF r
<1>. QED BY <1>1, <1>2

\* Saving both pages.
LEMMA SaveSettingsGood ==
    ASSUME NEW s, Good(s), NEW ok \in BOOLEAN, SettingsAssumption
    PROVE  Good(SaveSettings(s, ok)) /\ SameLists(s, SaveSettings(s, ok))
<1> DEFINE v == [s.view EXCEPT !.flag = HasPending(s.view)]
           a == [s EXCEPT !.view = v]
           b == IF HasPending(s.view) THEN SaveGlobal(a, ok) ELSE a
<1>1. s \in RecordType /\ s.view \in ViewType
  BY DEF Good, StateOK, RecordType
<1>2. /\ v \in ViewType /\ v.recents = s.view.recents
      /\ v.api = s.view.api /\ v.apiInitial = s.view.apiInitial /\ v.apiFlag = s.view.apiFlag
  BY <1>1 DEF ViewType, HasPending
<1>3. [s EXCEPT !.view.flag = HasPending(s.view)] = a
  BY <1>1 DEF RecordType, ViewType
<1> HIDE DEF v
<1>4. Good(a) /\ SameLists(s, a)
  BY <1>2, PageGood
<1> HIDE DEF a
<1>5. Good(b) /\ SameLists(s, b)
  BY <1>4, SaveGlobalGood DEF SameLists
<1>6. SaveSettings(s, ok) = IF ApiPending(s.view) THEN SaveApi(b, ok) ELSE b
  BY <1>3 DEF SaveSettings
<1> HIDE DEF b
<1>. QED BY <1>5, <1>6, SaveApiGood DEF SameLists

\* Going back to the settings in force.
LEMMA RevertGood == ASSUME NEW s, Good(s) PROVE Good(Revert(s)) /\ SameLists(s, Revert(s))
<1>1. s \in RecordType /\ s.view.apiInitial = s.config.api
  BY DEF Good, StateOK, ApiOK
<1>2. /\ Revert(s) \in RecordType
      /\ Revert(s).view.recents = s.view.recents
      /\ Revert(s).view.api = s.view.apiInitial /\ Revert(s).view.apiInitial = s.view.apiInitial
      /\ Revert(s).config = s.config /\ Revert(s).path = s.path
      /\ Revert(s).file = s.file /\ Revert(s).written = s.written
      /\ Revert(s).unsaved = s.unsaved /\ Revert(s).home = s.home
  BY <1>1 DEF Revert, RecordType, ViewType
<1>. QED BY <1>1, <1>2 DEF Good, StateOK, FileOK, ApiOK, SameLists

\* Whatever is answered to the question whether to save.
LEMMA PromptedGood ==
    ASSUME Good(State), SettingsAssumption, NEW s \in Prompted
    PROVE  Good(s) /\ SameLists(State, s)
<1>1. Writes \subseteq BOOLEAN
  BY DEF Writes
<1>2. \A ok \in Writes :
         Good(SaveSettings(State, ok)) /\ SameLists(State, SaveSettings(State, ok))
  BY <1>1, SaveSettingsGood
<1>3. Good(Revert(State)) /\ SameLists(State, Revert(State))
  BY RevertGood
<1>. QED BY <1>2, <1>3 DEF Prompted, SameLists

-----------------------------------------------------------------------------
(* The list of recent projects.                                             *)

\* Adding a project.
LEMMA AddRecentGood ==
    ASSUME NEW s, StateOK(s), ApiOK(s), NEW p \in Path, NEW ok \in BOOLEAN, SettingsAssumption
    PROVE  /\ Good(AddRecent(s, p, ok))
           /\ AddRecent(s, p, ok).view = s.view /\ AddRecent(s, p, ok).config.ui = s.config.ui
           /\ AddRecent(s, p, ok).home = s.home /\ IsListed(p, AddRecent(s, p, ok))
           /\ Once(s) => Once(AddRecent(s, p, ok))
<1> DEFINE e == Fresh(s)
           rest == Rest(s.config.recents, s.path, p)
           list == Append(rest, e)
           new == IF Len(list) > MaxRecent THEN Tail(list) ELSE list
           objects == [d \in DOMAIN s.path \cup {e} |-> IF d = e THEN p ELSE s.path[d]]
           t == [s EXCEPT !.path = objects, !.config.recents = new]
<1>1. s \in RecordType /\ s.config.recents \in Seq(Entry) /\ MaxRecent \in Nat \ {0}
  BY DEF StateOK, RecordType, SettingsAssumption
<1>2. e \in Entry /\ e \notin Elements(s.config.recents) /\ e \notin Elements(s.view.recents)
  BY FreshIsFree
<1>3. /\ rest \in Seq(Entry) /\ Len(rest) <= MaxRecent /\ Len(rest) \in Nat
      /\ Elements(rest) \subseteq DOMAIN s.path /\ e \notin Elements(rest)
      /\ Once(s) => /\ Distinct(Paths(rest, s.path))
                    /\ \A i \in DOMAIN rest : Stripped[s.path[rest[i]]] # Stripped[p]
  <2>1. /\ rest \in Seq(Entry) /\ Len(rest) <= Len(s.config.recents)
        /\ Elements(rest) \subseteq Elements(s.config.recents)
    BY <1>1, RestList
  <2>2. Once(s) => /\ Distinct(Paths(rest, s.path))
                   /\ \A i \in DOMAIN rest : Stripped[s.path[rest[i]]] # Stripped[p]
    BY <1>1, RestList DEF Once
  <2>. QED BY <1>1, <1>2, <2>1, <2>2 DEF StateOK
<1> HIDE DEF rest, e
<1>4. /\ list \in Seq(Entry) /\ Len(list) = Len(rest) + 1
      /\ \A i \in 1 .. Len(list) : list[i] = IF i = Len(list) THEN e ELSE rest[i]
  BY <1>2, <1>3
<1>5. Elements(list) \subseteq DOMAIN objects
  BY <1>3, <1>4 DEF Elements
<1> HIDE DEF list
<1>6. /\ new \in Seq(Entry) /\ Len(new) <= MaxRecent
      /\ Elements(new) \subseteq DOMAIN objects
      /\ Len(new) \in DOMAIN new /\ new[Len(new)] = e
  <2>1. CASE Len(list) > MaxRecent
    <3>1. new = Tail(list) /\ list # <<>>
      BY <2>1, <1>1, <1>4
    <3>2. /\ new \in Seq(Entry) /\ Len(new) = Len(list) - 1
          /\ \A i \in 1 .. Len(new) : new[i] = list[i + 1]
      BY <3>1, <1>4
    <3>3. Elements(new) \subseteq Elements(list)
      BY <3>2, <1>3, <1>4 DEF Elements
    <3>. QED BY <3>2, <3>3, <1>3, <1>4, <1>5
  <2>2. CASE ~ (Len(list) > MaxRecent)
    <3>1. new = list
      BY <2>2
    <3>. QED BY <3>1, <2>2, <1>1, <1>3, <1>4, <1>5
  <2>. QED BY <2>1, <2>2
<1>0. ASSUME Once(s) PROVE Distinct(Paths(new, objects)) /\ Distinct(Paths(s.view.recents, objects))
  <2>1. /\ objects[e] = p
        /\ \A i \in DOMAIN rest : rest[i] \in DOMAIN s.path /\ rest[i] # e
        /\ \A i \in DOMAIN s.view.recents : s.view.recents[i] \in DOMAIN s.path /\ s.view.recents[i] # e
    BY <1>2, <1>3 DEF Elements, StateOK
  <2>2. /\ \A i \in DOMAIN rest : objects[rest[i]] = s.path[rest[i]]
        /\ \A i \in DOMAIN s.view.recents : objects[s.view.recents[i]] = s.path[s.view.recents[i]]
    BY <2>1
  <2> HIDE DEF objects
  <2>3. Paths(s.view.recents, objects) = Paths(s.view.recents, s.path)
    BY <2>2 DEF Paths
  <2>4. \A i, j \in 1 .. Len(rest) :
           Stripped[objects[rest[i]]] = Stripped[objects[rest[j]]] => i = j
    BY <1>0, <1>3, <2>2 DEF Distinct, Paths
  <2>5. \A i \in 1 .. Len(rest) : Stripped[objects[rest[i]]] # Stripped[p]
    BY <1>0, <1>3, <2>2
  <2>6. \A i, j \in 1 .. Len(list) :
           Stripped[objects[list[i]]] = Stripped[objects[list[j]]] => i = j
    <3>1. /\ list[Len(list)] = e
          /\ \A i \in 1 .. Len(list) : i # Len(list) => i \in 1 .. Len(rest) /\ list[i] = rest[i]
      BY <1>3, <1>4
    <3>2. ASSUME NEW i \in 1 .. Len(list), NEW j \in 1 .. Len(list),
                 Stripped[objects[list[i]]] = Stripped[objects[list[j]]]
          PROVE  i = j
      <4>1. CASE i # Len(list) /\ j # Len(list)
        BY <2>4, <3>1, <3>2, <4>1
      <4>2. CASE i = Len(list) /\ j # Len(list)
        BY <2>1, <2>5, <3>1, <3>2, <4>2
      <4>3. CASE i # Len(list) /\ j = Len(list)
        BY <2>1, <2>5, <3>1, <3>2, <4>3
      <4>. QED BY <4>1, <4>2, <4>3
    <3>. QED BY <3>2
  <2>7. \/ new = list
        \/ Len(list) > MaxRecent /\ Len(new) = Len(list) - 1 /\ \A i \in 1 .. Len(new) : new[i] = list[i + 1]
    BY <1>1, <1>3, <1>4 DEF new
  <2> HIDE DEF new
  <2>8. \A i, j \in 1 .. Len(new) :
           Stripped[objects[new[i]]] = Stripped[objects[new[j]]] => i = j
    <3>1. CASE new = list
      BY <2>6, <3>1
    <3>2. CASE Len(new) = Len(list) - 1 /\ \A i \in 1 .. Len(new) : new[i] = list[i + 1]
      <4>1. \A i \in 1 .. Len(new) : i + 1 \in 1 .. Len(list)
        BY <1>3, <1>4, <3>2
      <4>2. ASSUME NEW i \in 1 .. Len(new), NEW j \in 1 .. Len(new),
                   Stripped[objects[new[i]]] = Stripped[objects[new[j]]]
            PROVE  i = j
        <5>1. i + 1 = j + 1
          BY <2>6, <3>2, <4>1, <4>2
        <5>. QED BY <5>1
      <4>. QED BY <4>2
    <3>. QED BY <2>7, <3>1, <3>2
  <2>9. Distinct(Paths(new, objects))
    BY <1>6, <2>8 DEF Distinct, Paths
  <2>. QED BY <1>0, <2>3, <2>9 DEF Once
<1>7. objects \in PathMap /\ DOMAIN s.path \subseteq DOMAIN objects
  <2>1. PICK D \in SUBSET Entry : s.path \in [D -> Path]
    BY <1>1 DEF RecordType, PathMap
  <2>2. objects \in [D \cup {e} -> Path] /\ D \cup {e} \in SUBSET Entry
    BY <2>1, <1>2
  <2>3. objects \in PathMap
    BY <2>2, Zenon DEF PathMap
  <2>. QED BY <2>1, <2>3
<1> HIDE DEF new, objects
<1>8. /\ t \in RecordType
      /\ t.config.recents = new /\ t.config.api = s.config.api /\ t.config.ui = s.config.ui
      /\ t.path = objects /\ t.view = s.view /\ t.file = s.file
      /\ t.home = s.home
  BY <1>1, <1>6, <1>7 DEF RecordType
<1>9. AddRecent(s, p, ok) = WriteFile(t, ok)
  BY DEF AddRecent, t, new, list, rest, e, objects
<1> HIDE DEF t
<1>10. StateOK(t) /\ ApiOK(t)
  BY <1>6, <1>7, <1>8 DEF StateOK, ApiOK
<1>11. p \in Elements(Paths(t.config.recents, t.path))
  <2>1. objects[e] = p
    BY DEF objects
  <2>2. /\ DOMAIN Paths(new, objects) = DOMAIN new
        /\ Paths(new, objects)[Len(new)] = p
    BY <1>6, <2>1 DEF Paths
  <2>. QED BY <1>6, <1>8, <2>2 DEF Elements
<1> DEFINE w == WriteFile(t, ok)
<1>12. /\ Good(w) /\ w.config = t.config /\ w.path = t.path /\ w.view = t.view /\ w.home = t.home
       /\ w.file.recents \in {t.file.recents, Paths(t.config.recents, t.path)}
  BY <1>10, WriteGood
<1>13. Once(s) => Once(w)
  BY <1>0, <1>8, <1>12 DEF Once
<1>. QED BY <1>8, <1>9, <1>11, <1>12, <1>13 DEF IsListed

\* Saving a project: it is added unless it is listed.
LEMMA SaveProjectGood ==
    ASSUME NEW s, Good(s), NEW p \in Path, NEW ok \in BOOLEAN, SettingsAssumption
    PROVE  /\ Good(SaveProjectFile(s, p, ok))
           /\ SaveProjectFile(s, p, ok).view = s.view
           /\ SaveProjectFile(s, p, ok).config.ui = s.config.ui
           /\ SaveProjectFile(s, p, ok).home = s.home
           /\ IsListed(p, SaveProjectFile(s, p, ok))
           /\ Once(s) => Once(SaveProjectFile(s, p, ok))
BY AddRecentGood DEF SaveProjectFile, Good, IsListed

\* A change of what the main window shows keeps a state good.
LEMMA HomeGood ==
    ASSUME NEW s, Good(s), NEW h \in [open : Path \cup {None}, buttons : Seq(Path)]
    PROVE  /\ Good([s EXCEPT !.home = h])
           /\ [s EXCEPT !.home = h].view = s.view /\ [s EXCEPT !.home = h].config = s.config
           /\ [s EXCEPT !.home = h].path = s.path /\ [s EXCEPT !.home = h].home = h
           /\ Once(s) => Once([s EXCEPT !.home = h])
<1> DEFINE t == [s EXCEPT !.home = h]
<1>1. /\ t \in RecordType /\ t.config = s.config /\ t.path = s.path /\ t.file = s.file
      /\ t.view = s.view /\ t.written = s.written /\ t.unsaved = s.unsaved
      /\ t.home = h
  BY DEF Good, StateOK, RecordType
<1> HIDE DEF t
<1>2. StateOK(t) /\ FileOK(t) /\ ApiOK(t)
  BY <1>1 DEF Good, StateOK, FileOK, ApiOK
<1>3. Once(s) => Once(t)
  BY <1>1 DEF Once
<1>. QED BY <1>1, <1>2, <1>3 DEF Good, t

\* Opening a project that is listed.
LEMMA OpenedGood ==
    ASSUME NEW s, Good(s), NEW p \in Path, IsListed(p, s), SettingsAssumption
    PROVE  LET t == [s EXCEPT !.home = Opened(p)]
           IN  /\ Good(t) /\ HomeOK(t) /\ t.view = s.view /\ t.config = s.config
               /\ t.home.open = p
               /\ Once(s) => Once(t)
<1> DEFINE h == Opened(p)
           t == [s EXCEPT !.home = h]
<1>1. /\ h \in [open : Path \cup {None}, buttons : Seq(Path)]
      /\ h.open = p /\ p # None
  BY DEF Opened, SettingsAssumption
<1> HIDE DEF h
<1>2. /\ Good(t) /\ t.view = s.view /\ t.config = s.config
      /\ t.path = s.path /\ t.home = h
      /\ Once(s) => Once(t)
  BY <1>1, HomeGood
<1> HIDE DEF t
<1>3. HomeOK(t)
  BY <1>1, <1>2 DEF HomeOK, IsListed
<1>. QED BY <1>1, <1>2, <1>3 DEF t, h

\* What the program starts with.
LEMMA StartedGood ==
    ASSUME NEW f \in [ui : Ui, places : Places, recents : Seq(Path), api : Valid], Len(f.recents) <= MaxRecent,
           SettingsAssumption
    PROVE  /\ Good(Started(f)) /\ HomeOK(Started(f))
           /\ Distinct(f.recents) => Once(Started(f))
<1> DEFINE numbers == [i \in DOMAIN f.recents |-> i]
           c == [f EXCEPT !.recents = numbers]
           t == Started(f)
<1>1. /\ f.recents \in Seq(Path) /\ Len(f.recents) \in Nat
      /\ DOMAIN f.recents = 1 .. Len(f.recents) /\ MaxRecent \in Nat
  BY DEF SettingsAssumption
<1>2. numbers \in Seq(Entry) /\ Len(numbers) = Len(f.recents) /\ DOMAIN numbers = DOMAIN f.recents
  <2>1. numbers \in [1 .. Len(f.recents) -> Entry]
    BY <1>1 DEF Entry
  <2>. QED BY <1>1, <2>1
<1>3. c \in [ui : Ui, places : Places, recents : Seq(Entry), api : Valid] /\ c.recents = numbers /\ c.api = f.api
  BY <1>2
<1>4. f.recents \in PathMap
  <2>1. f.recents \in [1 .. Len(f.recents) -> Path] /\ 1 .. Len(f.recents) \subseteq Entry
    BY <1>1 DEF Entry
  <2>. QED BY <2>1, Zenon DEF PathMap
<1>5. Elements(numbers) \subseteq DOMAIN f.recents
  BY <1>2 DEF Elements
<1>6. Stored(c, f.recents) = f /\ Paths(c.recents, f.recents) = f.recents
  <2>1. Paths(numbers, f.recents) = f.recents
    BY <1>1, <1>2 DEF Paths
  <2>2. Stored(c, f.recents) = [c EXCEPT !.recents = f.recents]
    BY <1>3, <2>1 DEF Stored
  <2>. QED BY <2>1, <2>2
<1>a. [f EXCEPT !.places = @] = f
  OBVIOUS
<1> HIDE DEF c, numbers
<1>7. /\ t.config = c /\ t.path = f.recents /\ t.file = f
      /\ t.view.recents = c.recents /\ t.view.api = f.api /\ t.view.apiInitial = f.api
      /\ t.home = [open |-> None, buttons |-> f.recents]
      /\ t.unsaved = FALSE /\ t \in RecordType
  <2>1. [open |-> None, buttons |-> f.recents] \in [open : Path \cup {None}, buttons : Seq(Path)]
    BY <1>1
  <2>2. t = [config |-> c, path |-> f.recents, file |-> f,
             view |-> [widgets |-> f.ui, initial |-> f.ui, places |-> f.places,
                       recents |-> c.recents, flag |-> FALSE, api |-> f.api, apiInitial |-> f.api, apiFlag |-> FALSE,
                       page |-> "global", tab |-> "start"],
             home |-> [open |-> None, buttons |-> f.recents],
             written |-> TRUE, unsaved |-> FALSE]
    BY DEF Started, c, numbers
  <2> HIDE DEF t
  <2>3. t.view \in ViewType
    BY <1>2, <1>3, <2>2 DEF ViewType, Pages
  <2>. QED BY <1>3, <1>4, <2>1, <2>2, <2>3 DEF RecordType
<1> HIDE DEF t
<1>8. StateOK(t) /\ FileOK(t) /\ ApiOK(t)
  BY <1>2, <1>a, <1>3, <1>5, <1>6, <1>7 DEF StateOK, FileOK, ApiOK
<1>9. HomeOK(t)
  BY <1>6, <1>7 DEF HomeOK
<1>10. Distinct(f.recents) => Once(t)
  BY <1>6, <1>7 DEF Once
<1>. QED BY <1>8, <1>9, <1>10 DEF Good, t

-----------------------------------------------------------------------------
(* Every step keeps a state good.                                           *)

\* What is true of the record is true of the variables.
LEMMA StateFields ==
    /\ State.config = config /\ State.path = path /\ State.file = file
    /\ State.view = view /\ State.home = home /\ State.written = written
    /\ State.unsaved = unsaved
BY DEF State

\* Lists that stay, or catch up with each other, have no project twice.
LEMMA SameListsOnce ==
    ASSUME NEW s, NEW t, SameLists(s, t), Once(s)
    PROVE  Once(t)
BY Zenon DEF SameLists, Once

\* The steps of the two pages.
LEMMA PageSteps ==
    ASSUME Good(State), SettingsAssumption,
           ChangeColumns \/ ChangeApi \/ Save \/ RestoreGlobal \/ RestoreApi
    PROVE  \E t : /\ Good(t) /\ Becomes(t)
                  /\ SameLists(State, t) \/ (StaleRestore /\ (Once(State) => Once(t)))
<1>0. /\ State \in RecordType /\ StateOK(State) /\ ApiOK(State) /\ FileOK(State)
      /\ view \in ViewType /\ config \in [ui : Ui, places : Places, recents : Seq(Entry), api : Valid]
  BY StateFields DEF Good, StateOK, RecordType
<1>1. CASE ChangeColumns
  <2> DEFINE v == [view EXCEPT !.widgets = 1 - @]
             w == [v EXCEPT !.flag = HasPending(v)]
  <2>1. Becomes([State EXCEPT !.view = w])
    BY <1>1 DEF ChangeColumns
  <2>a. 1 - view.widgets \in Ui
    BY <1>0 DEF ViewType, Ui
  <2>2. /\ w \in ViewType /\ w.recents = view.recents /\ w.api = view.api
        /\ w.apiInitial = view.apiInitial /\ w.apiFlag = view.apiFlag
    <3>1. v = [view EXCEPT !.widgets = 1 - view.widgets]
      BY DEF v
    <3>2. /\ v \in ViewType /\ v.recents = view.recents /\ v.api = view.api
          /\ v.apiInitial = view.apiInitial /\ v.apiFlag = view.apiFlag
      BY <1>0, <2>a, <3>1 DEF ViewType
    <3> HIDE DEF v
    <3>. QED BY <3>2 DEF ViewType, HasPending
  <2> HIDE DEF w
  <2>3. Good([State EXCEPT !.view = w]) /\ SameLists(State, [State EXCEPT !.view = w])
    BY <2>2, StateFields, PageGood
  <2>. QED BY <2>1, <2>3
<1>2. CASE ChangeApi
  <2>1. PICK a \in Valid \cup {Invalid} :
            LET v == [view EXCEPT !.api = a]
            IN  Becomes([State EXCEPT !.view = [v EXCEPT !.apiFlag = ApiPending(v)]])
    BY <1>2 DEF ChangeApi
  <2> DEFINE v == [view EXCEPT !.api = a]
             w == [v EXCEPT !.apiFlag = ApiPending(v)]
             t == [State EXCEPT !.view = w]
  <2>2. /\ w \in ViewType /\ w.recents = view.recents
        /\ w.apiInitial = view.apiInitial /\ (w.apiFlag \/ w.api = w.apiInitial)
    BY <1>0 DEF ViewType, ApiPending
  <2>3. Becomes(t)
    BY <2>1
  <2> HIDE DEF w
  <2>4. /\ t \in RecordType /\ t.view = w /\ t.config = config /\ t.path = path
        /\ t.file = file /\ t.written = written /\ t.unsaved = unsaved /\ t.home = home
    BY <1>0, <2>2, StateFields DEF RecordType
  <2> HIDE DEF t
  <2>5. StateOK(t) /\ FileOK(t) /\ ApiOK(t)
    BY <1>0, <2>2, <2>4, StateFields DEF StateOK, FileOK, ApiOK
  <2>6. SameLists(State, t)
    BY <2>2, <2>4, StateFields DEF SameLists
  <2>. QED BY <2>3, <2>5, <2>6 DEF Good
<1>3. CASE Save
  BY <1>3, PromptedGood DEF Save
<1>4. CASE RestoreGlobal
  <2> DEFINE a == [State EXCEPT !.view.initial = DefaultUi, !.view.widgets = DefaultUi,
                                !.view.flag = FALSE]
  <2>1. PICK ok \in Writes : Becomes(WriteFile(SetGlobalConfig(a), ok))
    BY <1>4 DEF RestoreGlobal
  <2>2. /\ a \in RecordType /\ a.view.recents = view.recents /\ a.view.api = view.api
        /\ a.view.apiInitial = view.apiInitial /\ a.view.apiFlag = view.apiFlag
        /\ a.config = config /\ a.path = path /\ a.file = file /\ a.home = home
    BY <1>0, StateFields DEF RecordType, ViewType, DefaultUi, Ui
  <2> HIDE DEF a
  <2>3. StateOK(a) /\ ApiOK(a)
    BY <1>0, <2>2, StateFields DEF StateOK, ApiOK
  <2>4. StateOK(SetGlobalConfig(a)) /\ ApiOK(SetGlobalConfig(a))
    BY <2>3, SetGlobalConfigOK
  <2>5. ok \in BOOLEAN
    BY DEF Writes
  <2> DEFINE t == SetGlobalConfig(a)
             w == WriteFile(t, ok)
  <2>6. /\ t.config.recents = view.recents /\ t.path = path /\ t.home = home
        /\ t.view.recents = view.recents /\ t.file = file
    BY <2>2 DEF SetGlobalConfig, RecordType
  <2> HIDE DEF t
  <2>7. /\ Good(w) /\ w.config = t.config /\ w.path = t.path /\ w.home = t.home /\ w.view = t.view
        /\ w.file.recents \in {t.file.recents, Paths(t.config.recents, t.path)}
    BY <2>4, <2>5, WriteGood DEF t
  <2>8. SameLists(State, w) \/ (StaleRestore /\ (Once(State) => Once(w)))
    <3>1. CASE view.recents = config.recents
      BY <2>6, <2>7, <3>1, StateFields DEF SameLists
    <3>2. CASE view.recents # config.recents
      BY <1>4, <2>6, <2>7, <3>2, StateFields DEF StaleRestore, Once
    <3>. QED BY <3>1, <3>2
  <2>. QED BY <2>1, <2>7, <2>8 DEF t
<1>5. CASE RestoreApi
  <2> DEFINE a == [State EXCEPT !.view.api = DefaultApi, !.view.apiInitial = DefaultApi,
                                !.view.apiFlag = FALSE, !.config.api = DefaultApi]
  <2>1. PICK ok \in Writes : Becomes(WriteFile(a, ok))
    BY <1>5 DEF RestoreApi
  <2>2. /\ a \in RecordType /\ a.view.recents = view.recents
        /\ a.view.api = DefaultApi /\ a.view.apiInitial = DefaultApi
        /\ a.config.api = DefaultApi /\ a.config.recents = config.recents
        /\ a.path = path /\ a.file = file /\ a.home = home
    BY <1>0, StateFields DEF RecordType, ViewType, DefaultApi, Valid
  <2> HIDE DEF a
  <2>3. StateOK(a) /\ ApiOK(a)
    BY <1>0, <2>2, StateFields DEF StateOK, ApiOK
  <2>4. ok \in BOOLEAN
    BY DEF Writes
  <2> DEFINE w == WriteFile(a, ok)
  <2>5. /\ Good(w) /\ w.config = a.config /\ w.path = a.path /\ w.home = a.home /\ w.view = a.view
        /\ w.file.recents \in {a.file.recents, Paths(a.config.recents, a.path)}
    BY <2>3, <2>4, WriteGood
  <2>6. SameLists(State, w)
    BY <2>2, <2>5, StateFields DEF SameLists
  <2>. QED BY <2>1, <2>5, <2>6
<1>. QED BY <1>1, <1>2, <1>3, <1>4, <1>5

\* Turning pages, entering and leaving the settings tab.
LEMMA TabSteps ==
    ASSUME Good(State), SettingsAssumption, TurnPage \/ LeaveSettings \/ EnterSettings
    PROVE  \E t : Good(t) /\ Becomes(t) /\ SameLists(State, t)
<1>0. ASSUME NEW s, Good(s)
      PROVE  /\ \A p \in Pages :
                   Good([s EXCEPT !.view.page = p]) /\ SameLists(s, [s EXCEPT !.view.page = p])
             /\ \A t \in {"start", "settings"} :
                   Good([s EXCEPT !.view.tab = t]) /\ SameLists(s, [s EXCEPT !.view.tab = t])
  <2>1. s \in RecordType
    BY <1>0 DEF Good, StateOK
  <2>2. ASSUME NEW p \in Pages
        PROVE  Good([s EXCEPT !.view.page = p]) /\ SameLists(s, [s EXCEPT !.view.page = p])
    <3> DEFINE v == [s.view EXCEPT !.page = p]
    <3>1. /\ [s EXCEPT !.view.page = p] = [s EXCEPT !.view = v]
          /\ v \in ViewType /\ v.recents = s.view.recents
          /\ v.api = s.view.api /\ v.apiInitial = s.view.apiInitial /\ v.apiFlag = s.view.apiFlag
      BY <2>1 DEF RecordType, ViewType
    <3> HIDE DEF v
    <3>. QED BY <1>0, <3>1, PageGood
  <2>3. ASSUME NEW t \in {"start", "settings"}
        PROVE  Good([s EXCEPT !.view.tab = t]) /\ SameLists(s, [s EXCEPT !.view.tab = t])
    <3> DEFINE v == [s.view EXCEPT !.tab = t]
    <3>1. /\ [s EXCEPT !.view.tab = t] = [s EXCEPT !.view = v]
          /\ v \in ViewType /\ v.recents = s.view.recents
          /\ v.api = s.view.api /\ v.apiInitial = s.view.apiInitial /\ v.apiFlag = s.view.apiFlag
      BY <2>1 DEF RecordType, ViewType
    <3> HIDE DEF v
    <3>. QED BY <1>0, <3>1, PageGood
  <2>. QED BY <2>2, <2>3
<1>1. \A s \in Prompted \cup {State} : Good(s) /\ SameLists(State, s)
  BY PromptedGood DEF SameLists
<1>2. CASE TurnPage
  <2>1. PICK s \in Prompted \cup {State} :
            \/ Becomes(Show([s EXCEPT !.view.page = "global"]))
            \/ Becomes([s EXCEPT !.view.page = "api"])
    BY <1>2, Zenon DEF TurnPage
  <2> DEFINE g == [s EXCEPT !.view.page = "global"]
             a == [s EXCEPT !.view.page = "api"]
  <2>2. Good(g) /\ SameLists(s, g) /\ Good(a) /\ SameLists(s, a)
    BY <1>0, <1>1 DEF Pages
  <2>3. Becomes(Show(g)) \/ Becomes(a)
    BY <2>1
  <2> HIDE DEF g, a
  <2>4. Good(Show(g)) /\ SameLists(g, Show(g))
    BY <2>2, ShowGood
  <2>5. SameLists(State, Show(g)) /\ SameLists(State, a)
    BY <1>1, <2>2, <2>4 DEF SameLists
  <2>. QED BY <2>2, <2>3, <2>4, <2>5
<1>3. CASE LeaveSettings
  <2>1. PICK s \in Prompted : Becomes([s EXCEPT !.view.tab = "start"])
    BY <1>3 DEF LeaveSettings
  <2> DEFINE t == [s EXCEPT !.view.tab = "start"]
  <2>2. Good(t) /\ SameLists(s, t)
    BY <1>0, <1>1
  <2>3. Becomes(t)
    BY <2>1
  <2> HIDE DEF t
  <2>. QED BY <1>1, <2>2, <2>3 DEF SameLists
<1>4. CASE EnterSettings
  <2> DEFINE w == [State EXCEPT !.view.tab = "settings"]
  <2>1. Becomes(Show(w)) \/ Becomes(w)
    BY <1>4 DEF EnterSettings
  <2>2. Good(w) /\ SameLists(State, w)
    BY <1>0
  <2> HIDE DEF w
  <2>3. Good(Show(w)) /\ SameLists(w, Show(w))
    BY <2>2, ShowGood
  <2>. QED BY <2>1, <2>2, <2>3 DEF SameLists
<1>. QED BY <1>2, <1>3, <1>4

\* The steps that open, save, rename and close projects do not touch the pages,
\* but for the question before.
LEMMA ProjectSteps ==
    ASSUME Good(State), SettingsAssumption,
           OpenProject \/ ClickRecent \/ SaveProject \/ RenameProject \/ GoHome
    PROVE  \E t : /\ Good(t) /\ Becomes(t) /\ HomeOK(t)
                  /\ \E s \in Prompted \cup {State} :
                        t.view = s.view /\ t.config.ui = s.config.ui
                  /\ Once(State) => Once(t) \/ RenamedOnto(t)
<1>0. /\ State \in RecordType /\ StateOK(State) /\ ApiOK(State)
      /\ home \in [open : Path \cup {None}, buttons : Seq(Path)]
      /\ config.recents \in Seq(Entry) /\ Elements(config.recents) \subseteq DOMAIN path
      /\ Writes \subseteq BOOLEAN /\ path \in PathMap
  BY StateFields DEF Good, StateOK, RecordType, Writes
<1>1. CASE OpenProject
  <2>1. PICK p \in Path, s \in Prompted, ok \in Writes :
            Becomes([AddRecent(s, p, ok) EXCEPT !.home = Opened(p)])
    BY <1>1 DEF OpenProject
  <2> DEFINE r == AddRecent(s, p, ok)
             t == [r EXCEPT !.home = Opened(p)]
  <2>2. /\ Good(r) /\ r.view = s.view /\ r.config.ui = s.config.ui /\ IsListed(p, r)
        /\ Once(s) => Once(r)
    BY <1>0, PromptedGood, AddRecentGood DEF Good
  <2>a. Once(State) => Once(s)
    BY PromptedGood, SameListsOnce
  <2> HIDE DEF r
  <2>3. /\ Good(t) /\ HomeOK(t) /\ t.view = r.view /\ t.config = r.config
        /\ Once(r) => Once(t)
    BY <2>1, <2>2, OpenedGood
  <2>4. Becomes(t)
    BY <2>1 DEF r
  <2> HIDE DEF t
  <2>. QED BY <2>2, <2>3, <2>4, <2>a
<1>2. CASE ClickRecent
  <2>1. PICK i \in DOMAIN home.buttons, ok \in Writes :
            /\ i \in DOMAIN config.recents
            /\ LET p == path[config.recents[i]]
               IN Becomes([AddRecent(State, p, ok) EXCEPT !.home = Opened(p)])
    BY <1>2 DEF ClickRecent
  <2> DEFINE p == path[config.recents[i]]
  <2>2. Becomes([AddRecent(State, p, ok) EXCEPT !.home = Opened(p)])
    BY <2>1
  <2>3. p \in Path
    <3>1. config.recents[i] \in DOMAIN path
      BY <1>0, <2>1 DEF Elements
    <3>. QED BY <1>0, <3>1 DEF PathMap
  <2> HIDE DEF p
  <2> DEFINE r == AddRecent(State, p, ok)
             t == [r EXCEPT !.home = Opened(p)]
  <2>4. /\ Good(r) /\ r.view = State.view /\ r.config.ui = State.config.ui /\ IsListed(p, r)
        /\ Once(State) => Once(r)
    BY <1>0, <2>3, AddRecentGood
  <2> HIDE DEF r
  <2>5. /\ Good(t) /\ HomeOK(t) /\ t.view = r.view /\ t.config = r.config
        /\ Once(r) => Once(t)
    BY <2>1, <2>3, <2>4, OpenedGood
  <2>6. Becomes(t)
    BY <2>2 DEF r
  <2> HIDE DEF t
  <2>. QED BY <2>4, <2>5, <2>6, StateFields
<1>3. CASE SaveProject
  <2>1. PICK p \in (IF home.open = None THEN Path ELSE {home.open}), ok \in Writes :
            Becomes([SaveProjectFile(State, p, ok) EXCEPT !.home = Opened(p)])
    BY <1>3 DEF SaveProject
  <2>2. p \in Path
    BY <1>0, <2>1
  <2> DEFINE r == SaveProjectFile(State, p, ok)
             t == [r EXCEPT !.home = Opened(p)]
  <2>3. /\ Good(r) /\ r.view = State.view /\ r.config.ui = State.config.ui /\ IsListed(p, r)
        /\ Once(State) => Once(r)
    BY <1>0, <2>2, SaveProjectGood
  <2> HIDE DEF r
  <2>4. /\ Good(t) /\ HomeOK(t) /\ t.view = r.view /\ t.config = r.config
        /\ Once(r) => Once(t)
    BY <2>1, <2>2, <2>3, OpenedGood
  <2>5. Becomes(t)
    BY <2>1 DEF r
  <2> HIDE DEF t
  <2>. QED BY <2>3, <2>4, <2>5
<1>4. CASE RenameProject
  <2> DEFINE list == config.recents
             same == {i \in DOMAIN list : path[list[i]] = home.open}
             first == list[CHOOSE i \in same : \A j \in same : i <= j]
             objects(p) == IF same = {} THEN path ELSE [path EXCEPT ![first] = p]
             a(p) == [State EXCEPT !.path = objects(p)]
  <2>1. PICK p \in Path \ {home.open}, ok \in Writes :
            Becomes([SaveProjectFile(AddRecent(a(p), p, ok), p, ok) EXCEPT !.home = Opened(p)])
    BY <1>4, StateFields DEF RenameProject
  <2>0. home.open # None
    BY <1>4 DEF RenameProject
  <2> HIDE DEF first
  <2>b. /\ \A e \in DOMAIN path : objects(p)[e] \in {path[e], p}
        /\ \A e \in DOMAIN path : objects(p)[e] # path[e] => e = first
    OBVIOUS
  <2>2. objects(p) \in PathMap /\ DOMAIN objects(p) = DOMAIN path
    <3>1. PICK D \in SUBSET Entry : path \in [D -> Path]
      BY <1>0 DEF PathMap
    <3>2. objects(p) \in [D -> Path]
      BY <3>1
    <3>. QED BY <3>1, <3>2 DEF PathMap
  <2> HIDE DEF objects
  <2>3. /\ a(p) \in RecordType /\ a(p).config = config /\ a(p).view = view /\ a(p).file = file
        /\ a(p).path = objects(p)
    BY <1>0, <2>2, StateFields DEF RecordType
  <2> HIDE DEF a
  <2>c. ASSUME Once(State), ~ \E q \in Listed : Stripped[p] = Stripped[q]
        PROVE  Once(a(p))
    <3>0. view.recents \in Seq(Entry) /\ Elements(view.recents) \subseteq DOMAIN path
      BY <1>0, StateFields DEF RecordType, StateOK, ViewType
    <3>1. ASSUME NEW l \in {config.recents, view.recents}
          PROVE  Distinct(Paths(l, objects(p)))
      <4>1. l \in Seq(Entry) /\ \A i \in DOMAIN l : l[i] \in DOMAIN path
        BY <1>0, <3>0 DEF Elements
      <4>2. \A i, j \in DOMAIN l : Stripped[path[l[i]]] = Stripped[path[l[j]]] => i = j
        BY <2>c, StateFields DEF Once, Distinct, Paths
      <4>3. \A i \in DOMAIN l : Stripped[path[l[i]]] # Stripped[p]
        <5>1. ASSUME NEW i \in DOMAIN l PROVE path[l[i]] \in Listed
          <6> DEFINE both == config.recents \o view.recents
          <6>1. \E j \in DOMAIN both : both[j] = l[i]
            <7> DEFINE m == Len(config.recents)
                       n == Len(view.recents)
            <7>1. /\ m \in Nat /\ n \in Nat
                  /\ DOMAIN config.recents = 1 .. m /\ DOMAIN view.recents = 1 .. n
              BY <1>0, <3>0
            <7>a. /\ DOMAIN both = 1 .. m + n
                  /\ \A j \in 1 .. m : both[j] = config.recents[j]
                  /\ \A j \in 1 .. n : both[m + j] = view.recents[j]
              BY <1>0, <3>0, Together, Zenon
            <7> HIDE DEF both, m, n
            <7>2. CASE l = config.recents
              <8>1. i \in 1 .. m /\ i \in 1 .. m + n
                BY <5>1, <7>1, <7>2
              <8>. QED BY <7>a, <7>2, <8>1
            <7>3. CASE l = view.recents
              <8>1. i \in 1 .. n /\ m + i \in 1 .. m + n
                BY <5>1, <7>1, <7>3
              <8>. QED BY <7>a, <7>3, <8>1
            <7>. QED BY <3>1, <7>2, <7>3
          <6> HIDE DEF both
          <6>2. path[l[i]] \in Elements(Paths(both, path))
            BY <6>1 DEF Elements, Paths
          <6>. QED BY <6>2 DEF Listed, both
        <5>. QED BY <2>c, <5>1
      <4>4. ASSUME NEW i \in DOMAIN l, NEW j \in DOMAIN l,
                   Stripped[objects(p)[l[i]]] = Stripped[objects(p)[l[j]]]
            PROVE  i = j
        <5>1. CASE objects(p)[l[i]] = path[l[i]] /\ objects(p)[l[j]] = path[l[j]]
          BY <4>2, <4>4, <5>1
        <5>2. CASE objects(p)[l[i]] # path[l[i]] /\ objects(p)[l[j]] # path[l[j]]
          BY <2>b, <4>1, <4>2, <5>2
        <5>3. CASE objects(p)[l[i]] = path[l[i]] /\ objects(p)[l[j]] # path[l[j]]
          BY <2>b, <4>1, <4>3, <4>4, <5>3
        <5>4. CASE objects(p)[l[i]] # path[l[i]] /\ objects(p)[l[j]] = path[l[j]]
          BY <2>b, <4>1, <4>3, <4>4, <5>4
        <5>. QED BY <5>1, <5>2, <5>3, <5>4
      <4>. QED BY <4>4 DEF Distinct, Paths
    <3>. QED BY <2>3, <2>c, <3>1, StateFields DEF Once
  <2>4. StateOK(a(p)) /\ ApiOK(a(p))
    BY <1>0, <2>2, <2>3, StateFields DEF StateOK, ApiOK
  <2> DEFINE r == AddRecent(a(p), p, ok)
             q == SaveProjectFile(r, p, ok)
             t == [q EXCEPT !.home = Opened(p)]
  <2>5. /\ Good(r) /\ r.view = view /\ r.config.ui = config.ui
        /\ Once(a(p)) => Once(r)
    BY <1>0, <2>3, <2>4, AddRecentGood
  <2> HIDE DEF r
  <2>6. /\ Good(q) /\ q.view = r.view /\ q.config.ui = r.config.ui /\ IsListed(p, q)
        /\ Once(r) => Once(q)
    BY <1>0, <2>5, SaveProjectGood
  <2> HIDE DEF q
  <2>7. /\ Good(t) /\ HomeOK(t) /\ t.view = q.view /\ t.config = q.config
        /\ t.home.open = p /\ (Once(q) => Once(t))
    BY <2>1, <2>6, OpenedGood
  <2>8. Becomes(t)
    BY <2>1 DEF q, r
  <2> HIDE DEF t
  <2>9. Once(State) => Once(t) \/ RenamedOnto(t)
    BY <2>0, <2>1, <2>5, <2>6, <2>7, <2>c DEF RenamedOnto
  <2>. QED BY <2>5, <2>6, <2>7, <2>8, <2>9, StateFields
<1>5. CASE GoHome
  <2>1. PICK ok \in Writes, closed \in BOOLEAN :
            LET s == SaveProjectFile(State, home.open, ok)
                b == Paths(s.config.recents, s.path)
            IN /\ home.open # None
               /\ Becomes([s EXCEPT !.home = IF closed THEN [open |-> None, buttons |-> b] ELSE @])
    BY <1>5 DEF GoHome
  <2> DEFINE s == SaveProjectFile(State, home.open, ok)
             b == Paths(s.config.recents, s.path)
             h == IF closed THEN [open |-> None, buttons |-> b] ELSE s.home
  <2>2. Becomes([s EXCEPT !.home = h])
    BY <2>1
  <2>3. Good(s) /\ s.view = State.view /\ s.config.ui = State.config.ui
        /\ s.home = home /\ IsListed(home.open, s)
        /\ (Once(State) => Once(s))
    BY <1>0, <2>1, StateFields, SaveProjectGood
  <2> HIDE DEF s
  <2>4. b \in Seq(Path)
    BY <2>3, PathsType DEF Good, StateOK, RecordType
  <2>5. h \in [open : Path \cup {None}, buttons : Seq(Path)]
    BY <2>3, <2>4 DEF Good, StateOK, RecordType
  <2>a. /\ closed => h.open = None /\ h.buttons = b
        /\ ~closed => h.open = home.open
    BY <2>3
  <2> HIDE DEF h
  <2> DEFINE t == [s EXCEPT !.home = h]
  <2>6. /\ Good(t) /\ t.view = s.view /\ t.config = s.config /\ t.path = s.path /\ t.home = h
        /\ Once(s) => Once(t)
    BY <2>3, <2>5, HomeGood
  <2>7. Becomes(t)
    BY <2>2
  <2> HIDE DEF t
  <2>8. HomeOK(t)
    BY <2>1, <2>3, <2>6, <2>a DEF HomeOK, IsListed
  <2>. QED BY <2>3, <2>6, <2>7, <2>8
<1>. QED BY <1>1, <1>2, <1>3, <1>4, <1>5

\* Remembering a directory or the size of a splitter, which the file does not get.
LEMMA RememberGood ==
    ASSUME Good(State)
    PROVE  LET t == [State EXCEPT !.config.places = 1 - @, !.unsaved = TRUE]
           IN  Good(t) /\ SameLists(State, t)
<1>0. /\ State \in RecordType /\ StateOK(State) /\ ApiOK(State)
      /\ config \in [ui : Ui, places : Places, recents : Seq(Entry), api : Valid]
  BY StateFields DEF Good, StateOK, RecordType
<1> DEFINE c == [config EXCEPT !.places = 1 - config.places]
           t == [State EXCEPT !.config = c, !.unsaved = TRUE]
<1>2. 1 - config.places \in Places
  BY <1>0 DEF Places
<1>3. [State EXCEPT !.config.places = 1 - @, !.unsaved = TRUE] = t
  BY <1>0, StateFields DEF RecordType
<1>4. /\ c \in [ui : Ui, places : Places, recents : Seq(Entry), api : Valid]
      /\ c.recents = config.recents /\ c.api = config.api
      /\ \A x \in Places : [c EXCEPT !.places = x] = [config EXCEPT !.places = x]
  BY <1>0, <1>2
<1> HIDE DEF c
<1>5. /\ t \in RecordType /\ t.view = view /\ t.config = c /\ t.path = path
      /\ t.file = file /\ t.home = home /\ t.written = written /\ t.unsaved = TRUE
  BY <1>0, <1>4, StateFields DEF RecordType
<1> HIDE DEF t
<1>6. StateOK(t) /\ ApiOK(t)
  BY <1>0, <1>4, <1>5, StateFields DEF StateOK, ApiOK
<1>7. FileOK(t)
  <2> DEFINE l == Paths(config.recents, path)
  <2>1. file.places \in Places
    BY <1>0, StateFields DEF RecordType
  <2>2. Stored(t.config, t.path) = [c EXCEPT !.recents = l]
    BY <1>4, <1>5 DEF Stored
  <2>3. Stored(config, path) = [config EXCEPT !.recents = l]
    BY <1>0 DEF Stored
  <2> HIDE DEF l
  <2>4. [[c EXCEPT !.recents = l] EXCEPT !.places = file.places]
           = [[config EXCEPT !.recents = l] EXCEPT !.places = file.places]
    BY <1>0, <1>4, <2>1
  <2>5. written => file = [[config EXCEPT !.recents = l] EXCEPT !.places = file.places]
    BY <1>0, <2>1, <2>3, StateFields DEF Good, FileOK, RecordType
  <2>. QED BY <1>5, <2>2, <2>4, <2>5 DEF FileOK
<1>8. SameLists(State, t)
  BY <1>4, <1>5, StateFields DEF SameLists
<1>. QED BY <1>3, <1>6, <1>7, <1>8 DEF Good

\* The columns of the disassembly view, what is remembered, and the end of the
\* program.
LEMMA OtherSteps ==
    ASSUME Good(State), SettingsAssumption, ToggleColumn \/ Remember \/ Restart
    PROVE  \E t : /\ Good(t) /\ Becomes(t)
                  /\ SameLists(State, t) \/ (HomeOK(t) /\ (Once(State) => Once(t)))
<1>0. /\ State \in RecordType /\ StateOK(State) /\ ApiOK(State)
      /\ config \in [ui : Ui, places : Places, recents : Seq(Entry), api : Valid]
      /\ Writes \subseteq BOOLEAN
  BY StateFields DEF Good, StateOK, RecordType, Writes
<1>1. CASE ToggleColumn
  <2> DEFINE a == [State EXCEPT !.config.ui = 1 - @]
  <2>1. PICK ok \in Writes : Becomes(WriteFile(a, ok))
    BY <1>1 DEF ToggleColumn
  <2>a. 1 - config.ui \in Ui
    BY <1>0 DEF Ui
  <2>b. a = [State EXCEPT !.config = [config EXCEPT !.ui = 1 - config.ui]]
    BY <1>0, StateFields DEF RecordType
  <2>c. [config EXCEPT !.ui = 1 - config.ui] \in [ui : Ui, places : Places, recents : Seq(Entry), api : Valid]
    BY <1>0, <2>a
  <2>2. /\ a \in RecordType /\ a.view = view /\ a.config.api = config.api
        /\ a.config.recents = config.recents /\ a.path = path /\ a.file = file
        /\ a.home = home
    BY <1>0, <2>b, <2>c, StateFields DEF RecordType
  <2> HIDE DEF a
  <2>3. StateOK(a) /\ ApiOK(a)
    BY <1>0, <2>2, StateFields DEF StateOK, ApiOK
  <2> DEFINE w == WriteFile(a, ok)
  <2>4. /\ Good(w) /\ w.config = a.config /\ w.path = a.path /\ w.home = a.home /\ w.view = a.view
        /\ w.file.recents \in {a.file.recents, Paths(a.config.recents, a.path)}
    BY <1>0, <2>3, WriteGood
  <2>5. SameLists(State, w)
    BY <2>2, <2>4, StateFields DEF SameLists
  <2>. QED BY <2>1, <2>4, <2>5
<1>2. CASE Restart
  <2>1. PICK f \in {file} \cup {WriteFile(s, ok).file : s \in Prompted, ok \in Writes} :
            Becomes(Started(f))
    BY <1>2 DEF Restart
  <2>2. f \in [ui : Ui, places : Places, recents : Seq(Path), api : Valid] /\ Len(f.recents) <= MaxRecent
    <3>1. CASE f = file
      BY <1>0, <3>1, StateFields DEF StateOK, RecordType
    <3>2. CASE f # file
      <4>1. PICK s \in Prompted, ok \in Writes : f = WriteFile(s, ok).file
        BY <2>1, <3>2
      <4>2. StateOK(WriteFile(s, ok))
        BY <1>0, PromptedGood, WriteGood DEF Good
      <4>. QED BY <4>1, <4>2 DEF StateOK, RecordType
    <3>. QED BY <3>1, <3>2
  <2>3. Once(State) => Distinct(f.recents)
    <3>1. CASE f = file
      BY <3>1, StateFields DEF Once
    <3>2. CASE f # file
      <4>1. PICK s \in Prompted, ok \in Writes : f = WriteFile(s, ok).file
        BY <2>1, <3>2
      <4>2. f.recents \in {s.file.recents, Paths(s.config.recents, s.path)}
        BY <1>0, <4>1, PromptedGood, WriteGood DEF Good
      <4>3. Once(State) => Once(s)
        BY PromptedGood, SameListsOnce
      <4>. QED BY <4>2, <4>3 DEF Once
    <3>. QED BY <3>1, <3>2
  <2>. QED BY <2>1, <2>2, <2>3, StartedGood
<1>3. CASE Remember
  BY <1>3, RememberGood DEF Remember
<1>. QED BY <1>1, <1>2, <1>3

-----------------------------------------------------------------------------
(* The invariants.                                                          *)

\* The program starts in a good state.
LEMMA InitGood == ASSUME Init, SettingsAssumption PROVE Good(State)
<1>1. NewFile \in [ui : Ui, places : Places, recents : Seq(Path), api : Valid] /\ Len(NewFile.recents) <= MaxRecent
  BY DEF NewFile, DefaultUi, DefaultPlaces, DefaultApi, Ui, Places, Valid, SettingsAssumption
<1>2. State = Started(NewFile)
  BY DEF Init, State, Started
<1>. QED BY <1>1, <1>2, StartedGood

\* Every step keeps the state good.
LEMMA StepGood == ASSUME Good(State), SettingsAssumption, [Next]_vars PROVE Good(State')
<1>1. CASE Next
  BY <1>1, PageSteps, TabSteps, ProjectSteps, BecomesGood, OtherSteps DEF Next
<1>2. CASE UNCHANGED vars
  <2>1. State' = State
    BY <1>2 DEF vars, State
  <2>. QED BY <2>1
<1>. QED BY <1>1, <1>2

\* The inductive invariant holds throughout.
LEMMA AlwaysGood == Spec => []Good(State)
<1>1. Init => Good(State)
  BY InitGood, SettingsAssumption
<1>2. Good(State) /\ [Next]_vars => Good(State)'
  BY StepGood, SettingsAssumption
<1>. QED BY <1>1, <1>2, PTL DEF Spec

\* The lists, the objects they point to, the file and the views have the right
\* types, and no list outgrows kMaxRecentFiles.
THEOREM SettingsTypeCorrect == Spec => []TypeOK
<1>1. Good(State) => TypeOK
  <2> SUFFICES ASSUME Good(State) PROVE TypeOK
    OBVIOUS
  <2>1. State \in RecordType /\ Len(config.recents) <= MaxRecent
    BY StateFields DEF Good, StateOK
  <2>2. PICK D \in SUBSET Entry : path \in [D -> Path]
    BY <2>1, StateFields DEF RecordType, PathMap
  <2>. QED BY <2>1, <2>2, StateFields DEF RecordType, TypeOK
<1>. QED BY <1>1, AlwaysGood, PTL

\* The configuration file is what the program works with, unless the last
\* attempt to write it failed, and but for the directory and the sizes of
\* splitters that were remembered since.
THEOREM FileIsAlwaysConfig == Spec => []FileIsConfig
<1>1. Good(State) => FileIsConfig
  BY StateFields DEF Good, FileOK, FileIsConfig
<1>. QED BY <1>1, AlwaysGood, PTL

\* The build settings page compares with the settings in force, and is marked
\* when it differs from them.
THEOREM ApiIsAlwaysConfig == Spec => []ApiIsConfig
<1>1. Good(State) => ApiIsConfig
  BY StateFields DEF Good, ApiOK, ApiIsConfig
<1>. QED BY <1>1, AlwaysGood, PTL

-----------------------------------------------------------------------------
(* The question whether to save.                                            *)

\* ComparedWithCurrent of a record.
Compared(s) ==
    /\ s.view.tab = "settings" /\ s.view.page = "global" => s.view.initial = s.config.ui
    /\ s.view.widgets # s.view.initial =>
           s.view.flag /\ s.view.tab = "settings" /\ s.view.initial = s.config.ui

\* The answer that leaves the page with an old copy.
Stale == Asked /\ view.initial # config.ui

\* ComparedWithCurrent looks at nothing that the end of a step changes.
LEMMA BecomesCompared ==
    ASSUME NEW s, StateOK(s), Becomes(s), Compared(s)
    PROVE  ComparedWithCurrent'
<1>1. /\ s.config \in [ui : Ui, places : Places, recents : Seq(Entry), api : Valid] /\ s.view \in ViewType
  BY DEF StateOK, RecordType
<1>2. /\ config'.ui = s.config.ui
      /\ view'.widgets = s.view.widgets /\ view'.initial = s.view.initial
      /\ view'.flag = s.view.flag /\ view'.page = s.view.page /\ view'.tab = s.view.tab
  BY <1>1, Zenon DEF Becomes, ViewType
<1>. QED BY <1>2 DEF Compared, ComparedWithCurrent, OnPage, HasPending

\* Saving the application settings makes all copies of them the same.
LEMMA SaveGlobalCompared ==
    ASSUME NEW s, Good(s), NEW ok \in BOOLEAN, SettingsAssumption
    PROVE  /\ SaveGlobal(s, ok).view.widgets = SaveGlobal(s, ok).view.initial
           /\ SaveGlobal(s, ok).view.initial = SaveGlobal(s, ok).config.ui
<1> DEFINE t == SetGlobalConfig(Pull(s))
           w == WriteFile(t, ok)
<1>1. StateOK(t) /\ ApiOK(t)
  BY PullGood, SetGlobalConfigOK DEF Good
<1>2. t.view.widgets = t.view.initial /\ t.view.initial = t.config.ui
  BY DEF Good, StateOK, RecordType, ViewType, Pull, SetGlobalConfig
<1> HIDE DEF t
<1>3. Good(w) /\ w.view = t.view /\ w.config = t.config
  BY <1>1, WriteGood
<1> HIDE DEF w
<1>4. SaveGlobal(s, ok) = [w EXCEPT !.view.flag = @ /\ ~ok]
  BY DEF SaveGlobal, w, t
<1> DEFINE r == [w EXCEPT !.view.flag = @ /\ ~ok]
<1>5. w \in RecordType
  BY <1>3 DEF Good, StateOK
<1>6. /\ r.view.widgets = w.view.widgets /\ r.view.initial = w.view.initial
      /\ r.config = w.config
  BY <1>5 DEF RecordType, ViewType
<1> HIDE DEF r
<1>7. SaveGlobal(s, ok) = r
  BY <1>4 DEF r
<1>. QED BY <1>2, <1>3, <1>6, <1>7

\* Saving the build settings does not touch the application settings.
LEMMA SaveApiCompared ==
    ASSUME NEW s, Good(s), NEW ok \in BOOLEAN, SettingsAssumption
    PROVE  LET t == SaveApi(s, ok)
           IN  /\ t.config.ui = s.config.ui
               /\ t.view.widgets = s.view.widgets /\ t.view.initial = s.view.initial
               /\ t.view.flag = s.view.flag /\ t.view.page = s.view.page /\ t.view.tab = s.view.tab
<1>1. s \in RecordType
  BY DEF Good, StateOK
<1>. QED BY <1>1 DEF SaveApi, WriteFile, RecordType, ViewType

\* After the question, the widgets are those of the page's copy, but when an
\* old copy was kept.
LEMMA PromptedCompared ==
    ASSUME Good(State), Compared(State), SettingsAssumption, NEW s \in Prompted, ~Stale
    PROVE  Compared(s) /\ s.view.widgets = s.view.initial
<1>0. State \in RecordType /\ view \in ViewType
  BY StateFields DEF Good, StateOK, RecordType
<1>1. CASE ~Asked
  <2>1. s = State /\ ~view.flag
    BY <1>1 DEF Prompted, Asked
  <2>. QED BY <2>1, StateFields DEF Compared
<1>2. CASE Asked /\ s = Revert(State)
  <2>1. view.initial = config.ui
    BY <1>2 DEF Stale
  <2>2. /\ s.view.widgets = config.ui /\ s.view.initial = view.initial /\ s.config = config
    BY <1>0, <1>2, StateFields DEF Revert, RecordType, ViewType
  <2>. QED BY <2>1, <2>2 DEF Compared
<1>3. CASE Asked /\ s # Revert(State)
  <2>1. PICK ok \in BOOLEAN : s = SaveSettings(State, ok)
    BY <1>3 DEF Prompted, Writes
  <2> DEFINE a == [State EXCEPT !.view.flag = HasPending(view)]
             b == IF HasPending(view) THEN SaveGlobal(a, ok) ELSE a
  <2>2. s = IF ApiPending(view) THEN SaveApi(b, ok) ELSE b
    BY <2>1, StateFields DEF SaveSettings
  <2>3. Good(a) /\ a.config = config /\ a.view.widgets = view.widgets /\ a.view.initial = view.initial
        /\ a.view.page = view.page /\ a.view.tab = view.tab
    <3> DEFINE v == [view EXCEPT !.flag = HasPending(view)]
    <3>1. /\ v \in ViewType /\ v.recents = view.recents
          /\ v.api = view.api /\ v.apiInitial = view.apiInitial /\ v.apiFlag = view.apiFlag
          /\ v.widgets = view.widgets /\ v.initial = view.initial
          /\ v.page = view.page /\ v.tab = view.tab
      BY <1>0 DEF ViewType, HasPending
    <3>2. a = [State EXCEPT !.view = v]
      BY <1>0, StateFields DEF RecordType, ViewType
    <3> HIDE DEF v, a
    <3>3. Good(a)
      BY <3>1, <3>2, StateFields, PageGood
    <3>4. a.view = v /\ a.config = config
      BY <1>0, <3>2, StateFields DEF RecordType
    <3>. QED BY <3>1, <3>3, <3>4
  <2> HIDE DEF a
  <2>4. Good(b) /\ Compared(b) /\ b.view.widgets = b.view.initial
    <3>1. CASE HasPending(view)
      BY <2>3, <3>1, SaveGlobalGood, SaveGlobalCompared DEF Compared
    <3>2. CASE ~HasPending(view)
      BY <2>3, <3>2, StateFields DEF Compared, HasPending
    <3>. QED BY <3>1, <3>2
  <2> HIDE DEF b
  <2>. QED BY <2>2, <2>4, SaveApiCompared DEF Compared
<1>. QED BY <1>1, <1>2, <1>3

\* What is shown of the application page is renewed, or was current.
LEMMA ShowCompared ==
    ASSUME NEW s, Good(s),
           s.view.widgets # s.view.initial =>
              s.view.flag /\ s.view.tab = "settings" /\ s.view.initial = s.config.ui
    PROVE  Compared(Show(s))
<1>1. s \in RecordType
  BY DEF Good, StateOK
<1>2. CASE HasPending(s.view)
  <2>1. Show(s) = s /\ s.view.widgets # s.view.initial
    BY <1>2 DEF Show, HasPending
  <2>. QED BY <2>1 DEF Compared
<1>3. CASE ~HasPending(s.view)
  <2>1. /\ Show(s).view.widgets = s.config.ui /\ Show(s).view.initial = s.config.ui
        /\ Show(s).config = s.config
    BY <1>1, <1>3 DEF Show, Pull, RecordType, ViewType
  <2>. QED BY <2>1 DEF Compared
<1>. QED BY <1>2, <1>3

\* The steps of the settings tab.
LEMMA TabCompared ==
    ASSUME Good(State), ComparedWithCurrent, SettingsAssumption, ~Stale,
           \/ ChangeColumns \/ ChangeApi \/ Save \/ RestoreGlobal \/ RestoreApi
           \/ TurnPage \/ LeaveSettings \/ EnterSettings
    PROVE  ComparedWithCurrent'
<1>0. /\ State \in RecordType /\ StateOK(State) /\ ApiOK(State) /\ Compared(State)
      /\ view \in ViewType /\ config \in [ui : Ui, places : Places, recents : Seq(Entry), api : Valid]
      /\ Writes \subseteq BOOLEAN
  BY StateFields DEF Good, StateOK, RecordType, Compared, ComparedWithCurrent, OnPage, HasPending, Writes
<1>a. \A s \in Prompted : Good(s) /\ Compared(s) /\ s.view.widgets = s.view.initial
  BY <1>0, PromptedGood, PromptedCompared
<1>b. ASSUME NEW x \in RecordType, NEW y \in RecordType, Becomes(x),
             x.view.widgets = y.view.widgets, x.view.initial = y.view.initial,
             x.view.flag = y.view.flag, x.view.tab = y.view.tab, x.view.page = y.view.page,
             x.config.ui = y.config.ui, Compared(y)
      PROVE  ComparedWithCurrent'
  <2>1. /\ x.config \in [ui : Ui, places : Places, recents : Seq(Entry), api : Valid] /\ x.view \in ViewType
    BY <1>b DEF RecordType
  <2>2. /\ config'.ui = x.config.ui
        /\ view'.widgets = x.view.widgets /\ view'.initial = x.view.initial
        /\ view'.flag = x.view.flag /\ view'.page = x.view.page /\ view'.tab = x.view.tab
    BY <1>b, <2>1, Zenon DEF Becomes, ViewType
  <2>. QED BY <1>b, <2>2 DEF Compared, ComparedWithCurrent, OnPage, HasPending
<1>1. CASE ChangeColumns
  <2>1. view.tab = "settings" /\ view.page = "global" /\ view.initial = config.ui
    BY <1>1 DEF ChangeColumns, OnPage, ComparedWithCurrent
  <2> DEFINE v == [view EXCEPT !.widgets = 1 - view.widgets]
             w == [v EXCEPT !.flag = HasPending(v)]
             t == [State EXCEPT !.view = w]
  <2>2. Becomes(t)
    BY <1>1 DEF ChangeColumns
  <2>3. 1 - view.widgets \in Ui
    BY <1>0 DEF ViewType, Ui
  <2>4. /\ v \in ViewType /\ v.recents = view.recents /\ v.initial = view.initial
        /\ v.tab = view.tab
    BY <1>0, <2>3 DEF ViewType
  <2> HIDE DEF v
  <2>5. /\ w \in ViewType /\ w.recents = view.recents /\ w.initial = view.initial
        /\ w.tab = view.tab /\ w.flag = (w.widgets # w.initial)
    BY <2>4 DEF ViewType, HasPending
  <2> HIDE DEF w
  <2>6. t \in RecordType /\ t.view = w /\ t.config = config
    BY <1>0, <2>5, StateFields DEF RecordType
  <2> HIDE DEF t
  <2>7. Compared(t)
    BY <2>1, <2>5, <2>6 DEF Compared
  <2>. QED BY <1>b, <2>2, <2>6, <2>7
<1>2. CASE ChangeApi
  <2>1. PICK a \in Valid \cup {Invalid} :
            LET v == [view EXCEPT !.api = a]
            IN  Becomes([State EXCEPT !.view = [v EXCEPT !.apiFlag = ApiPending(v)]])
    BY <1>2 DEF ChangeApi
  <2> DEFINE v == [view EXCEPT !.api = a]
             w == [v EXCEPT !.apiFlag = ApiPending(v)]
             t == [State EXCEPT !.view = w]
  <2>2. /\ w \in ViewType /\ w.widgets = view.widgets /\ w.initial = view.initial
        /\ w.flag = view.flag /\ w.page = view.page /\ w.tab = view.tab
    BY <1>0 DEF ViewType, ApiPending
  <2>3. Becomes(t)
    BY <2>1
  <2> HIDE DEF w
  <2>4. t \in RecordType /\ t.view = w /\ t.config = config
    BY <1>0, <2>2, StateFields DEF RecordType
  <2> HIDE DEF t
  <2>. QED BY <1>0, <1>b, <2>2, <2>3, <2>4, StateFields
<1>3. CASE Save
  BY <1>3, <1>a, BecomesCompared DEF Save, Good
<1>4. CASE RestoreGlobal
  <2> DEFINE a == [State EXCEPT !.view.initial = DefaultUi, !.view.widgets = DefaultUi,
                                !.view.flag = FALSE]
  <2>1. PICK ok \in Writes : Becomes(WriteFile(SetGlobalConfig(a), ok))
    BY <1>4 DEF RestoreGlobal
  <2>2. /\ a \in RecordType /\ a.view.recents = view.recents /\ a.view.api = view.api
        /\ a.view.apiInitial = view.apiInitial /\ a.view.apiFlag = view.apiFlag
        /\ a.view.widgets = DefaultUi /\ a.view.initial = DefaultUi
        /\ a.config = config /\ a.path = path /\ a.file = file
    BY <1>0, StateFields DEF RecordType, ViewType, DefaultUi, Ui
  <2> HIDE DEF a
  <2>3. StateOK(a) /\ ApiOK(a)
    BY <1>0, <2>2, StateFields DEF StateOK, ApiOK
  <2>4. StateOK(SetGlobalConfig(a)) /\ ApiOK(SetGlobalConfig(a))
    BY <2>3, SetGlobalConfigOK
  <2>5. SetGlobalConfig(a).view = a.view /\ SetGlobalConfig(a).config.ui = a.view.initial
    BY <2>2 DEF SetGlobalConfig, RecordType
  <2>6. /\ Good(WriteFile(SetGlobalConfig(a), ok))
        /\ WriteFile(SetGlobalConfig(a), ok).view = a.view
        /\ WriteFile(SetGlobalConfig(a), ok).config.ui = a.view.initial
    BY <1>0, <2>1, <2>4, <2>5, WriteGood
  <2>7. Compared(WriteFile(SetGlobalConfig(a), ok))
    BY <2>2, <2>6 DEF Compared
  <2>. QED BY <2>1, <2>6, <2>7, BecomesCompared DEF Good
<1>5. CASE RestoreApi
  <2> DEFINE a == [State EXCEPT !.view.api = DefaultApi, !.view.apiInitial = DefaultApi,
                                !.view.apiFlag = FALSE, !.config.api = DefaultApi]
  <2>1. PICK ok \in Writes : Becomes(WriteFile(a, ok))
    BY <1>5 DEF RestoreApi
  <2>2. /\ a \in RecordType /\ a.view.recents = view.recents
        /\ a.view.api = DefaultApi /\ a.view.apiInitial = DefaultApi
        /\ a.config.api = DefaultApi /\ a.config.recents = config.recents
        /\ a.path = path /\ a.file = file
        /\ a.view.widgets = view.widgets /\ a.view.initial = view.initial
        /\ a.view.flag = view.flag /\ a.view.page = view.page /\ a.view.tab = view.tab
        /\ a.config.ui = config.ui
    BY <1>0, StateFields DEF RecordType, ViewType, DefaultApi, Valid
  <2> HIDE DEF a
  <2>3. StateOK(a) /\ ApiOK(a) /\ Compared(a)
    BY <1>0, <2>2, StateFields DEF StateOK, ApiOK, Compared
  <2>4. /\ Good(WriteFile(a, ok)) /\ WriteFile(a, ok).view = a.view
        /\ WriteFile(a, ok).config = a.config
    BY <1>0, <2>1, <2>3, WriteGood
  <2>5. Compared(WriteFile(a, ok))
    BY <2>3, <2>4 DEF Compared
  <2>. QED BY <2>1, <2>4, <2>5, BecomesCompared DEF Good
<1>6. CASE TurnPage
  <2>0. view.tab = "settings"
    BY <1>6 DEF TurnPage
  <2>1. PICK s \in Prompted \cup {State} :
            \/ Becomes(Show([s EXCEPT !.view.page = "global"]))
            \/ Becomes([s EXCEPT !.view.page = "api"])
    BY <1>6, Zenon DEF TurnPage
  <2>2. Good(s) /\ Compared(s)
    BY <1>0, <1>a, <2>1
  <2> DEFINE g == [s EXCEPT !.view.page = "global"]
             a == [s EXCEPT !.view.page = "api"]
  <2>3. s \in RecordType /\ s.view \in ViewType
    BY <2>2 DEF Good, StateOK, RecordType
  <2>4. /\ g.view.widgets = s.view.widgets /\ g.view.initial = s.view.initial
        /\ g.view.flag = s.view.flag /\ g.view.tab = s.view.tab /\ g.config = s.config
        /\ a.view.widgets = s.view.widgets /\ a.view.initial = s.view.initial
        /\ a.view.flag = s.view.flag /\ a.view.tab = s.view.tab /\ a.config = s.config
        /\ a.view.page = "api"
    BY <2>3 DEF RecordType, ViewType
  <2>5. Good(g) /\ Good(a)
    <3> DEFINE v(p) == [s.view EXCEPT !.page = p]
    <3>1. ASSUME NEW p \in Pages
          PROVE  /\ [s EXCEPT !.view.page = p] = [s EXCEPT !.view = v(p)]
                 /\ v(p) \in ViewType /\ v(p).recents = s.view.recents /\ v(p).api = s.view.api
                 /\ v(p).apiInitial = s.view.apiInitial /\ v(p).apiFlag = s.view.apiFlag
      BY <2>3 DEF RecordType, ViewType
    <3> HIDE DEF v
    <3>2. ASSUME NEW p \in Pages PROVE Good([s EXCEPT !.view.page = p])
      BY <2>2, <3>1, PageGood
    <3>. QED BY <3>2 DEF Pages
  <2> HIDE DEF g, a
  <2>6. CASE Becomes(Show(g))
    <3>1. Compared(Show(g))
      BY <2>2, <2>4, <2>5, ShowCompared DEF Compared
    <3>. QED BY <2>5, <2>6, <3>1, ShowGood, BecomesCompared DEF Good
  <2>7. CASE Becomes(a)
    <3>1. Compared(a)
      BY <2>2, <2>4 DEF Compared
    <3>. QED BY <2>5, <2>7, <3>1, BecomesCompared DEF Good
  <2>. QED BY <2>1, <2>6, <2>7 DEF g, a
<1>7. CASE LeaveSettings
  <2>1. PICK s \in Prompted : Becomes([s EXCEPT !.view.tab = "start"])
    BY <1>7 DEF LeaveSettings
  <2> DEFINE t == [s EXCEPT !.view.tab = "start"]
  <2>2. s \in RecordType /\ s.view.widgets = s.view.initial
    BY <1>a DEF Good, StateOK
  <2>3. /\ t \in RecordType /\ t.view.tab = "start"
        /\ t.view.widgets = s.view.widgets /\ t.view.initial = s.view.initial
    BY <2>2 DEF RecordType, ViewType
  <2> HIDE DEF t
  <2>4. Compared(t)
    BY <2>2, <2>3 DEF Compared
  <2>. QED BY <1>b, <2>1, <2>3, <2>4 DEF t
<1>8. CASE EnterSettings
  <2> DEFINE w == [State EXCEPT !.view.tab = "settings"]
  <2>1. view.tab = "start" /\ (IF view.page = "global" THEN Becomes(Show(w)) ELSE Becomes(w))
    BY <1>8 DEF EnterSettings
  <2>2. /\ w.view.widgets = view.widgets /\ w.view.initial = view.initial
        /\ w.view.page = view.page /\ w.config = config
        /\ w \in RecordType
    BY <1>0, StateFields DEF RecordType, ViewType
  <2>3. view.widgets = view.initial
    BY <2>1 DEF ComparedWithCurrent, HasPending
  <2>4. Good(w)
    <3> DEFINE v == [view EXCEPT !.tab = "settings"]
    <3>1. /\ w = [State EXCEPT !.view = v]
          /\ v \in ViewType /\ v.recents = view.recents
          /\ v.api = view.api /\ v.apiInitial = view.apiInitial /\ v.apiFlag = view.apiFlag
      BY <1>0, StateFields DEF RecordType, ViewType
    <3> HIDE DEF v, w
    <3>. QED BY <3>1, StateFields, PageGood
  <2> HIDE DEF w
  <2>5. CASE view.page = "global"
    <3>1. Compared(Show(w))
      BY <2>2, <2>3, <2>4, ShowCompared
    <3>. QED BY <2>1, <2>4, <2>5, <3>1, ShowGood, BecomesCompared DEF Good
  <2>6. CASE view.page # "global"
    <3>1. Compared(w)
      BY <2>2, <2>3, <2>6 DEF Compared
    <3>. QED BY <2>1, <2>4, <2>6, <3>1, BecomesCompared DEF Good
  <2>. QED BY <2>5, <2>6
<1>. QED BY <1>1, <1>2, <1>3, <1>4, <1>5, <1>6, <1>7, <1>8

\* The steps of projects, of the disassembly view, and the restart.
LEMMA OtherCompared ==
    ASSUME Good(State), ComparedWithCurrent, SettingsAssumption, ~Stale,
           \/ OpenProject \/ ClickRecent \/ SaveProject \/ RenameProject \/ GoHome
           \/ ToggleColumn \/ Remember \/ Restart
    PROVE  ComparedWithCurrent'
<1>0. /\ State \in RecordType /\ StateOK(State) /\ ApiOK(State) /\ FileOK(State)
      /\ Compared(State) /\ Writes \subseteq BOOLEAN
      /\ config \in [ui : Ui, places : Places, recents : Seq(Entry), api : Valid]
  BY StateFields DEF Good, StateOK, RecordType, Compared, ComparedWithCurrent, OnPage, HasPending, Writes
<1>1. CASE OpenProject \/ ClickRecent \/ SaveProject \/ RenameProject \/ GoHome
  <2>1. PICK t : /\ Good(t) /\ Becomes(t)
                 /\ \E s \in Prompted \cup {State} :
                       t.view = s.view /\ t.config.ui = s.config.ui
    BY <1>1, ProjectSteps
  <2>2. \A s \in Prompted \cup {State} : Compared(s)
    BY <1>0, PromptedCompared
  <2>3. Compared(t)
    BY <2>1, <2>2 DEF Compared
  <2>. QED BY <2>1, <2>3, BecomesCompared DEF Good
<1>2. CASE ToggleColumn
  <2> DEFINE c == [config EXCEPT !.ui = 1 - config.ui]
             a == [State EXCEPT !.config = c]
  <2>1. PICK ok \in Writes : Becomes(WriteFile([State EXCEPT !.config.ui = 1 - @], ok))
    BY <1>2 DEF ToggleColumn
  <2>2. 1 - config.ui \in Ui
    BY <1>0 DEF Ui
  <2>3. c \in [ui : Ui, places : Places, recents : Seq(Entry), api : Valid] /\ c.recents = config.recents /\ c.api = config.api
    BY <1>0, <2>2
  <2>4. [State EXCEPT !.config.ui = 1 - @] = a
    BY <1>0, StateFields DEF RecordType
  <2> HIDE DEF c
  <2>5. a \in RecordType /\ a.view = view /\ a.config = c /\ a.path = path /\ a.file = file
    BY <1>0, <2>3, StateFields DEF RecordType
  <2> HIDE DEF a
  <2>6. StateOK(a) /\ ApiOK(a)
    BY <1>0, <2>3, <2>5, StateFields DEF StateOK, ApiOK
  <2>7. view.tab = "start" /\ view.widgets = view.initial
    BY <1>2 DEF ToggleColumn, ComparedWithCurrent, HasPending
  <2>8. Good(WriteFile(a, ok)) /\ WriteFile(a, ok).view = view
    BY <1>0, <2>5, <2>6, WriteGood
  <2>9. Compared(WriteFile(a, ok))
    BY <2>7, <2>8 DEF Compared
  <2>. QED BY <2>1, <2>4, <2>8, <2>9, BecomesCompared DEF Good
<1>3. CASE Restart
  <2>1. PICK f \in {file} \cup {WriteFile(s, ok).file : s \in Prompted, ok \in Writes} :
            Becomes(Started(f))
    BY <1>3 DEF Restart
  <2>2. f \in [ui : Ui, places : Places, recents : Seq(Path), api : Valid] /\ Len(f.recents) <= MaxRecent
    <3>1. CASE f = file
      BY <1>0, <3>1, StateFields DEF StateOK, RecordType
    <3>2. CASE f # file
      <4>1. PICK s \in Prompted, ok \in Writes : f = WriteFile(s, ok).file
        BY <2>1, <3>2
      <4>2. StateOK(WriteFile(s, ok))
        BY <1>0, PromptedGood, WriteGood DEF Good
      <4>. QED BY <4>1, <4>2 DEF StateOK, RecordType
    <3>. QED BY <3>1, <3>2
  <2>3. Good(Started(f))
    BY <2>2, StartedGood
  <2>4. Compared(Started(f))
    BY <2>2 DEF Started, Compared
  <2>. QED BY <2>1, <2>3, <2>4, BecomesCompared DEF Good
<1>4. CASE Remember
  <2> DEFINE t == [State EXCEPT !.config.places = 1 - @, !.unsaved = TRUE]
  <2>1. Becomes(t)
    BY <1>4 DEF Remember
  <2>2. Good(t)
    BY <1>4, RememberGood
  <2>3. t.view = view /\ t.config.ui = config.ui
    BY <1>0, StateFields DEF RecordType
  <2> HIDE DEF t
  <2>4. Compared(t)
    BY <1>0, <2>3, StateFields DEF Compared
  <2>. QED BY <2>1, <2>2, <2>4, BecomesCompared DEF Good
<1>. QED BY <1>1, <1>2, <1>3, <1>4

\* No step, but the answer "No" while the copy is an old one, makes the page
\* compare its widgets with settings that are not in force, or lose the mark
\* that makes the question be asked.
THEOREM QuestionsAreCurrent == Spec => NoStaleQuestion
<1>1. ASSUME Good(State), [Next]_vars
      PROVE  [ComparedWithCurrent => ComparedWithCurrent' \/ (Asked /\ view.initial # config.ui)]_vars
  <2>1. CASE UNCHANGED vars
    BY <2>1
  <2>2. CASE Next /\ ComparedWithCurrent /\ ~Stale
    <3>1. ComparedWithCurrent'
      BY <1>1, <2>2, SettingsAssumption, TabCompared, OtherCompared DEF Next
    <3>. QED BY <3>1
  <2>3. CASE Next /\ ~(ComparedWithCurrent /\ ~Stale)
    BY <2>3 DEF Stale
  <2>. QED BY <1>1, <2>1, <2>2, <2>3
<1>. QED BY <1>1, AlwaysGood, PTL DEF Spec, NoStaleQuestion

-----------------------------------------------------------------------------
(* The start tab and the project that is open.                              *)

\* A step leaves what has to do with the list as it was or makes it right, but
\* when an old list is restored.
LEMMA ListSteps ==
    ASSUME Good(State), SettingsAssumption, Next, ~StaleRestore
    PROVE  /\ ButtonsAreRecents => ButtonsAreRecents'
           /\ OpenIsListed => OpenIsListed'
<1>1. PICK t : Good(t) /\ Becomes(t) /\ (SameLists(State, t) \/ HomeOK(t))
  BY PageSteps, TabSteps, ProjectSteps, OtherSteps DEF Next
<1>2. home' = t.home /\ Paths(config'.recents, path') = Paths(t.config.recents, t.path)
  <2>1. home' = t.home
    BY <1>1 DEF Becomes
  <2>. QED BY <1>1, <2>1, BecomesPaths DEF Good
<1>3. CASE SameLists(State, t)
  <2>1. home' = home /\ Paths(config'.recents, path') = Paths(config.recents, path)
    BY <1>2, <1>3, StateFields DEF SameLists
  <2>. QED BY <2>1 DEF ButtonsAreRecents, OpenIsListed
<1>4. CASE HomeOK(t)
  BY <1>2, <1>4 DEF HomeOK, IsListed, ButtonsAreRecents, OpenIsListed
<1>. QED BY <1>1, <1>3, <1>4

\* A button of the start tab opens the project that it names: no step but the
\* restore of an old list parts the buttons from the list.
THEOREM ButtonsFollowTheList == Spec => ButtonsStay
<1>1. ASSUME Good(State), [Next]_vars
      PROVE  [ButtonsAreRecents => ButtonsAreRecents' \/ StaleRestore]_vars
  BY <1>1, SettingsAssumption, ListSteps
<1>. QED BY <1>1, AlwaysGood, PTL DEF Spec, ButtonsStay

\* The project that is open is not lost from the list of recent projects by
\* any step but the restore of an old list.
THEOREM OpenProjectIsRecent == Spec => OpenStaysListed
<1>1. ASSUME Good(State), [Next]_vars
      PROVE  [OpenIsListed => OpenIsListed' \/ StaleRestore]_vars
  BY <1>1, SettingsAssumption, ListSteps
<1>. QED BY <1>1, AlwaysGood, PTL DEF Spec, OpenStaysListed
-----------------------------------------------------------------------------
(* Every project once.                                                      *)

\* A step that puts a project in a list twice is a rename to a listed path.
LEMMA OnceSteps ==
    ASSUME Good(State), SettingsAssumption, Next, EachOnce
    PROVE  EachOnce' \/ OntoListed
<1>1. Once(State)
  BY StateFields DEF Once, EachOnce
<1>2. PICK t : Good(t) /\ Becomes(t) /\ (Once(t) \/ RenamedOnto(t))
  <2>1. CASE ChangeColumns \/ ChangeApi \/ Save \/ RestoreGlobal \/ RestoreApi
    BY <1>1, <2>1, PageSteps, SameListsOnce
  <2>2. CASE TurnPage \/ LeaveSettings \/ EnterSettings
    BY <1>1, <2>2, TabSteps, SameListsOnce
  <2>3. CASE OpenProject \/ ClickRecent \/ SaveProject \/ RenameProject \/ GoHome
    BY <1>1, <2>3, ProjectSteps
  <2>4. CASE ToggleColumn \/ Remember \/ Restart
    BY <1>1, <2>4, OtherSteps, SameListsOnce
  <2>. QED BY <2>1, <2>2, <2>3, <2>4 DEF Next
<1>3. /\ home' = t.home /\ file' = t.file
      /\ Paths(config'.recents, path') = Paths(t.config.recents, t.path)
      /\ Paths(view'.recents, path') = Paths(t.view.recents, t.path)
  <2>1. home' = t.home /\ file' = t.file
    BY <1>2 DEF Becomes
  <2>. QED BY <1>2, <2>1, BecomesPaths DEF Good
<1>4. CASE Once(t)
  <2>1. EachOnce'
    BY <1>3, <1>4 DEF Once, EachOnce
  <2>. QED BY <2>1
<1>5. CASE RenamedOnto(t)
  BY <1>3, <1>5 DEF RenamedOnto, OntoListed
<1>. QED BY <1>2, <1>4, <1>5

\* No step puts a project in the list, the page's copy or the file twice, but a
\* rename to the path of a project that is listed.
THEOREM ProjectsListedOnce == Spec => ListedOnce
<1>1. ASSUME Good(State), [Next]_vars
      PROVE  [EachOnce => EachOnce' \/ OntoListed]_vars
  BY <1>1, SettingsAssumption, OnceSteps
<1>. QED BY <1>1, AlwaysGood, PTL DEF Spec, ListedOnce
=============================================================================
