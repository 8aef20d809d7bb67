------------------------ MODULE OpenclOffline_proofs ------------------------
(***************************************************************************)
(* The invariants of OpenclOffline hold for every set of targets, kernels  *)
(* and options, and for command lines of every length.                     *)
(***************************************************************************)
EXTENDS OpenclOffline, TLAPS

-----------------------------------------------------------------------------
(* Type correctness.                                                        *)

\* What Put returns: the new values, and the old ones of the other keys.
LEMMA PutKeys ==
    ASSUME NEW m, NEW new
    PROVE  /\ DOMAIN Put(m, new) = DOMAIN m \cup DOMAIN new
           /\ \A key \in DOMAIN new : Put(m, new)[key] = new[key]
           /\ \A key \in DOMAIN m \ DOMAIN new : Put(m, new)[key] = m[key]
BY DEF Put

\* A map of entries.
EntryMap(m) == DOMAIN m \subseteq Key /\ \A key \in DOMAIN m : m[key] \in Entry

\* Put keeps a map of entries one.
LEMMA PutEntries ==
    ASSUME NEW m, NEW new, EntryMap(m), EntryMap(new)
    PROVE  EntryMap(Put(m, new))
<1>0. /\ DOMAIN Put(m, new) = DOMAIN m \cup DOMAIN new
      /\ \A key \in DOMAIN new : Put(m, new)[key] = new[key]
      /\ \A key \in DOMAIN m \ DOMAIN new : Put(m, new)[key] = m[key]
  BY PutKeys
<1>1. DOMAIN Put(m, new) \subseteq Key
  BY <1>0 DEF EntryMap
<1>2. ASSUME NEW key \in DOMAIN Put(m, new) PROVE Put(m, new)[key] \in Entry
  <2>1. CASE key \in DOMAIN new
    <3>1. Put(m, new)[key] = new[key]
      BY <2>1, <1>0
    <3>2. new[key] \in Entry
      BY <2>1, Zenon DEF EntryMap
    <3>. QED BY <3>1, <3>2
  <2>2. CASE key \notin DOMAIN new
    <3>1. key \in DOMAIN m /\ Put(m, new)[key] = m[key]
      BY <2>2, <1>0
    <3>2. m[key] \in Entry
      BY <3>1, Zenon DEF EntryMap
    <3>. QED BY <3>1, <3>2
  <2>. QED BY <2>1, <2>2
<1>. QED BY <1>1, <1>2 DEF EntryMap

DiskMap == [File \cup {SessionFile} -> {"none", "old", "new"}]

\* Writing and deleting files keeps the map of the files one.
LEMMA DiskKeeps ==
    ASSUME NEW d \in DiskMap, NEW S
    PROVE  /\ Written(d, S) \in DiskMap
           /\ Deleted(d, S) \in DiskMap
           /\ \A f \in File \cup {SessionFile} :
                 /\ Written(d, S)[f] = IF f \in S THEN "new" ELSE d[f]
                 /\ Deleted(d, S)[f] = IF f \in S THEN "none" ELSE d[f]
BY DEF DiskMap, Written, Deleted

\* The entries that are made anew are entries.
LEMMA NewEntries ==
    /\ NewEntry \in Entry /\ ErrorEntry \in Entry
    /\ \A kind \in {"bin", "tmpbin"} : [NewEntry EXCEPT !.bin = kind] \in Entry
BY DEF NewEntry, ErrorEntry, Entry

\* The initial states have the right types.
LEMMA InitTypeOK == ASSUME OfflineAssumption, Init PROVE TypeOK
<1>1. cmd \in [names : Seq(Name), opts : Commands, kernel : Kernel \cup {AllKernels, Missing}]
  <2>1. PICK n \in 0 .. MaxNames : cmd.names \in [1 .. n -> Name]
    BY DEF Init, OfflineAssumption
  <2>2. n \in Nat
    BY DEF OfflineAssumption
  <2>3. cmd.names \in Seq(Name)
    BY <2>1, <2>2
  <2>. QED BY <2>3 DEF Init
<1>2. disk \in DiskMap
  BY DEF Init, DiskMap
<1>3. EntryMap(meta)
  BY DEF Init, NoEntries, EntryMap
<1>. QED BY <1>1, <1>2, <1>3 DEF Init, TypeOK, Places, DiskMap, EntryMap

\* The parts of TypeOK that the steps below disturb.
LEMMA TypeParts ==
    /\ TypeOK => EntryMap(meta) /\ disk \in DiskMap
    /\ TypeOK' => EntryMap(meta)' /\ disk' \in DiskMap
BY DEF TypeOK, EntryMap, DiskMap, File, Key, SessionFile

\* What each round of CompileOpenCL does: the target is done with, the entries
\* that are made are its own, and only its files change.
RoundStep(t) ==
    /\ pc = "compile" /\ t \in todo
    /\ todo' = todo \ {t}
    /\ UNCHANGED <<cmd, pc, list>>
    /\ disk' \in DiskMap
    /\ \A f \in File \cup {SessionFile} :
          disk'[f] # disk[f] => \E kind \in Kind, k \in Kernel \cup {NoKernel} : f = <<kind, <<t, k>>>>
    /\ EntryMap(meta)'
    /\ DOMAIN meta \subseteq DOMAIN meta'
    /\ \A key \in DOMAIN meta : key[1] # t => meta'[key] = meta[key]
    /\ \A key \in DOMAIN meta' \ DOMAIN meta : key[1] = t
    /\ unnamed' \subseteq unnamed \cup {t} /\ unnamed \subseteq unnamed'
    /\ compiled' \subseteq compiled \cup {t} /\ compiled \subseteq compiled'
    /\ good' \subseteq good \cup ({t} \cap compiled') /\ good \subseteq good'
    /\ broken' \subseteq broken \cup File /\ broken \subseteq broken'
    /\ empty' \subseteq empty \cup File /\ streams' \in BOOLEAN
    /\ status' \in BOOLEAN /\ (status' => status)

\* Files of one target.
LEMMA OwnFiles ==
    ASSUME NEW t \in Target, NEW kind \in Kind
    PROVE  /\ Binary(kind, t) \in File
           /\ \A k \in Kernel : <<kind, <<t, k>>>> \in File
           /\ <<t, NoKernel>> \in Key
           /\ \A k \in Kernel : <<t, k>> \in Key
BY DEF Binary, File, Key

\* The disk after files of one target were written or deleted.
LEMMA RoundDisk ==
    ASSUME TypeOK, NEW t \in Target, NEW S,
           \A f \in S : \E kind \in Kind, k \in Kernel \cup {NoKernel} : f = <<kind, <<t, k>>>>
    PROVE  /\ Written(disk, S) \in DiskMap /\ Deleted(disk, S) \in DiskMap
           /\ \A f \in File \cup {SessionFile} :
                 f \notin S => Written(disk, S)[f] = disk[f] /\ Deleted(disk, S)[f] = disk[f]
<1>1. disk \in DiskMap
  BY TypeParts
<1>. QED BY <1>1, DiskKeeps

\* The entries after some were made for one target.
LEMMA RoundMeta ==
    ASSUME TypeOK, NEW t \in Target, NEW new, EntryMap(new), \A key \in DOMAIN new : key[1] = t
    PROVE  /\ EntryMap(Put(meta, new))
           /\ DOMAIN meta \subseteq DOMAIN Put(meta, new)
           /\ \A key \in DOMAIN meta : key[1] # t => Put(meta, new)[key] = meta[key]
           /\ \A key \in DOMAIN Put(meta, new) \ DOMAIN meta : key[1] = t
<1>1. EntryMap(meta)
  BY TypeParts
<1>2. EntryMap(Put(meta, new))
  BY <1>1, PutEntries
<1>3. /\ DOMAIN Put(meta, new) = DOMAIN meta \cup DOMAIN new
      /\ \A key \in DOMAIN meta \ DOMAIN new : Put(meta, new)[key] = meta[key]
  BY PutKeys
<1>. QED BY <1>2, <1>3

\* Every round is a RoundStep.
LEMMA RoundIsRoundStep ==
    ASSUME TypeOK, NEW t \in todo, NEW il \in BOOLEAN, NEW S \in SUBSET Kernel, NEW W \in SUBSET Kernel,
           \/ NoBinaryName(t) \/ CompileFails(t) \/ CompileOnly(t, il) \/ DisassembleFails(t, il)
           \/ NoKernelIsa(t, il) \/ Split(t, il, S, W)
    PROVE  RoundStep(t)
<1>. DEFINE Own(f) == \E kind \in Kind, k \in Kernel \cup {NoKernel} : f = <<kind, <<t, k>>>>
<1>1. t \in Target /\ status \in BOOLEAN /\ EntryMap(meta) /\ disk \in DiskMap /\ streams \in BOOLEAN
  BY TypeParts DEF TypeOK
<1>2. BinaryKind \in Kind /\ IsaKind \in Kind /\ "il" \in Kind /\ BinaryKind \in {"bin", "tmpbin"}
      /\ IsaKind \in {"isa", "tmpisa"}
  BY DEF BinaryKind, IsaKind, Kind
<1>3. \A f \in {Binary(BinaryKind, t)} : Own(f)
  BY <1>2 DEF Binary
<1>4. \A f \in BinaryFiles(t, il) : Own(f)
  BY <1>2 DEF BinaryFiles, Binary
<1>5. CASE NoBinaryName(t)
  BY <1>1, <1>5 DEF NoBinaryName, Round, RoundStep, files
<1>7. ASSUME NEW B, Makes(B), \A f \in B : Own(f)
       PROVE  /\ disk' \in DiskMap
              /\ \A f \in File \cup {SessionFile} : disk'[f] # disk[f] => Own(f)
              /\ empty' \subseteq empty \cup File
  <2>1. disk' = Written(disk, B)
    BY <1>7 DEF Makes
  <2>2. \A f \in B : f \in File
    BY <1>1, <1>7 DEF File, Key
  <2>3. empty' \subseteq empty \cup File
    BY <1>7, <2>2 DEF Makes
  <2>4. /\ Written(disk, B) \in DiskMap
        /\ \A f \in File \cup {SessionFile} : f \notin B => Written(disk, B)[f] = disk[f]
    BY <1>1, <1>7, RoundDisk
  <2>. QED BY <1>7, <2>1, <2>3, <2>4
<1>12. Launches => streams' \in BOOLEAN
  BY <1>1 DEF Launches
<1>6. CASE CompileFails(t)
  <2>. DEFINE new == [key \in {<<t, NoKernel>>} |-> ErrorEntry]
  <2>1. EntryMap(new) /\ \A key \in DOMAIN new : key[1] = t
    BY <1>1, OwnFiles, NewEntries, "tmpbin" \in Kind DEF EntryMap, Kind
  <2>2. meta' = Put(meta, new)
    BY <1>6 DEF CompileFails
  <2>. HIDE DEF new
  <2>3. /\ EntryMap(meta') /\ DOMAIN meta \subseteq DOMAIN meta'
        /\ \A key \in DOMAIN meta : key[1] # t => meta'[key] = meta[key]
        /\ \A key \in DOMAIN meta' \ DOMAIN meta : key[1] = t
    BY <1>1, <2>1, <2>2, RoundMeta
  <2>4. /\ disk' \in DiskMap
        /\ \A f \in File \cup {SessionFile} : disk'[f] # disk[f] => Own(f)
        /\ empty' \subseteq empty \cup File
    <3>. DEFINE B == {Binary(BinaryKind, t)}
    <3>1. Makes(B) \/ (disk' = Deleted(disk, B) /\ empty' = empty)
      BY <1>6 DEF CompileFails
    <3>2. /\ Written(disk, B) \in DiskMap /\ Deleted(disk, B) \in DiskMap
          /\ \A f \in File \cup {SessionFile} :
                f \notin B => Written(disk, B)[f] = disk[f] /\ Deleted(disk, B)[f] = disk[f]
      BY <1>1, <1>3, RoundDisk
    <3>3. CASE Makes(B)
      BY <1>3, <1>7, <3>3
    <3>4. CASE disk' = Deleted(disk, B) /\ empty' = empty
      BY <1>3, <3>2, <3>4
    <3>. QED BY <3>1, <3>3, <3>4
  <2>. QED BY <1>1, <1>6, <1>12, <2>3, <2>4 DEF CompileFails, RoundEnds, Round, RoundStep, history, EntryMap
<1>8. CASE CompileOnly(t, il)
  <2>. DEFINE new == [key \in {<<t, NoKernel>>} |-> [NewEntry EXCEPT !.bin = BinaryKind]]
  <2>1. EntryMap(new) /\ \A key \in DOMAIN new : key[1] = t
    BY <1>1, <1>2, OwnFiles, NewEntries DEF EntryMap
  <2>2. meta' = Put(meta, new)
    BY <1>8 DEF CompileOnly
  <2>. HIDE DEF new
  <2>3. /\ EntryMap(meta') /\ DOMAIN meta \subseteq DOMAIN meta'
        /\ \A key \in DOMAIN meta : key[1] # t => meta'[key] = meta[key]
        /\ \A key \in DOMAIN meta' \ DOMAIN meta : key[1] = t
    BY <1>1, <2>1, <2>2, RoundMeta
  <2>4. /\ disk' \in DiskMap
        /\ \A f \in File \cup {SessionFile} : disk'[f] # disk[f] => Own(f)
        /\ empty' \subseteq empty \cup File
    BY <1>4, <1>7, <1>8 DEF CompileOnly
  <2>. QED BY <1>1, <1>8, <1>12, <2>3, <2>4 DEF CompileOnly, Compiles, RoundEnds, Round, RoundStep, EntryMap
<1>9. CASE DisassembleFails(t, il)
  <2>. DEFINE new == [key \in {<<t, NoKernel>>} |-> ErrorEntry]
  <2>1. EntryMap(new) /\ \A key \in DOMAIN new : key[1] = t
    BY <1>1, <1>2, OwnFiles, NewEntries DEF EntryMap
  <2>2. meta' = Put(meta, new)
    BY <1>9 DEF DisassembleFails
  <2>. HIDE DEF new
  <2>3. /\ EntryMap(meta') /\ DOMAIN meta \subseteq DOMAIN meta'
        /\ \A key \in DOMAIN meta : key[1] # t => meta'[key] = meta[key]
        /\ \A key \in DOMAIN meta' \ DOMAIN meta : key[1] = t
    BY <1>1, <2>1, <2>2, RoundMeta
  <2>4. /\ disk' \in DiskMap
        /\ \A f \in File \cup {SessionFile} : disk'[f] # disk[f] => Own(f)
        /\ empty' \subseteq empty \cup File
    BY <1>4, <1>7, <1>9 DEF DisassembleFails
  <2>. QED BY <1>1, <1>9, <1>12, <2>3, <2>4 DEF DisassembleFails, Compiles, RoundEnds, Round, RoundStep, EntryMap
<1>10. CASE NoKernelIsa(t, il)
  <2>1. /\ disk' \in DiskMap
        /\ \A f \in File \cup {SessionFile} : disk'[f] # disk[f] => Own(f)
        /\ empty' \subseteq empty \cup File
    BY <1>4, <1>7, <1>10 DEF NoKernelIsa
  <2>. QED BY <1>1, <1>10, <1>12, <2>1 DEF NoKernelIsa, Compiles, RoundEnds, Round, RoundStep, EntryMap
<1>11. CASE Split(t, il, S, W)
  <2>. DEFINE K == {k \in Kernel : Requested(k)} \ S
              isa == [NewEntry EXCEPT !.isa = IsaKind]
              whole == IF S = {} THEN [isa EXCEPT !.bin = BinaryKind, !.tmp = ~Asked("bin")] ELSE isa
              new == [key \in {<<t, k>> : k \in K \ W} |-> whole]
              B == BinaryFiles(t, il) \cup {<<IsaKind, <<t, k>>>> : k \in K \ W}
  <2>1. whole \in Entry
    BY <1>2 DEF NewEntry, Entry, Asked
  <2>2. EntryMap(new) /\ \A key \in DOMAIN new : key[1] = t
    <3>. DEFINE D == {<<t, k>> : k \in K \ W}
    <3>1. \A key \in D : key \in Key /\ key[1] = t
      <4>1. \A k \in Kernel : <<t, k>> \in Key
        BY <1>1, <1>2, OwnFiles
      <4>. QED BY <4>1
    <3>2. DOMAIN new = D /\ \A key \in D : new[key] = whole
      OBVIOUS
    <3>. HIDE DEF new, D, whole
    <3>. QED BY <2>1, <3>1, <3>2 DEF EntryMap
  <2>3. \A f \in B : Own(f)
    BY <1>2, <1>4
  <2>4. meta' = Put(meta, new) /\ Makes(B) /\ Compiles(t, il)
    BY <1>11 DEF Split
  <2>5. /\ broken' \subseteq broken \cup File /\ broken \subseteq broken'
        /\ good' \subseteq good \cup {t} /\ good \subseteq good' /\ t \in compiled'
    <3>1. \A k \in K \cap W : <<IsaKind, <<t, k>>>> \in File
      BY <1>1, <1>2, OwnFiles
    <3>2. broken' = broken \cup {<<IsaKind, <<t, k>>>> : k \in K \cap W}
      BY <1>11 DEF Split
    <3>3. good' = IF S = {} THEN good \cup {t} ELSE good
      BY <1>11 DEF Split
    <3>. HIDE DEF K
    <3>. QED BY <2>4, <3>1, <3>2, <3>3 DEF Compiles
  <2>6. status' \in BOOLEAN /\ (status' => status)
    BY <1>1, <1>11 DEF Split, RoundEnds
  <2>. HIDE DEF new, B, K
  <2>7. /\ EntryMap(meta') /\ DOMAIN meta \subseteq DOMAIN meta'
        /\ \A key \in DOMAIN meta : key[1] # t => meta'[key] = meta[key]
        /\ \A key \in DOMAIN meta' \ DOMAIN meta : key[1] = t
    BY <1>1, <2>2, <2>4, RoundMeta
  <2>8. /\ disk' \in DiskMap
        /\ \A f \in File \cup {SessionFile} : disk'[f] # disk[f] => Own(f)
        /\ empty' \subseteq empty \cup File
    BY <1>7, <2>3, <2>4
  <2>. QED BY <1>1, <1>12, <2>4, <2>5, <2>6, <2>7, <2>8 DEF Compiles, Round, RoundStep, EntryMap
<1>. QED BY <1>5, <1>6, <1>8, <1>9, <1>10, <1>11

NextPass == [csv |-> "stats", stats |-> "livereg", livereg |-> "sgpr", sgpr |-> "cfg", cfg |-> "md",
             md |-> "session", session |-> "cleanup"]
Made == {"isa", "tmpisa", "bin", "tmpbin", "il"}

\* What a pass keeps of an entry.
SameMade(e, f) == e.status = f.status /\ e.isa = f.isa /\ e.bin = f.bin /\ e.tmp = f.tmp

\* A file that may be listed after a pass.
New(kind, key) == disk'[<<kind, key>>] = "new"
There(kind, key) == New(kind, key) \/ (disk'[<<kind, key>>] = "old" /\ <<kind, key>> \in broken')

\* What each pass does: files are added, none of those that CompileOpenCL
\* makes, and each entry keeps what it says of the latter.  What is listed anew
\* is there, and each file of an analysis is new or has failed.
PassStep ==
    /\ pc \in DOMAIN NextPass /\ pc' = NextPass[pc]
    /\ UNCHANGED <<cmd, list, todo, unnamed, compiled, good>>
    /\ disk' \in DiskMap
    /\ \A f \in File \cup {SessionFile} :
          disk'[f] = disk[f] \/ (disk'[f] = "new" /\ f[1] \notin Made)
    /\ EntryMap(meta)'
    /\ DOMAIN meta' = DOMAIN meta
    /\ \A key \in DOMAIN meta : SameMade(meta'[key], meta[key])
    /\ \A key \in Fine :
          /\ meta'[key].csv => meta[key].csv \/ New("csv", key)
          /\ meta'[key].stats => meta[key].stats \/ New("stats", key)
          /\ meta'[key].livereg # "none" => meta[key].livereg # "none" \/ There("livereg", key)
          /\ meta'[key].sgpr => meta[key].sgpr \/ There("sgpr", key)
    /\ (pc \in {"livereg", "sgpr", "cfg"} /\ Asked(pc) /\ PostProcess) =>
          \A key \in Fine : New(pc, key) \/ <<pc, key>> \in broken'
    /\ broken' \subseteq broken \cup File /\ broken \subseteq broken'
    /\ UNCHANGED empty /\ streams' \in BOOLEAN
    /\ status' \in BOOLEAN /\ (pc # "csv" => status' = status)

\* The entries after a pass that has set fields of some of them.
LEMMA PassMeta ==
    ASSUME TypeOK, NEW K, K \subseteq DOMAIN meta, NEW new, DOMAIN new = K,
           \A key \in K : new[key] \in Entry /\ SameMade(new[key], meta[key])
    PROVE  /\ EntryMap(Put(meta, new))
           /\ DOMAIN Put(meta, new) = DOMAIN meta
           /\ \A key \in DOMAIN meta : SameMade(Put(meta, new)[key], meta[key])
           /\ \A key \in K : Put(meta, new)[key] = new[key]
           /\ \A key \in DOMAIN meta \ K : Put(meta, new)[key] = meta[key]
<1>1. /\ DOMAIN Put(meta, new) = DOMAIN meta \cup DOMAIN new
      /\ \A key \in DOMAIN new : Put(meta, new)[key] = new[key]
      /\ \A key \in DOMAIN meta \ DOMAIN new : Put(meta, new)[key] = meta[key]
  BY PutKeys
<1>2. EntryMap(meta)
  BY TypeParts
<1>3. EntryMap(new)
  BY <1>2 DEF EntryMap
<1>. QED BY <1>1, <1>2, <1>3, PutEntries DEF SameMade

\* The files after a pass has written some.
LEMMA PassDisk ==
    ASSUME TypeOK, NEW kind \in Kind \ Made, NEW W, W \subseteq Key
    PROVE  /\ PassFiles(kind, W) \subseteq File
           /\ Written(disk, PassFiles(kind, W)) \in DiskMap
           /\ \A f \in File \cup {SessionFile} :
                 LET d == Written(disk, PassFiles(kind, W))
                 IN d[f] = disk[f] \/ (d[f] = "new" /\ f[1] \notin Made)
           /\ \A key \in W : Written(disk, PassFiles(kind, W))[<<kind, key>>] = "new"
<1>1. \A f \in PassFiles(kind, W) : f \in File /\ f[1] = kind
  BY DEF PassFiles, File
<1>2. \A key \in W : <<kind, key>> \in PassFiles(kind, W)
  BY DEF PassFiles
<1>3. disk \in DiskMap
  BY TypeParts
<1>. QED BY <1>1, <1>2, <1>3, DiskKeeps

\* Entries that are fine have keys.
LEMMA FineKeys ==
    ASSUME TypeOK
    PROVE  Fine \subseteq DOMAIN meta /\ Fine \subseteq Key
           /\ \A key \in Fine : meta[key] \in Entry
BY DEF TypeOK, Fine

\* ParseToCsv is a PassStep.
LEMMA CsvPass == ASSUME TypeOK, ParseToCsv PROVE PassStep
<1>1. PICK W \in SUBSET {key \in Fine : meta[key].isa # "none"} :
          /\ disk' = Written(disk, PassFiles("csv", W))
          /\ meta' = Put(meta, [key \in W |-> [meta[key] EXCEPT !.csv = TRUE]])
          /\ status' = (W = Fine)
  BY DEF ParseToCsv
<1>2. W \subseteq DOMAIN meta /\ W \subseteq Key /\ "csv" \in Kind \ Made
  BY FineKeys DEF Kind, Made
<1>. DEFINE new == [key \in W |-> [meta[key] EXCEPT !.csv = TRUE]]
<1>3. \A key \in W : /\ new[key] \in Entry /\ SameMade(new[key], meta[key])
                      /\ new[key].stats = meta[key].stats /\ new[key].livereg = meta[key].livereg
                      /\ new[key].sgpr = meta[key].sgpr
  BY FineKeys DEF Entry, SameMade
<1>4. DOMAIN new = W
  OBVIOUS
<1>5. meta' = Put(meta, new)
  BY <1>1
<1>. HIDE DEF new
<1>6. /\ EntryMap(meta') /\ DOMAIN meta' = DOMAIN meta
      /\ \A key \in DOMAIN meta : SameMade(meta'[key], meta[key])
      /\ \A key \in W : meta'[key] = new[key]
      /\ \A key \in DOMAIN meta \ W : meta'[key] = meta[key]
  BY <1>2, <1>3, <1>4, <1>5, PassMeta
<1>7. /\ disk' \in DiskMap
      /\ \A f \in File \cup {SessionFile} : disk'[f] = disk[f] \/ (disk'[f] = "new" /\ f[1] \notin Made)
      /\ \A key \in W : New("csv", key)
  BY <1>1, <1>2, PassDisk DEF New
<1>8. \A key \in Fine :
          /\ meta'[key].csv => meta[key].csv \/ New("csv", key)
          /\ meta'[key].stats => meta[key].stats
          /\ meta'[key].livereg = meta[key].livereg
          /\ meta'[key].sgpr => meta[key].sgpr
  BY <1>3, <1>6, <1>7, FineKeys
<1>9. streams \in BOOLEAN
  BY DEF TypeOK
<1>. QED BY <1>1, <1>6, <1>7, <1>8, <1>9 DEF ParseToCsv, PassStep, NextPass, list, history, EntryMap

\* ExtractStatistics is a PassStep.
LEMMA StatisticsPass == ASSUME TypeOK, ExtractStatistics PROVE PassStep
<1>1. PICK T \in SUBSET TargetsFine :
          LET read == {key \in DOMAIN meta : key[1] \in T /\ key[2] # NoKernel}
          IN \E W \in SUBSET (IF Asked("stats") THEN read ELSE {}) :
                LET listed == {key \in W : \A other \in read :
                                  other[1] = key[1] /\ other[2] < key[2] => other \in W}
                IN /\ disk' = Written(disk, PassFiles("stats", W))
                   /\ meta' = Put(meta, [key \in read |->
                                  [meta[key] EXCEPT !.wave = TRUE, !.stats = (key \in listed)]])
                   /\ broken' = broken \cup PassFiles("stats", Fine \ W)
  BY DEF ExtractStatistics
<1>. DEFINE read == {key \in DOMAIN meta : key[1] \in T /\ key[2] # NoKernel}
<1>2. PICK W \in SUBSET (IF Asked("stats") THEN read ELSE {}) :
          LET listed == {key \in W : \A other \in read :
                            other[1] = key[1] /\ other[2] < key[2] => other \in W}
          IN /\ disk' = Written(disk, PassFiles("stats", W))
             /\ meta' = Put(meta, [key \in read |->
                            [meta[key] EXCEPT !.wave = TRUE, !.stats = (key \in listed)]])
             /\ broken' = broken \cup PassFiles("stats", Fine \ W)
  BY <1>1
<1>. DEFINE listed == {key \in W : \A other \in read :
                            other[1] = key[1] /\ other[2] < key[2] => other \in W}
            new == [key \in read |-> [meta[key] EXCEPT !.wave = TRUE, !.stats = (key \in listed)]]
<1>3. read \subseteq DOMAIN meta /\ W \subseteq Key /\ Fine \subseteq Key /\ "stats" \in Kind \ Made
  BY FineKeys DEF Kind, Made, TypeOK
<1>4. \A key \in read : /\ new[key] \in Entry /\ SameMade(new[key], meta[key])
                         /\ new[key].csv = meta[key].csv /\ new[key].livereg = meta[key].livereg
                         /\ new[key].sgpr = meta[key].sgpr /\ (new[key].stats => key \in W)
  <2>1. ASSUME NEW e \in Entry, NEW b \in BOOLEAN
        PROVE  LET f == [e EXCEPT !.wave = TRUE, !.stats = b]
               IN /\ f \in Entry /\ SameMade(f, e) /\ f.csv = e.csv /\ f.livereg = e.livereg
                  /\ f.sgpr = e.sgpr /\ f.stats = b
    BY <2>1 DEF Entry, SameMade
  <2>2. SUFFICES ASSUME NEW key \in read
                 PROVE  /\ new[key] \in Entry /\ SameMade(new[key], meta[key])
                        /\ new[key].csv = meta[key].csv /\ new[key].livereg = meta[key].livereg
                        /\ new[key].sgpr = meta[key].sgpr /\ (new[key].stats => key \in W)
    OBVIOUS
  <2>. DEFINE b == key \in listed
  <2>3. new[key] = [meta[key] EXCEPT !.wave = TRUE, !.stats = b]
    OBVIOUS
  <2>4. b \in BOOLEAN /\ meta[key] \in Entry /\ (b => key \in W)
    BY DEF TypeOK
  <2>. HIDE DEF b, new
  <2>. DEFINE f == [meta[key] EXCEPT !.wave = TRUE, !.stats = b]
  <2>5. /\ f \in Entry /\ SameMade(f, meta[key]) /\ f.csv = meta[key].csv
        /\ f.livereg = meta[key].livereg /\ f.sgpr = meta[key].sgpr /\ f.stats = b
    BY <2>1, <2>4
  <2>6. new[key] = f
    BY <2>3
  <2>. HIDE DEF f
  <2>. QED BY <2>4, <2>5, <2>6
<1>5. DOMAIN new = read /\ meta' = Put(meta, new)
  BY <1>2
<1>. HIDE DEF new, read
<1>6. /\ EntryMap(meta') /\ DOMAIN meta' = DOMAIN meta
      /\ \A key \in DOMAIN meta : SameMade(meta'[key], meta[key])
      /\ \A key \in read : meta'[key] = new[key]
      /\ \A key \in DOMAIN meta \ read : meta'[key] = meta[key]
  BY <1>3, <1>4, <1>5, PassMeta
<1>7. /\ disk' \in DiskMap
      /\ \A f \in File \cup {SessionFile} : disk'[f] = disk[f] \/ (disk'[f] = "new" /\ f[1] \notin Made)
      /\ \A key \in W : New("stats", key)
  BY <1>2, <1>3, PassDisk DEF New
<1>8. \A key \in Fine :
          /\ meta'[key].csv => meta[key].csv
          /\ meta'[key].stats => meta[key].stats \/ New("stats", key)
          /\ meta'[key].livereg = meta[key].livereg
          /\ meta'[key].sgpr => meta[key].sgpr
  BY <1>3, <1>4, <1>6, <1>7, FineKeys
<1>9. broken' \subseteq broken \cup File /\ broken \subseteq broken'
  BY <1>2, <1>3, PassDisk
<1>10. status \in BOOLEAN /\ (Launches => streams' \in BOOLEAN)
  BY DEF TypeOK, Launches
<1>. QED BY <1>6, <1>7, <1>8, <1>9, <1>10 DEF ExtractStatistics, PassStep, NextPass, list, EntryMap

\* What the analysis passes do to the files.
LEMMA AnalyzePass ==
    ASSUME TypeOK, NEW kind \in {"livereg", "sgpr", "cfg"}, NEW W, Analyze(kind, NextPass[kind], kind, W)
    PROVE  /\ disk' \in DiskMap
           /\ \A f \in File \cup {SessionFile} :
                 disk'[f] = disk[f] \/ (disk'[f] = "new" /\ f[1] \notin Made)
           /\ broken' \subseteq broken \cup File /\ broken \subseteq broken'
           /\ \A key \in Fine : New(kind, key) \/ <<kind, key>> \in broken'
           /\ \A key \in Present(kind) : key \in Fine /\ There(kind, key)
           /\ status \in BOOLEAN /\ streams \in BOOLEAN
<1>1. /\ W \subseteq Fine /\ W \subseteq Key /\ Fine \subseteq Key /\ kind \in Kind \ Made
  BY FineKeys DEF Analyze, Kind, Made
<1>2. /\ disk' = Written(disk, PassFiles(kind, W))
      /\ broken' = broken \cup PassFiles(kind, Fine \ W)
  BY DEF Analyze
<1>3. PassFiles(kind, Fine \ W) \subseteq File
  <2>1. Fine \ W \subseteq Key
    BY <1>1
  <2>. QED BY <1>1, <2>1, PassDisk
<1>4. \A key \in Fine \ W : <<kind, key>> \in broken'
  BY <1>2 DEF PassFiles
<1>5. /\ disk' \in DiskMap
      /\ \A f \in File \cup {SessionFile} : disk'[f] = disk[f] \/ (disk'[f] = "new" /\ f[1] \notin Made)
      /\ \A key \in W : New(kind, key)
  BY <1>1, <1>2, PassDisk DEF New
<1>6. \A key \in Present(kind) : key \in Fine /\ There(kind, key)
  <2>1. SUFFICES ASSUME NEW key \in Fine, disk'[<<kind, key>>] # "none"
                 PROVE  There(kind, key)
    BY DEF Present
  <2>2. <<kind, key>> \in File
    BY <1>1 DEF File
  <2>3. disk'[<<kind, key>>] \in {"none", "old", "new"}
    BY <1>5, <2>2 DEF DiskMap
  <2>. QED BY <1>4, <1>5, <2>1, <2>3 DEF There, New
<1>7. status \in BOOLEAN /\ streams \in BOOLEAN
  BY DEF TypeOK
<1>. QED BY <1>2, <1>3, <1>4, <1>5, <1>6, <1>7

\* PerformLiveVgprAnalysis is a PassStep.
LEMMA VgprPass == ASSUME TypeOK, PerformLiveVgprAnalysis PROVE PassStep
<1>. DEFINE P == Present("livereg")
            new == [key \in P |-> [meta[key] EXCEPT !.livereg = IF meta[key].wave THEN "known" ELSE "default"]]
<1>1. PICK W \in SUBSET Fine : Analyze("livereg", "sgpr", "livereg", W)
  BY DEF PerformLiveVgprAnalysis
<1>2. meta' = Put(meta, new)
  BY DEF PerformLiveVgprAnalysis
<1>3. Analyze("livereg", NextPass["livereg"], "livereg", W)
  BY <1>1 DEF NextPass
<1>4. /\ disk' \in DiskMap
      /\ \A f \in File \cup {SessionFile} : disk'[f] = disk[f] \/ (disk'[f] = "new" /\ f[1] \notin Made)
      /\ broken' \subseteq broken \cup File /\ broken \subseteq broken'
      /\ \A key \in Fine : New("livereg", key) \/ <<"livereg", key>> \in broken'
      /\ \A key \in P : key \in Fine /\ There("livereg", key)
      /\ status \in BOOLEAN /\ streams \in BOOLEAN
  BY <1>3, AnalyzePass
<1>5. P \subseteq DOMAIN meta
  BY <1>4, FineKeys
<1>6. \A key \in P : /\ new[key] \in Entry /\ SameMade(new[key], meta[key])
                      /\ new[key].csv = meta[key].csv /\ new[key].stats = meta[key].stats
                      /\ new[key].sgpr = meta[key].sgpr
  BY <1>4, FineKeys DEF Entry, SameMade
<1>7. DOMAIN new = P
  OBVIOUS
<1>. HIDE DEF new, P
<1>8. /\ EntryMap(meta') /\ DOMAIN meta' = DOMAIN meta
      /\ \A key \in DOMAIN meta : SameMade(meta'[key], meta[key])
      /\ \A key \in P : meta'[key] = new[key]
      /\ \A key \in DOMAIN meta \ P : meta'[key] = meta[key]
  BY <1>2, <1>5, <1>6, <1>7, PassMeta
<1>9. \A key \in Fine :
          /\ meta'[key].csv => meta[key].csv
          /\ meta'[key].stats => meta[key].stats
          /\ meta'[key].livereg # "none" => meta[key].livereg # "none" \/ There("livereg", key)
          /\ meta'[key].sgpr => meta[key].sgpr
  BY <1>4, <1>6, <1>8, FineKeys
<1>. QED BY <1>1, <1>4, <1>8, <1>9 DEF Analyze, PassStep, NextPass, list, EntryMap

\* PerformLiveSgprAnalysis is a PassStep.
LEMMA SgprPass == ASSUME TypeOK, PerformLiveSgprAnalysis PROVE PassStep
<1>. DEFINE P == Present("sgpr")
            new == [key \in P |-> [meta[key] EXCEPT !.sgpr = TRUE]]
<1>1. PICK W \in SUBSET Fine : Analyze("sgpr", "cfg", "sgpr", W)
  BY DEF PerformLiveSgprAnalysis
<1>2. meta' = Put(meta, new)
  BY DEF PerformLiveSgprAnalysis
<1>3. Analyze("sgpr", NextPass["sgpr"], "sgpr", W)
  BY <1>1 DEF NextPass
<1>4. /\ disk' \in DiskMap
      /\ \A f \in File \cup {SessionFile} : disk'[f] = disk[f] \/ (disk'[f] = "new" /\ f[1] \notin Made)
      /\ broken' \subseteq broken \cup File /\ broken \subseteq broken'
      /\ \A key \in Fine : New("sgpr", key) \/ <<"sgpr", key>> \in broken'
      /\ \A key \in P : key \in Fine /\ There("sgpr", key)
      /\ status \in BOOLEAN /\ streams \in BOOLEAN
  BY <1>3, AnalyzePass
<1>5. P \subseteq DOMAIN meta
  BY <1>4, FineKeys
<1>6. \A key \in P : /\ new[key] \in Entry /\ SameMade(new[key], meta[key])
                      /\ new[key].csv = meta[key].csv /\ new[key].stats = meta[key].stats
                      /\ new[key].livereg = meta[key].livereg
  BY <1>4, FineKeys DEF Entry, SameMade
<1>7. DOMAIN new = P
  OBVIOUS
<1>. HIDE DEF new, P
<1>8. /\ EntryMap(meta') /\ DOMAIN meta' = DOMAIN meta
      /\ \A key \in DOMAIN meta : SameMade(meta'[key], meta[key])
      /\ \A key \in P : meta'[key] = new[key]
      /\ \A key \in DOMAIN meta \ P : meta'[key] = meta[key]
  BY <1>2, <1>5, <1>6, <1>7, PassMeta
<1>9. \A key \in Fine :
          /\ meta'[key].csv => meta[key].csv
          /\ meta'[key].stats => meta[key].stats
          /\ meta'[key].livereg # "none" => meta[key].livereg # "none"
          /\ meta'[key].sgpr => meta[key].sgpr \/ There("sgpr", key)
  BY <1>4, <1>6, <1>8, FineKeys
<1>. QED BY <1>1, <1>4, <1>8, <1>9 DEF Analyze, PassStep, NextPass, list, EntryMap

\* ExtractCFG is a PassStep.
LEMMA CfgPass == ASSUME TypeOK, ExtractCFG PROVE PassStep
<1>1. PICK W \in SUBSET Fine : Analyze("cfg", "md", "cfg", W) /\ meta' = meta
  BY DEF ExtractCFG
<1>2. Analyze("cfg", NextPass["cfg"], "cfg", W)
  BY <1>1 DEF NextPass
<1>3. /\ disk' \in DiskMap
      /\ \A f \in File \cup {SessionFile} : disk'[f] = disk[f] \/ (disk'[f] = "new" /\ f[1] \notin Made)
      /\ broken' \subseteq broken \cup File /\ broken \subseteq broken'
      /\ \A key \in Fine : New("cfg", key) \/ <<"cfg", key>> \in broken'
      /\ status \in BOOLEAN /\ streams \in BOOLEAN
  BY <1>2, AnalyzePass
<1>4. EntryMap(meta)
  BY TypeParts
<1>. QED BY <1>1, <1>3, <1>4 DEF Analyze, PassStep, NextPass, list, EntryMap, SameMade

\* The other passes are PassSteps: they change no entry, and fail nothing.
LEMMA OtherPass == ASSUME TypeOK, ExtractMetadata \/ SkipPass \/ GenerateSessionMetadata PROVE PassStep
<1>1. /\ EntryMap(meta) /\ disk \in DiskMap /\ status \in BOOLEAN /\ broken \subseteq File
      /\ streams \in BOOLEAN /\ (Launches => streams' \in BOOLEAN)
  BY TypeParts DEF TypeOK, Launches
<1>2. CASE ExtractMetadata
  <2>1. PICK T \in SUBSET {t \in TargetsFine : ~NoBinary(t)} :
            disk' = Written(disk, {Binary("md", t) : t \in T})
    BY <1>2 DEF ExtractMetadata
  <2>2. \A f \in {Binary("md", t) : t \in T} : f[1] \notin Made
    BY DEF Binary, Made
  <2>3. /\ disk' \in DiskMap
        /\ \A f \in File \cup {SessionFile} : disk'[f] = disk[f] \/ (disk'[f] = "new" /\ f[1] \notin Made)
    BY <1>1, <2>1, <2>2, DiskKeeps
  <2>. QED BY <1>1, <1>2, <2>3 DEF ExtractMetadata, PassStep, NextPass, list, history, EntryMap, SameMade
<1>3. CASE SkipPass
  BY <1>1, <1>3 DEF SkipPass, Skip, files, PassStep, NextPass, list, history, EntryMap, SameMade
<1>4. CASE GenerateSessionMetadata
  <2>1. /\ disk' \in DiskMap
        /\ \A f \in File \cup {SessionFile} : disk'[f] = disk[f] \/ (disk'[f] = "new" /\ f[1] \notin Made)
    <3>1. disk' = Written(disk, {SessionFile}) \/ disk' = disk
      BY <1>4 DEF GenerateSessionMetadata
    <3>2. SessionFile[1] \notin Made
      BY DEF SessionFile, Made
    <3>. QED BY <1>1, <3>1, <3>2, DiskKeeps
  <2>. QED BY <1>1, <1>4, <2>1 DEF GenerateSessionMetadata, PassStep, NextPass, list, history, EntryMap, SameMade
<1>. QED BY <1>2, <1>3, <1>4

-----------------------------------------------------------------------------
(* The inductive invariant.                                                 *)

\* Names are handled in their order.
NamesInv ==
    /\ named <= Len(cmd.names)
    /\ pc # "names" => named = Len(cmd.names)
    /\ matched => \E j \in 1 .. named : cmd.names[j] \in targets
    /\ \A i \in 1 .. named :
          \/ cmd.names[i] \in targets \cup reported
          \/ \E j \in 1 .. i - 1 : cmd.names[j] \in targets

\* A target that is still to be compiled has left no traces.
TodoInv ==
    /\ pc # "compile" => todo = {}
    /\ pc = "names" => unnamed = {} /\ compiled = {} /\ good = {} /\ DOMAIN meta = {}
    /\ good \cap todo = {}
    /\ \A key \in DOMAIN meta : key[1] \notin todo

\* SuccessIsWhole, of the targets that were compiled so far.
WholeTargets == unnamed \cup (IF NeedsIsa THEN good ELSE compiled)
StatusInv ==
    /\ pc = "csv" => Asked("csv")
    /\ (pc # "names" /\ status /\ (pc = "compile" \/ ~Asked("csv"))) => targets \ todo \subseteq WholeTargets

\* A target that was taken apart has the entries of its kernels, and an
\* analysis that is over has made its file for each of them or has failed.
After == [livereg |-> {"sgpr", "cfg", "md", "session", "cleanup", "done"},
          sgpr |-> {"cfg", "md", "session", "cleanup", "done"},
          cfg |-> {"md", "session", "cleanup", "done"}]
AnalyzedInv ==
    /\ \A t \in good, k \in Kernel :
          Requested(k) /\ <<IsaKind, <<t, k>>>> \notin broken => <<t, k>> \in Fine
    /\ \A kind \in {"livereg", "sgpr", "cfg"} :
          (pc \in After[kind] /\ IsMultiple /\ Asked(kind)) =>
              \A key \in Fine : disk[<<kind, key>>] = "new" \/ <<kind, key>> \in broken

\* The entries know the temp files, up to the end.
TempInv ==
    /\ pc # "done" => \A key \in Key :
          disk[<<"tmpisa", key>>] # "none" => key \in DOMAIN meta /\ meta[key].isa = "tmpisa"
    /\ \A t \in good : \A key \in DOMAIN meta : key[1] = t => meta[key].tmp = ~Asked("bin")
    /\ \A t \in Target : disk[Binary("tmpbin", t)] # "none" => ~Asked("bin")
    /\ NoStrayTempFile

Inv == TypeOK /\ NamesInv /\ TodoInv /\ StatusInv /\ AnalyzedInv /\ TempInv /\ ListedFilesAreThere

\* It holds at the start.
LEMMA InitInv == ASSUME OfflineAssumption, Init PROVE Inv
<1>1. TypeOK
  BY InitTypeOK
<1>2. NamesInv
  BY <1>1 DEF Init, NamesInv, TypeOK
<1>3. TodoInv /\ StatusInv /\ AnalyzedInv
  BY DEF Init, TodoInv, StatusInv, AnalyzedInv, NoEntries, After
<1>4. TempInv
  <2>1. \A key \in Key : <<"tmpisa", key>> \in File
    BY DEF File, Kind
  <2>2. \A t \in Target : Binary("tmpbin", t) \in File /\ Binary("tmpbin", t)[1] = "tmpbin"
    BY DEF Binary, File, Kind, Key
  <2>3. \A key \in Key : disk[<<"tmpisa", key>>] = "none"
    BY <2>1 DEF Init
  <2>4. \A t \in Target : disk[Binary("tmpbin", t)] = "none"
    BY <2>2 DEF Init
  <2>. QED BY <2>3, <2>4 DEF Init, TempInv, NoStrayTempFile
<1>5. ListedFilesAreThere
  BY DEF Init, ListedFilesAreThere, Fine, NoEntries
<1>. QED BY <1>1, <1>2, <1>3, <1>4, <1>5 DEF Inv

\* The invariant is inductive: what a round adds for its target.
MadeEntry(t, key) ==
    LET e == meta'[key]
    IN /\ e.isa = "isa" => disk'[<<"isa", key>>] = "new"
       /\ e.bin = "bin" => disk'[Binary("bin", t)] = "new"
       /\ ~e.csv /\ ~e.stats /\ e.livereg = "none" /\ ~e.sgpr
       /\ t \in good' => e.tmp = ~Asked("bin")

RoundAdds(t) ==
    /\ \A key \in DOMAIN meta' \ DOMAIN meta : meta'[key].status => MadeEntry(t, key)
    /\ \A key \in DOMAIN meta' \ DOMAIN meta : t \in good' => meta'[key].status
    /\ \A key \in Key : disk'[<<"tmpisa", key>>] # disk[<<"tmpisa", key>>] =>
          key \in DOMAIN meta' \ DOMAIN meta /\ meta'[key].isa = "tmpisa"
    /\ disk'[Binary("tmpbin", t)] # disk[Binary("tmpbin", t)] => ~Asked("bin")
    /\ t \in good' => \A k \in Kernel :
          Requested(k) /\ <<IsaKind, <<t, k>>>> \notin broken' =>
              <<t, k>> \in DOMAIN meta' /\ meta'[<<t, k>>].status
    /\ status' => t \in unnamed' \cup (IF NeedsIsa THEN good' ELSE compiled')

\* Every round adds what RoundAdds says.
LEMMA RoundIsRoundAdds ==
    ASSUME TypeOK, TodoInv, NEW t \in todo, NEW il \in BOOLEAN, NEW S \in SUBSET Kernel, NEW W \in SUBSET Kernel,
           \/ NoBinaryName(t) \/ CompileFails(t) \/ CompileOnly(t, il) \/ DisassembleFails(t, il)
           \/ NoKernelIsa(t, il) \/ Split(t, il, S, W)
    PROVE  RoundAdds(t)
<1>1. /\ t \in Target /\ t \notin good /\ disk \in DiskMap
      /\ \A key \in DOMAIN meta : key[1] # t
  BY TypeParts DEF TypeOK, TodoInv
<1>2. BinaryKind = (IF Asked("bin") THEN "bin" ELSE "tmpbin") /\ IsaKind = (IF Asked("isa") THEN "isa" ELSE "tmpisa")
  BY DEF BinaryKind, IsaKind
<1>3. /\ \A key \in Key : <<"tmpisa", key>> \in File /\ <<"isa", key>> \in File
      /\ Binary("tmpbin", t) \in File /\ Binary("bin", t) \in File
      /\ \A kind \in Kind : Binary(kind, t)[1] = kind
      /\ <<t, NoKernel>> \in Key
      /\ \A k \in Kernel : <<t, k>> \in Key
  BY <1>1 DEF File, Kind, Key, Binary
<1>4. \A f \in BinaryFiles(t, il) : f = Binary(BinaryKind, t) \/ f = Binary("il", t)
  BY DEF BinaryFiles
<1>5. Binary("bin", t) # Binary("tmpbin", t) /\ Binary("il", t) # Binary("tmpbin", t)
      /\ \A key \in Key : <<"tmpisa", key>> \notin {Binary("bin", t), Binary("tmpbin", t), Binary("il", t)}
  BY DEF Binary
<1>6. CASE NoBinaryName(t)
  BY <1>1, <1>6 DEF NoBinaryName, files, RoundAdds
<1>7. CASE CompileFails(t)
  <2>1. meta' = Put(meta, [key \in {<<t, NoKernel>>} |-> ErrorEntry]) /\ status' = FALSE /\ good' = good
    BY <1>7 DEF CompileFails, RoundEnds, history
  <2>2. \A key \in DOMAIN meta' \ DOMAIN meta : meta'[key] = ErrorEntry
    BY <2>1 DEF Put
  <2>3. \A f \in File : f # Binary(BinaryKind, t) => disk'[f] = disk[f]
    BY <1>1, <1>7, DiskKeeps DEF CompileFails, Makes
  <2>4. ~ErrorEntry.status
    BY DEF ErrorEntry, NewEntry
  <2>. QED BY <1>1, <1>2, <1>3, <1>5, <2>1, <2>2, <2>3, <2>4 DEF RoundAdds
<1>8. CASE CompileOnly(t, il)
  <2>. DEFINE e == [NewEntry EXCEPT !.bin = BinaryKind]
  <2>1. /\ meta' = Put(meta, [key \in {<<t, NoKernel>>} |-> e]) /\ good' = good /\ t \in compiled'
        /\ disk' = Written(disk, BinaryFiles(t, il)) /\ ~NeedsIsa
    BY <1>8 DEF CompileOnly, Compiles, Makes
  <2>2. \A key \in DOMAIN meta' \ DOMAIN meta : meta'[key] = e
    BY <2>1 DEF Put
  <2>3. \A f \in File : disk'[f] = IF f \in BinaryFiles(t, il) THEN "new" ELSE disk[f]
    BY <1>1, <2>1, DiskKeeps
  <2>4. /\ e.isa = "none" /\ e.bin = BinaryKind /\ ~e.csv /\ ~e.stats /\ e.livereg = "none" /\ ~e.sgpr
    BY DEF NewEntry
  <2>5. Binary(BinaryKind, t) \in BinaryFiles(t, il)
    BY DEF BinaryFiles
  <2>. HIDE DEF e
  <2>6. \A key \in DOMAIN meta' \ DOMAIN meta : MadeEntry(t, key)
    BY <1>1, <1>3, <2>1, <2>2, <2>3, <2>4, <2>5 DEF MadeEntry
  <2>7. NeedsIsa' = NeedsIsa
    BY <1>8 DEF CompileOnly, Compiles, Round, NeedsIsa
  <2>. QED BY <1>1, <1>2, <1>3, <1>4, <1>5, <2>1, <2>3, <2>6 DEF RoundAdds
<1>9. CASE DisassembleFails(t, il)
  <2>1. /\ meta' = Put(meta, [key \in {<<t, NoKernel>>} |-> ErrorEntry]) /\ status' = FALSE /\ good' = good
        /\ disk' = Written(disk, BinaryFiles(t, il))
    BY <1>9 DEF DisassembleFails, RoundEnds, Makes
  <2>2. \A key \in DOMAIN meta' \ DOMAIN meta : meta'[key] = ErrorEntry
    BY <2>1 DEF Put
  <2>3. \A f \in File : disk'[f] = IF f \in BinaryFiles(t, il) THEN "new" ELSE disk[f]
    BY <1>1, <2>1, DiskKeeps
  <2>4. ~ErrorEntry.status
    BY DEF ErrorEntry, NewEntry
  <2>. QED BY <1>1, <1>2, <1>3, <1>4, <1>5, <2>1, <2>2, <2>3, <2>4 DEF RoundAdds
<1>10. CASE NoKernelIsa(t, il)
  <2>1. /\ meta' = meta /\ status' = FALSE /\ good' = good
        /\ disk' = Written(disk, BinaryFiles(t, il))
    BY <1>10 DEF NoKernelIsa, RoundEnds, Makes
  <2>2. \A f \in File : disk'[f] = IF f \in BinaryFiles(t, il) THEN "new" ELSE disk[f]
    BY <1>1, <2>1, DiskKeeps
  <2>. QED BY <1>1, <1>2, <1>3, <1>4, <1>5, <2>1, <2>2 DEF RoundAdds
<1>11. CASE Split(t, il, S, W)
  <2>. DEFINE K == {k \in Kernel : Requested(k)} \ S
              isa == [NewEntry EXCEPT !.isa = IsaKind]
              whole == IF S = {} THEN [isa EXCEPT !.bin = BinaryKind, !.tmp = ~Asked("bin")] ELSE isa
              D == {<<t, k>> : k \in K \ W}
              I == {<<IsaKind, <<t, k>>>> : k \in K \ W}
  <2>1. /\ meta' = Put(meta, [key \in D |-> whole])
        /\ disk' = Written(disk, BinaryFiles(t, il) \cup I)
        /\ good' = IF S = {} THEN good \cup {t} ELSE good
        /\ broken' = broken \cup {<<IsaKind, <<t, k>>>> : k \in K \cap W}
        /\ status' = (status /\ S = {})
        /\ NeedsIsa
    BY <1>11 DEF Split, RoundEnds, Makes
  <2>2. \A k \in K \ W : <<t, k>> \in D /\ <<IsaKind, <<t, k>>>> \in I
    OBVIOUS
  <2>3. /\ \A key \in D : key \in Key /\ <<IsaKind, key>> \in I
        /\ \A f \in I : f[1] = IsaKind /\ f[2] \in D
    BY <1>3
  <2>4. /\ whole.isa = IsaKind /\ whole.status
        /\ whole.bin = (IF S = {} THEN BinaryKind ELSE "none")
        /\ whole.tmp = (S = {} /\ ~Asked("bin"))
        /\ ~whole.csv /\ ~whole.stats /\ whole.livereg = "none" /\ ~whole.sgpr
    BY DEF NewEntry, Asked
  <2>5. \A k \in Kernel : Requested(k) /\ S = {} /\ <<IsaKind, <<t, k>>>> \notin broken' => <<t, k>> \in D
    BY <2>1
  <2>. HIDE DEF whole, D, I, K
  <2>6. /\ DOMAIN meta' = DOMAIN meta \cup D
        /\ \A key \in D : meta'[key] = whole
    BY <2>1 DEF Put
  <2>7. \A f \in File : disk'[f] = IF f \in BinaryFiles(t, il) \cup I THEN "new" ELSE disk[f]
    BY <1>1, <2>1, DiskKeeps
  <2>8. Binary(BinaryKind, t) \in BinaryFiles(t, il)
    BY DEF BinaryFiles
  <2>9. \A key \in D : MadeEntry(t, key)
    <3>1. SUFFICES ASSUME NEW key \in D PROVE MadeEntry(t, key)
      OBVIOUS
    <3>2. whole.isa = "isa" => disk'[<<"isa", key>>] = "new"
      BY <1>3, <2>3, <2>4, <2>7
    <3>3. whole.bin = "bin" => disk'[Binary("bin", t)] = "new"
      BY <1>3, <2>4, <2>7, <2>8
    <3>4. t \in good' => S = {}
      BY <1>1, <2>1
    <3>. QED BY <2>4, <2>6, <3>2, <3>3, <3>4 DEF MadeEntry
  <2>10. \A key \in Key : disk'[<<"tmpisa", key>>] # disk[<<"tmpisa", key>>] =>
            key \in D /\ IsaKind = "tmpisa"
    <3>1. SUFFICES ASSUME NEW key \in Key, disk'[<<"tmpisa", key>>] # disk[<<"tmpisa", key>>]
                   PROVE  key \in D /\ IsaKind = "tmpisa"
      OBVIOUS
    <3>2. <<"tmpisa", key>> \in BinaryFiles(t, il) \cup I
      BY <1>3, <2>7, <3>1
    <3>3. <<"tmpisa", key>> \in I
      BY <1>2, <1>4, <1>5, <3>2
    <3>. QED BY <2>3, <3>3
  <2>11. disk'[Binary("tmpbin", t)] # disk[Binary("tmpbin", t)] => ~Asked("bin")
    <3>1. Binary("tmpbin", t) \notin I
      BY <1>2, <1>3, <2>3 DEF Kind
    <3>. QED BY <1>2, <1>3, <1>4, <1>5, <2>7, <3>1
  <2>12. \A key \in D : key \notin DOMAIN meta
    <3>1. \A key \in D : key[1] = t
      BY DEF D
    <3>. QED BY <1>1, <3>1
  <2>13. t \in good' => S = {}
    BY <1>1, <2>1
  <2>. QED BY <2>1, <2>4, <2>5, <2>6, <2>9, <2>10, <2>11, <2>12, <2>13 DEF RoundAdds
<1>. QED BY <1>6, <1>7, <1>8, <1>9, <1>10, <1>11

\* A round keeps the invariant.
LEMMA RoundKeepsInv ==
    ASSUME OfflineAssumption, Inv, NEW t \in todo, RoundStep(t), RoundAdds(t)
    PROVE  Inv'
<1>1. /\ TypeOK /\ pc = "compile" /\ pc' = pc /\ cmd' = cmd /\ targets' = targets /\ t \in targets /\ t \in Target
      /\ named' = named /\ matched' = matched /\ reported' = reported /\ todo' = todo \ {t}
  BY DEF Inv, RoundStep, list, TypeOK
<1>2. TypeOK'
  BY <1>1 DEF Inv, TypeOK, RoundStep, EntryMap, DiskMap
<1>3. NamesInv'
  BY <1>1 DEF Inv, NamesInv
<1>4. /\ t \notin good /\ \A key \in DOMAIN meta : key[1] # t
      /\ \A key \in DOMAIN meta : key \in DOMAIN meta' /\ meta'[key] = meta[key]
      /\ \A key \in DOMAIN meta' \ DOMAIN meta : key[1] = t
  BY DEF Inv, TodoInv, RoundStep
<1>5. TodoInv'
  <2>1. good' \cap todo' = {}
    BY <1>1 DEF Inv, TodoInv, RoundStep
  <2>2. \A key \in DOMAIN meta' : key[1] \notin todo'
    BY <1>1, <1>4 DEF Inv, TodoInv
  <2>. QED BY <1>1, <2>1, <2>2 DEF TodoInv
<1>6. StatusInv'
  <2>1. NeedsIsa' = NeedsIsa /\ Asked("csv")' = Asked("csv")
    BY <1>1 DEF NeedsIsa, Asked
  <2>2. SUFFICES ASSUME status' PROVE targets' \ todo' \subseteq WholeTargets'
    BY <1>1 DEF StatusInv
  <2>3. targets \ todo \subseteq WholeTargets
    BY <1>1, <2>2 DEF Inv, StatusInv, RoundStep
  <2>4. WholeTargets \subseteq WholeTargets'
    BY <2>1 DEF WholeTargets, RoundStep
  <2>5. t \in WholeTargets'
    BY <2>1, <2>2 DEF RoundAdds, WholeTargets
  <2>. QED BY <1>1, <2>3, <2>4, <2>5
<1>7. AnalyzedInv'
  <2>1. IsaKind' = IsaKind /\ \A k : Requested(k)' = Requested(k)
    BY <1>1 DEF IsaKind, Asked, Requested
  <2>2. Fine \subseteq Fine'
    BY <1>4 DEF Fine
  <2>3. ASSUME NEW u \in good', NEW k \in Kernel, Requested(k), <<IsaKind, <<u, k>>>> \notin broken'
        PROVE  <<u, k>> \in Fine'
    <3>1. CASE u = t
      BY <2>3, <3>1 DEF RoundAdds, Fine
    <3>2. CASE u # t
      <4>1. u \in good /\ <<IsaKind, <<u, k>>>> \notin broken
        BY <2>3, <3>2 DEF RoundStep
      <4>. QED BY <2>2, <2>3, <4>1 DEF Inv, AnalyzedInv
    <3>. QED BY <3>1, <3>2
  <2>4. \A kind \in {"livereg", "sgpr", "cfg"} : pc' \notin After[kind]
    BY <1>1 DEF After
  <2>5. \A u \in good', k \in Kernel :
            Requested(k)' /\ <<IsaKind', <<u, k>>>> \notin broken' => <<u, k>> \in Fine'
    BY <2>1, <2>3
  <2>. QED BY <2>4, <2>5 DEF AnalyzedInv
<1>8. TempInv'
  <2>1. \A key \in Key : disk'[<<"tmpisa", key>>] # "none" => key \in DOMAIN meta' /\ meta'[key].isa = "tmpisa"
    BY <1>1, <1>4 DEF Inv, TempInv, RoundAdds
  <2>2. ASSUME NEW u \in good', NEW key \in DOMAIN meta', key[1] = u
        PROVE  meta'[key].tmp = ~Asked("bin")
    <3>1. CASE u = t
      BY <1>4, <2>2, <3>1 DEF RoundAdds, MadeEntry
    <3>2. CASE u # t
      BY <1>4, <2>2, <3>2 DEF Inv, TempInv, RoundStep
    <3>. QED BY <3>1, <3>2
  <2>3. ASSUME NEW u \in Target, disk'[Binary("tmpbin", u)] # "none" PROVE ~Asked("bin")
    <3>1. CASE u = t
      BY <1>1, <2>3, <3>1 DEF RoundAdds, Inv, TempInv
    <3>2. CASE u # t
      <4>1. Binary("tmpbin", u) \in File /\ \A kind, k : Binary("tmpbin", u) # <<kind, <<t, k>>>>
        BY <3>2 DEF Binary, File, Kind, Key
      <4>2. disk'[Binary("tmpbin", u)] = disk[Binary("tmpbin", u)]
        BY <4>1 DEF RoundStep
      <4>. QED BY <2>3, <4>2 DEF Inv, TempInv
    <3>. QED BY <3>1, <3>2
  <2>4. Asked("bin")' = Asked("bin")
    BY <1>1 DEF Asked
  <2>5. NoStrayTempFile'
    BY <1>1 DEF NoStrayTempFile
  <2>. QED BY <2>1, <2>2, <2>3, <2>4, <2>5 DEF TempInv
<1>9. ListedFilesAreThere'
  <2>1. SUFFICES ASSUME NEW key \in Fine'
                 PROVE  LET e == meta'[key]
                            IsThere(kind) == There(kind, key)
                        IN /\ e.isa = "isa" => New("isa", key)
                           /\ e.bin = "bin" => disk'[Binary("bin", key[1])] = "new"
                           /\ e.csv => New("csv", key)
                           /\ e.stats => New("stats", key)
                           /\ e.livereg # "none" => IsThere("livereg")
                           /\ e.sgpr => IsThere("sgpr")
    BY DEF ListedFilesAreThere, There, New, Binary
  <2>2. CASE key \in DOMAIN meta
    <3>1. key \in Fine /\ meta'[key] = meta[key] /\ key[1] # t /\ key \in Key
      BY <1>1, <1>4, <2>1, <2>2 DEF Fine, TypeOK
    <3>2. \A kind \in Kind : <<kind, key>> \in File /\ \A other, k : <<kind, key>> # <<other, <<t, k>>>>
      BY <3>1 DEF File
    <3>3. Binary("bin", key[1]) \in File /\ \A other, k : Binary("bin", key[1]) # <<other, <<t, k>>>>
      BY <3>1 DEF File, Kind, Key, Binary
    <3>4. /\ \A kind \in Kind : disk'[<<kind, key>>] = disk[<<kind, key>>]
          /\ disk'[Binary("bin", key[1])] = disk[Binary("bin", key[1])]
      BY <3>2, <3>3 DEF RoundStep
    <3>5. {"isa", "csv", "stats", "livereg", "sgpr"} \subseteq Kind
      BY DEF Kind
    <3>6. broken \subseteq broken'
      BY DEF RoundStep
    <3>. QED BY <3>1, <3>4, <3>5, <3>6 DEF Inv, ListedFilesAreThere, There, New
  <2>3. CASE key \notin DOMAIN meta
    <3>1. MadeEntry(t, key) /\ key[1] = t
      BY <1>4, <2>1, <2>3 DEF RoundAdds, Fine
    <3>. QED BY <3>1 DEF MadeEntry, New
  <2>. QED BY <2>2, <2>3
<1>. QED BY <1>2, <1>3, <1>5, <1>6, <1>7, <1>8, <1>9 DEF Inv

\* A pass keeps the invariant.
LEMMA PassKeepsInv ==
    ASSUME Inv, PassStep
    PROVE  Inv'
<1>1. /\ TypeOK /\ pc \in DOMAIN NextPass /\ pc' = NextPass[pc] /\ cmd' = cmd /\ targets' = targets
      /\ named' = named /\ matched' = matched /\ reported' = reported /\ todo' = todo
      /\ unnamed' = unnamed /\ compiled' = compiled /\ good' = good
  BY DEF Inv, PassStep, list
<1>2. pc \notin {"names", "compile", "done"} /\ pc' \notin {"names", "compile", "csv", "done"} /\ pc' \in Places
  BY <1>1 DEF NextPass, Places
<1>3. TypeOK'
  BY <1>1, <1>2 DEF TypeOK, PassStep, EntryMap, DiskMap
<1>4. NamesInv'
  BY <1>1, <1>2 DEF Inv, NamesInv
<1>5. TodoInv'
  BY <1>1, <1>2 DEF Inv, TodoInv, PassStep
<1>6. NeedsIsa' = NeedsIsa /\ (\A o : Asked(o)' = Asked(o)) /\ IsaKind' = IsaKind /\ IsMultiple' = IsMultiple
      /\ \A k : Requested(k)' = Requested(k)
  BY <1>1 DEF NeedsIsa, Asked, IsaKind, IsMultiple, Requested
<1>7. StatusInv'
  BY <1>1, <1>2, <1>6 DEF Inv, StatusInv, WholeTargets, PassStep
<1>8. Fine' = Fine
  BY DEF Fine, PassStep, SameMade
<1>9. Fine \subseteq Key /\ \A kind \in Kind, key \in Key : <<kind, key>> \in File
  BY <1>1, FineKeys DEF File
<1>10. AnalyzedInv'
  <2>1. \A t \in good', k \in Kernel :
            Requested(k)' /\ <<IsaKind', <<t, k>>>> \notin broken' => <<t, k>> \in Fine'
    BY <1>1, <1>6, <1>8 DEF Inv, AnalyzedInv, PassStep
  <2>2. ASSUME NEW kind \in {"livereg", "sgpr", "cfg"}, pc' \in After[kind], IsMultiple, Asked(kind), NEW key \in Fine
        PROVE  disk'[<<kind, key>>] = "new" \/ <<kind, key>> \in broken'
    <3>1. pc = kind \/ pc \in After[kind]
      BY <1>1, <2>2 DEF After, NextPass
    <3>2. CASE pc = kind
      BY <2>2, <3>2 DEF PassStep, PostProcess, New
    <3>3. CASE pc \in After[kind]
      <4>1. disk[<<kind, key>>] = "new" \/ <<kind, key>> \in broken
        BY <2>2, <3>3 DEF Inv, AnalyzedInv
      <4>2. <<kind, key>> \in File
        BY <1>9, <2>2 DEF Kind
      <4>. QED BY <4>1, <4>2 DEF PassStep
    <3>. QED BY <3>1, <3>2, <3>3
  <2>. QED BY <1>6, <1>8, <2>1, <2>2 DEF AnalyzedInv
<1>11. TempInv'
  <2>1. \A f \in File : f[1] \in Made => disk'[f] = disk[f]
    BY DEF PassStep
  <2>2. \A key \in Key : disk'[<<"tmpisa", key>>] = disk[<<"tmpisa", key>>]
    BY <1>9, <2>1 DEF Kind, Made
  <2>3. \A t \in Target : disk'[Binary("tmpbin", t)] = disk[Binary("tmpbin", t)]
    <3>1. \A t \in Target : Binary("tmpbin", t) \in File /\ Binary("tmpbin", t)[1] = "tmpbin"
      BY DEF Binary, File, Key, Kind
    <3>. QED BY <2>1, <3>1 DEF Made
  <2>4. DOMAIN meta' = DOMAIN meta /\ \A key \in DOMAIN meta : meta'[key].isa = meta[key].isa /\ meta'[key].tmp = meta[key].tmp
    BY DEF PassStep, SameMade
  <2>5. NoStrayTempFile'
    BY <1>2 DEF NoStrayTempFile
  <2>. QED BY <1>1, <1>2, <1>6, <2>2, <2>3, <2>4, <2>5 DEF Inv, TempInv
<1>12. ListedFilesAreThere'
  <2>1. SUFFICES ASSUME NEW key \in Fine
                 PROVE  LET e == meta'[key]
                        IN /\ e.isa = "isa" => New("isa", key)
                           /\ e.bin = "bin" => disk'[Binary("bin", key[1])] = "new"
                           /\ e.csv => New("csv", key)
                           /\ e.stats => New("stats", key)
                           /\ e.livereg # "none" => There("livereg", key)
                           /\ e.sgpr => There("sgpr", key)
    BY <1>8 DEF ListedFilesAreThere, There, New, Binary
  <2>2. key \in DOMAIN meta /\ key \in Key
    BY <1>9 DEF Fine
  <2>3. \A f \in File : disk'[f] = disk[f] \/ disk'[f] = "new"
    BY DEF PassStep
  <2>4. \A kind \in Kind : disk'[<<kind, key>>] = disk[<<kind, key>>] \/ disk'[<<kind, key>>] = "new"
    BY <1>9, <2>2, <2>3
  <2>5. disk'[Binary("bin", key[1])] = disk[Binary("bin", key[1])] \/ disk'[Binary("bin", key[1])] = "new"
    <3>1. Binary("bin", key[1]) \in File
      BY <2>2 DEF Binary, File, Key, Kind
    <3>. QED BY <2>3, <3>1
  <2>6. {"isa", "csv", "stats", "livereg", "sgpr"} \subseteq Kind
    BY DEF Kind
  <2>7. /\ meta'[key].isa = meta[key].isa /\ meta'[key].bin = meta[key].bin
        /\ meta'[key].csv => meta[key].csv \/ New("csv", key)
        /\ meta'[key].stats => meta[key].stats \/ New("stats", key)
        /\ meta'[key].livereg # "none" => meta[key].livereg # "none" \/ There("livereg", key)
        /\ meta'[key].sgpr => meta[key].sgpr \/ There("sgpr", key)
        /\ broken \subseteq broken'
    BY <2>2 DEF PassStep, SameMade
  <2>8. /\ meta[key].isa = "isa" => disk[<<"isa", key>>] = "new"
        /\ meta[key].bin = "bin" => disk[Binary("bin", key[1])] = "new"
        /\ meta[key].csv => disk[<<"csv", key>>] = "new"
        /\ meta[key].stats => disk[<<"stats", key>>] = "new"
        /\ meta[key].livereg # "none" =>
              disk[<<"livereg", key>>] = "new" \/ (disk[<<"livereg", key>>] = "old" /\ <<"livereg", key>> \in broken)
        /\ meta[key].sgpr =>
              disk[<<"sgpr", key>>] = "new" \/ (disk[<<"sgpr", key>>] = "old" /\ <<"sgpr", key>> \in broken)
    BY DEF Inv, ListedFilesAreThere
  <2>9. /\ meta[key].isa = "isa" => New("isa", key)
        /\ meta[key].bin = "bin" => disk'[Binary("bin", key[1])] = "new"
        /\ meta[key].csv => New("csv", key)
        /\ meta[key].stats => New("stats", key)
        /\ meta[key].livereg # "none" => There("livereg", key)
        /\ meta[key].sgpr => There("sgpr", key)
    BY <2>4, <2>5, <2>6, <2>7, <2>8 DEF New, There
  <2>. QED BY <2>7, <2>9
<1>. QED BY <1>3, <1>4, <1>5, <1>7, <1>10, <1>11, <1>12 DEF Inv

\* Matching a name keeps the invariant.
LEMMA MatchKeepsInv == ASSUME OfflineAssumption, Inv, MatchName PROVE Inv'
<1>. DEFINE n == cmd.names[named + 1]
<1>1. /\ TypeOK /\ NamesInv /\ pc = "names" /\ pc' = pc /\ cmd' = cmd /\ named' = named + 1 /\ named < Len(cmd.names)
      /\ named \in Nat
      /\ targets \subseteq targets' /\ targets' \subseteq targets \cup ({n} \cap Target)
      /\ reported \subseteq reported' /\ reported' \subseteq reported \cup {n}
      /\ matched' \in BOOLEAN
      /\ n \in targets' \cup reported' \/ matched
      /\ matched' => matched \/ n \in targets'
  BY DEF Inv, MatchName, TypeOK, Target
<1>2. cmd.names \in Seq(Name) /\ n \in Name
  BY <1>1 DEF TypeOK
<1>3. /\ todo' = todo /\ status' = status /\ meta' = meta /\ disk' = disk
      /\ unnamed' = unnamed /\ compiled' = compiled /\ good' = good /\ broken' = broken
      /\ empty' = empty /\ streams' = streams
  BY DEF MatchName, files, history
<1>4. TypeOK'
  BY <1>1, <1>2, <1>3 DEF TypeOK, Target, Name
<1>5. NamesInv'
  <2>1. named' <= Len(cmd.names)
    BY <1>1, <1>2
  <2>2. matched' => \E j \in 1 .. named' : cmd.names[j] \in targets'
    BY <1>1 DEF NamesInv
  <2>3. ASSUME NEW i \in 1 .. named'
        PROVE  \/ cmd.names[i] \in targets' \cup reported'
               \/ \E j \in 1 .. i - 1 : cmd.names[j] \in targets'
    <3>1. CASE i \in 1 .. named
      BY <1>1, <3>1 DEF NamesInv
    <3>2. CASE i = named + 1
      BY <1>1, <3>2 DEF NamesInv
    <3>. QED BY <1>1, <3>1, <3>2
  <2>. QED BY <1>1, <2>1, <2>2, <2>3 DEF NamesInv
<1>6. TodoInv' /\ StatusInv'
  BY <1>1, <1>3 DEF Inv, TodoInv, StatusInv
<1>7. AnalyzedInv'
  BY <1>1, <1>3 DEF Inv, TodoInv, AnalyzedInv, After
<1>8. TempInv'
  BY <1>1, <1>3 DEF Inv, TempInv, NoStrayTempFile, Asked
<1>9. ListedFilesAreThere'
  BY <1>1, <1>3 DEF Inv, ListedFilesAreThere, Fine, TodoInv
<1>. QED BY <1>4, <1>5, <1>6, <1>7, <1>8, <1>9 DEF Inv

\* Starting the compilation keeps the invariant.
LEMMA StartKeepsInv == ASSUME OfflineAssumption, Inv, StartCompile PROVE Inv'
<1>1. /\ TypeOK /\ NamesInv /\ TodoInv /\ pc = "names" /\ pc' \in {"compile", "stats"} /\ cmd' = cmd /\ named' = named
      /\ named = Len(cmd.names) /\ matched' = matched /\ reported' = reported
      /\ targets' = IF cmd.names = <<>> THEN {Default} ELSE targets
      /\ todo' = targets' /\ (pc' = "stats" => targets' = {}) /\ status' \in BOOLEAN
      /\ meta' = meta /\ disk' = disk
      /\ unnamed' = unnamed /\ compiled' = compiled /\ good' = good /\ broken' = broken
      /\ empty' = empty /\ streams' = streams
  BY DEF Inv, StartCompile, files, history
<1>2. cmd.names \in Seq(Name) /\ Default \in Target /\ targets \subseteq Target
  BY <1>1 DEF TypeOK, OfflineAssumption, Target
<1>3. unnamed = {} /\ compiled = {} /\ good = {} /\ DOMAIN meta = {}
  BY <1>1 DEF TodoInv
<1>4. TypeOK'
  BY <1>1, <1>2, <1>3 DEF TypeOK, Places
<1>5. NamesInv'
  <2>1. CASE cmd.names = <<>>
    BY <1>1, <2>1 DEF NamesInv
  <2>2. CASE cmd.names # <<>>
    BY <1>1, <2>2 DEF NamesInv
  <2>. QED BY <2>1, <2>2
<1>6. TodoInv' /\ StatusInv'
  BY <1>1, <1>3 DEF TodoInv, StatusInv
<1>7. AnalyzedInv'
  BY <1>1, <1>3 DEF AnalyzedInv, After
<1>8. TempInv'
  BY <1>1, <1>3 DEF Inv, TempInv, NoStrayTempFile, Asked
<1>9. ListedFilesAreThere'
  BY <1>1, <1>3 DEF ListedFilesAreThere, Fine
<1>. QED BY <1>4, <1>5, <1>6, <1>7, <1>8, <1>9 DEF Inv

\* The end of the compilation keeps the invariant.
LEMMA EndCompileKeepsInv == ASSUME OfflineAssumption, Inv, EndCompile PROVE Inv'
<1>1. /\ pc = "compile" /\ todo = {} /\ pc' = IF Asked("csv") /\ (status \/ Cardinality(targets) > 1) THEN "csv" ELSE "stats"
      /\ cmd' = cmd /\ named' = named /\ matched' = matched /\ targets' = targets /\ reported' = reported
      /\ todo' = todo /\ status' = status /\ meta' = meta /\ disk' = disk
      /\ unnamed' = unnamed /\ compiled' = compiled /\ good' = good /\ broken' = broken
      /\ empty' = empty /\ streams' = streams
  BY DEF EndCompile, list, files, history
<1>2. TypeOK'
  BY <1>1 DEF Inv, TypeOK, Places
<1>3. NamesInv' /\ TodoInv'
  BY <1>1 DEF Inv, NamesInv, TodoInv
<1>4. StatusInv'
  BY <1>1 DEF Inv, StatusInv, WholeTargets, NeedsIsa, Asked
<1>5. AnalyzedInv'
  BY <1>1 DEF Inv, AnalyzedInv, After, Fine, Requested, IsaKind, Asked, IsMultiple
<1>6. TempInv' /\ ListedFilesAreThere'
  BY <1>1 DEF Inv, TempInv, NoStrayTempFile, ListedFilesAreThere, Fine, Asked
<1>. QED BY <1>2, <1>3, <1>4, <1>5, <1>6 DEF Inv

\* The clean-up keeps the invariant, and leaves no temp file that an entry
\* knows.
LEMMA CleanupKeepsInv == ASSUME OfflineAssumption, Inv, DeleteTempFiles PROVE Inv'
<1>. DEFINE B == {Binary("tmpbin", key[1]) : key \in {l \in DOMAIN meta : meta[l].tmp}}
            I == PassFiles("tmpisa", {l \in DOMAIN meta : meta[l].isa = "tmpisa"})
            D == (B \cup I) \ empty
<1>1. /\ pc = "cleanup" /\ pc' = "done" /\ cmd' = cmd /\ named' = named /\ matched' = matched /\ targets' = targets
      /\ reported' = reported /\ todo' = todo /\ status' = status /\ meta' = meta
      /\ disk' = Deleted(disk, D)
      /\ unnamed' = unnamed /\ compiled' = compiled /\ good' = good /\ broken' = broken
      /\ empty' = empty /\ streams' = streams
  BY DEF DeleteTempFiles, list, history
<1>2. TypeOK /\ disk \in DiskMap /\ DOMAIN meta \subseteq Key
  BY TypeParts DEF Inv, TypeOK
<1>3. /\ \A f \in B : f[1] = "tmpbin"
      /\ \A f \in I : f[1] = "tmpisa"
      /\ \A key \in DOMAIN meta : meta[key].isa = "tmpisa" => <<"tmpisa", key>> \in I
      /\ \A key \in DOMAIN meta : meta[key].tmp => Binary("tmpbin", key[1]) \in B
      /\ \A f : f \in D <=> (f \in B \/ f \in I) /\ f \notin empty
  BY DEF PassFiles, Binary
<1>. HIDE DEF B, I, D
<1>4. /\ disk' \in DiskMap
      /\ \A f \in File \cup {SessionFile} : disk'[f] = IF f \in D THEN "none" ELSE disk[f]
  BY <1>1, <1>2, DiskKeeps
<1>5. TypeOK'
  BY <1>1, <1>4 DEF Inv, TypeOK, Places, DiskMap
<1>6. NamesInv' /\ TodoInv'
  BY <1>1 DEF Inv, NamesInv, TodoInv
<1>7. (\A o : Asked(o)' = Asked(o)) /\ NeedsIsa' = NeedsIsa /\ IsaKind' = IsaKind /\ IsMultiple' = IsMultiple
      /\ (\A k : Requested(k)' = Requested(k)) /\ Fine' = Fine
  BY <1>1 DEF Asked, NeedsIsa, IsaKind, IsMultiple, Requested, Fine
<1>8. StatusInv'
  BY <1>1, <1>7 DEF Inv, StatusInv, WholeTargets
<1>9. \A kind \in Kind \ {"tmpbin", "tmpisa"}, key \in Key : disk'[<<kind, key>>] = disk[<<kind, key>>]
  <2>1. \A kind \in Kind, key \in Key : <<kind, key>> \in File
    BY DEF File
  <2>. QED BY <1>3, <1>4, <2>1
<1>10. AnalyzedInv'
  <2>1. Fine \subseteq Key /\ {"livereg", "sgpr", "cfg"} \subseteq Kind \ {"tmpbin", "tmpisa"}
    BY <1>2, FineKeys DEF Kind
  <2>2. \A kind \in {"livereg", "sgpr", "cfg"} : pc \in After[kind]
    BY <1>1 DEF After
  <2>. QED BY <1>1, <1>7, <1>9, <2>1, <2>2 DEF Inv, AnalyzedInv
<1>11. NoStrayTempFile'
  <2>1. ASSUME NEW key \in Key 
        PROVE  disk'[<<"tmpisa", key>>] = "none" \/ <<"tmpisa", key>> \in empty
    <3>1. <<"tmpisa", key>> \in File
      BY DEF File, Kind
    <3>2. disk[<<"tmpisa", key>>] # "none" => <<"tmpisa", key>> \in I
      BY <1>1, <1>3 DEF Inv, TempInv
    <3>. QED BY <1>3, <1>4, <3>1, <3>2
  <2>2. ASSUME NEW t \in good, NEW key \in DOMAIN meta, key[1] = t
        PROVE  disk'[Binary("tmpbin", t)] = "none" \/ Binary("tmpbin", t) \in empty
    <3>1. t \in Target
      BY <1>2 DEF TypeOK
    <3>2. Binary("tmpbin", t) \in File
      BY <3>1 DEF Binary, File, Key, Kind
    <3>3. disk[Binary("tmpbin", t)] # "none" => Binary("tmpbin", t) \in B
      BY <1>3, <2>2, <3>1 DEF Inv, TempInv
    <3>. QED BY <1>3, <1>4, <3>2, <3>3
  <2>. QED BY <1>1, <2>1, <2>2 DEF NoStrayTempFile, Binary
<1>12. TempInv'
  <2>1. \A t \in Target : Binary("tmpbin", t) \in File
    BY DEF Binary, File, Key, Kind
  <2>2. \A t \in Target : disk'[Binary("tmpbin", t)] # "none" => ~Asked("bin")
    BY <1>4, <2>1 DEF Inv, TempInv
  <2>. QED BY <1>1, <1>7, <1>11, <2>2 DEF Inv, TempInv
<1>13. ListedFilesAreThere'
  <2>1. Fine \subseteq Key /\ {"isa", "csv", "stats", "livereg", "sgpr", "bin"} \subseteq Kind \ {"tmpbin", "tmpisa"}
    BY <1>2, FineKeys DEF Kind
  <2>2. \A key \in Key : disk'[Binary("bin", key[1])] = disk[Binary("bin", key[1])]
    <3>1. \A key \in Key : <<key[1], NoKernel>> \in Key
      BY DEF Key
    <3>. QED BY <1>9, <2>1, <3>1 DEF Binary
  <2>3. \A key \in Fine :
            /\ disk'[Binary("bin", key[1])] = disk[Binary("bin", key[1])]
            /\ \A kind \in {"isa", "csv", "stats", "livereg", "sgpr"} : disk'[<<kind, key>>] = disk[<<kind, key>>]
    BY <1>9, <2>1, <2>2
  <2>4. ListedFilesAreThere
    BY DEF Inv
  <2>5. SUFFICES ASSUME NEW key \in Fine
                 PROVE  LET e == meta[key]
                        IN /\ e.isa = "isa" => New("isa", key)
                           /\ e.bin = "bin" => disk'[Binary("bin", key[1])] = "new"
                           /\ e.csv => New("csv", key)
                           /\ e.stats => New("stats", key)
                           /\ e.livereg # "none" => There("livereg", key)
                           /\ e.sgpr => There("sgpr", key)
    BY <1>1, <1>7 DEF ListedFilesAreThere, There, New, Binary
  <2>6. /\ meta[key].isa = "isa" => disk[<<"isa", key>>] = "new"
        /\ meta[key].bin = "bin" => disk[Binary("bin", key[1])] = "new"
        /\ meta[key].csv => disk[<<"csv", key>>] = "new"
        /\ meta[key].stats => disk[<<"stats", key>>] = "new"
        /\ meta[key].livereg # "none" =>
              disk[<<"livereg", key>>] = "new" \/ (disk[<<"livereg", key>>] = "old" /\ <<"livereg", key>> \in broken)
        /\ meta[key].sgpr =>
              disk[<<"sgpr", key>>] = "new" \/ (disk[<<"sgpr", key>>] = "old" /\ <<"sgpr", key>> \in broken)
    BY <2>4 DEF ListedFilesAreThere
  <2>7. /\ disk'[Binary("bin", key[1])] = disk[Binary("bin", key[1])]
        /\ disk'[<<"isa", key>>] = disk[<<"isa", key>>] /\ disk'[<<"csv", key>>] = disk[<<"csv", key>>]
        /\ disk'[<<"stats", key>>] = disk[<<"stats", key>>] /\ disk'[<<"livereg", key>>] = disk[<<"livereg", key>>]
        /\ disk'[<<"sgpr", key>>] = disk[<<"sgpr", key>>]
    BY <2>3
  <2>. QED BY <1>1, <2>6, <2>7 DEF There, New
<1>. QED BY <1>5, <1>6, <1>8, <1>10, <1>12, <1>13 DEF Inv

\* Every step keeps the invariant.
LEMMA NextInv == ASSUME OfflineAssumption, Inv, [Next]_vars PROVE Inv'
<1>1. CASE MatchName
  BY <1>1, MatchKeepsInv
<1>2. CASE StartCompile
  BY <1>2, StartKeepsInv
<1>3. CASE CompileTarget
  <2>1. PICK t \in todo, il \in BOOLEAN, S \in SUBSET Kernel, W \in SUBSET Kernel :
            \/ NoBinaryName(t) \/ CompileFails(t) \/ CompileOnly(t, il) \/ DisassembleFails(t, il)
            \/ NoKernelIsa(t, il) \/ Split(t, il, S, W)
    BY <1>3, Zenon DEF CompileTarget
  <2>2. TypeOK /\ TodoInv
    BY DEF Inv
  <2>3. RoundStep(t)
    BY <2>1, <2>2, RoundIsRoundStep
  <2>4. RoundAdds(t)
    BY <2>1, <2>2, RoundIsRoundAdds
  <2>. QED BY <2>3, <2>4, RoundKeepsInv
<1>4. CASE EndCompile
  BY <1>4, EndCompileKeepsInv
<1>5. CASE \/ ParseToCsv \/ ExtractStatistics \/ PerformLiveVgprAnalysis \/ PerformLiveSgprAnalysis
           \/ ExtractCFG \/ ExtractMetadata \/ SkipPass \/ GenerateSessionMetadata
  <2>1. TypeOK
    BY DEF Inv
  <2>2. PassStep
    BY <1>5, <2>1, CsvPass, StatisticsPass, VgprPass, SgprPass, CfgPass, OtherPass
  <2>. QED BY <2>2, PassKeepsInv
<1>6. CASE DeleteTempFiles
  BY <1>6, CleanupKeepsInv
<1>7. CASE UNCHANGED vars
  <2>. USE <1>7 DEF vars
  <2>1. TypeOK' /\ NamesInv' /\ TodoInv'
    BY DEF Inv, TypeOK, NamesInv, TodoInv
  <2>2. StatusInv' /\ AnalyzedInv'
    BY DEF Inv, StatusInv, WholeTargets, NeedsIsa, Asked, AnalyzedInv, Requested, IsaKind, Fine, IsMultiple
  <2>3. TempInv' /\ ListedFilesAreThere'
    BY DEF Inv, TempInv, NoStrayTempFile, Asked, ListedFilesAreThere, Fine
  <2>. QED BY <2>1, <2>2, <2>3 DEF Inv
<1>. QED BY <1>1, <1>2, <1>3, <1>4, <1>5, <1>6, <1>7 DEF Next

\* The inductive invariant holds in every state.
THEOREM Invariant == Spec => []Inv
<1>1. Init => Inv
  BY InitInv, OfflineAssumption
<1>2. Inv /\ [Next]_vars => Inv'
  BY NextInv, OfflineAssumption
<1>. QED BY <1>1, <1>2, PTL DEF Spec

-----------------------------------------------------------------------------
(* The properties.                                                          *)

\* Every variable keeps to its values.
THEOREM TypeCorrect == Spec => []TypeOK
<1>1. Inv => TypeOK
  BY DEF Inv
<1>. QED BY <1>1, Invariant, PTL

\* A name that is neither compiled for nor reported stands behind one that was
\* matched, in a command line of any length.
THEOREM NamesAccounted == Spec => []NoNameLost
<1>1. Inv => NoNameLost
  BY DEF Inv, NamesInv, NoNameLost, TypeOK
<1>. QED BY <1>1, Invariant, PTL

\* Compile returns true only if all targets were compiled and taken apart, with
\* the two exceptions that SuccessIsWhole names.
THEOREM WholeSuccess == Spec => []SuccessIsWhole
<1>1. Inv => SuccessIsWhole
  BY DEF Inv, StatusInv, TodoInv, WholeTargets, SuccessIsWhole
<1>. QED BY <1>1, Invariant, PTL

\* A target that fails takes nothing from the others.
THEOREM LocalFailure == Spec => []FailureIsLocal
<1>1. Inv => FailureIsLocal
  <2>1. SUFFICES ASSUME Inv, pc = "done", IsMultiple, NEW t \in good, NEW k \in Kernel,
                        NEW kind \in {"livereg", "sgpr", "cfg"}, Requested(k), Asked(kind),
                        <<IsaKind, <<t, k>>>> \notin broken
                 PROVE  disk[<<kind, <<t, k>>>>] = "new" \/ <<kind, <<t, k>>>> \in broken
    BY DEF FailureIsLocal
  <2>2. <<t, k>> \in Fine
    BY <2>1 DEF Inv, AnalyzedInv
  <2>3. pc \in After[kind]
    BY <2>1 DEF After
  <2>. QED BY <2>1, <2>2, <2>3 DEF Inv, AnalyzedInv
<1>. QED BY <1>1, Invariant, PTL

\* Of the temp files that are made for ISA and binaries, only empty ones and
\* those that no entry hands over to DeleteTempFiles stay behind.
THEOREM TempFilesGone == Spec => []NoStrayTempFile
<1>1. Inv => NoStrayTempFile
  BY DEF Inv, TempInv
<1>. QED BY <1>1, Invariant, PTL

\* What the session metadata lists is there.
THEOREM ListedThere == Spec => []ListedFilesAreThere
<1>1. Inv => ListedFilesAreThere
  BY DEF Inv
<1>. QED BY <1>1, Invariant, PTL
=============================================================================
