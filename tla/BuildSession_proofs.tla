-------------------------- MODULE BuildSession_proofs --------------------------
(***************************************************************************)
(* Proofs about BuildSession, for any number of builds, of targets and of  *)
(* files and for every configuration.                                      *)
(***************************************************************************)
EXTENDS BuildSession, SequenceTheorems, TLAPS

(* Type correctness *)

\* The targets of a project are targets, and there is one.
LEMMA TargetFacts ==
    ASSUME TypeOK
    PROVE  /\ 1 \in Targets
           /\ ProjectTargets \subseteq Targets
<1>1. setup \in SetupType
  BY SessionAssumption DEF TypeOK
<1>2. setup.targets \in 1 .. NumTargets
  BY <1>1 DEF SetupType
<1>3. QED
  BY <1>2, SessionAssumption DEF ProjectTargets, Targets

\* Builds are artifacts, and the empty folder is a folder.
LEMMA ArtifactFacts ==
    /\ Builds \subseteq Artifact
    /\ NoArtifacts \in [Targets -> Artifact]
BY SessionAssumption DEF Builds, Artifact, NoArtifacts

\* A thread starts with well-typed local variables.
LEMMA NewJobType ==
    ASSUME TypeOK, NEW only \in BOOLEAN
    PROVE  NewJob(only) \in JobType
<1>1. ProjectTargets \in SUBSET Targets /\ {} \in SUBSET Targets /\ 1 \in Targets
  BY TargetFacts
<1>2. 0 \in Artifact
  BY SessionAssumption DEF Artifact
<1>3. QED
  BY <1>1, <1>2, Zenon DEF NewJob, JobType

\* Starting a build keeps the types of what it assigns.
LEMMA StartBuildType ==
    ASSUME TypeOK, NEW only \in BOOLEAN, StartBuild(only)
    PROVE  /\ started' \in 0 .. MaxBuilds
           /\ disk' \in [Targets -> Artifact]
           /\ outputs' \in [Targets -> Artifact]
           /\ pc' \in [Builds -> BuildingPc \cup EndedPc \cup {"unused"}]
           /\ job' \in [Builds -> JobType]
           /\ buildAction' \in BOOLEAN
           /\ cancelAction' \in BOOLEAN
           /\ homeAction' \in BOOLEAN
<1>1. started' \in 0 .. MaxBuilds
  BY SessionAssumption DEF StartBuild, TypeOK
<1>2. NoArtifacts \in [Targets -> Artifact]
  BY SessionAssumption DEF NoArtifacts, Artifact
<1>3. disk' \in [Targets -> Artifact] /\ outputs' \in [Targets -> Artifact]
  BY <1>2 DEF StartBuild, TypeOK
<1>4. pc' \in [Builds -> BuildingPc \cup EndedPc \cup {"unused"}]
  BY DEF StartBuild, TypeOK, BuildingPc
<1>5. job' \in [Builds -> JobType]
  BY NewJobType DEF StartBuild, TypeOK
<1>6. buildAction' \in BOOLEAN /\ cancelAction' \in BOOLEAN /\ homeAction' \in BOOLEAN
  BY Zenon DEF StartBuild
<1>7. QED
  BY <1>1, <1>3, <1>4, <1>5, <1>6

\* Initially the variables have their types.
LEMMA InitType == Init => TypeOK
<1> SUFFICES ASSUME Init PROVE TypeOK
  OBVIOUS
<1>1. setup \in SetupType
  BY SessionAssumption DEF Init
<1>2. 1 \in Targets /\ ProjectTargets \subseteq Targets
  BY <1>1, SessionAssumption DEF SetupType, ProjectTargets, Targets
<1>3. NewJob(FALSE) \in JobType
  BY <1>2, SessionAssumption DEF NewJob, JobType, Artifact
<1>4. job \in [Builds -> JobType]
  BY <1>3 DEF Init
<1>5. disk \in [Targets -> Artifact] /\ outputs \in [Targets -> Artifact]
  BY SessionAssumption DEF Init, NoArtifacts, Artifact
<1>6. pc \in [Builds -> BuildingPc \cup EndedPc \cup {"unused"}]
  BY DEF Init
<1>7. cli \in [Builds -> {"none", "running", "quiet", "printed", "built"}]
  BY DEF Init
<1>8. queue \in Seq(SignalType)
  BY DEF Init
<1>9. /\ atHome \in BOOLEAN /\ buildAction \in BOOLEAN /\ cancelAction \in BOOLEAN
      /\ homeAction \in BOOLEAN /\ cancelSignal \in BOOLEAN
  BY Zenon DEF Init
<1>10. started \in 0 .. MaxBuilds /\ files \in 0 .. MaxFiles
  BY SessionAssumption DEF Init
<1>11. setup \in Setups /\ orphans \subseteq Builds \X Targets /\ escaped \subseteq Builds \X Targets
       /\ cancelled \subseteq Builds /\ caught \subseteq Builds
  BY DEF Init
<1>12. QED
  BY <1>4, <1>5, <1>6, <1>7, <1>8, <1>9, <1>10, <1>11, Zenon DEF TypeOK

\* The variables of one thread keep their types when it moves on.
LEMMA GotoType ==
    ASSUME TypeOK, NEW b \in Builds, NEW l \in BuildingPc \cup EndedPc, Goto(b, l)
    PROVE  pc' \in [Builds -> BuildingPc \cup EndedPc \cup {"unused"}]
BY DEF Goto, TypeOK

LEMMA BuildOverType ==
    ASSUME TypeOK, NEW b \in Builds, NEW l \in EndedPc, BuildOver(b, l)
    PROVE  /\ pc' \in [Builds -> BuildingPc \cup EndedPc \cup {"unused"}]
           /\ job' \in [Builds -> JobType]
<1>1. NewJob(FALSE) \in JobType
  BY NewJobType
<1>2. QED
  BY <1>1, GotoType DEF BuildOver, TypeOK

LEMMA PostType ==
    ASSUME TypeOK, NEW b \in Builds,
           NEW kind \in {"success", "failure", "canceled"}, Post(kind, b)
    PROVE  queue' \in Seq(SignalType)
<1>1. [kind |-> kind, build |-> b] \in SignalType
  BY DEF SignalType
<1>2. QED
  BY <1>1 DEF Post, TypeOK

\* What the local variables of a thread are.
LEMMA JobFacts ==
    ASSUME TypeOK, NEW b \in Builds
    PROVE  /\ job \in [Builds -> JobType]
           /\ job[b].todo \in SUBSET Targets
           /\ job[b].gpus \in SUBSET Targets
           /\ job[b].target \in Targets
<1>1. job \in [Builds -> JobType]
  BY DEF TypeOK
<1>2. QED
  BY <1>1 DEF JobType

\* Assigning one of them keeps the types of all.
LEMMA JobUpdates ==
    ASSUME NEW threads \in [Builds -> JobType], NEW b \in Builds,
           NEW S \in SUBSET Targets, NEW t \in Targets, NEW r \in BOOLEAN
    PROVE  /\ [threads EXCEPT ![b].todo = S] \in [Builds -> JobType]
           /\ [threads EXCEPT ![b].target = t] \in [Builds -> JobType]
           /\ [threads EXCEPT ![b].ret = r] \in [Builds -> JobType]
           /\ [threads EXCEPT ![b].gpus = S] \in [Builds -> JobType]
<1>1. [threads[b] EXCEPT !.todo = S] \in JobType
  BY DEF JobType
<1>2. [threads[b] EXCEPT !.target = t] \in JobType
  BY DEF JobType
<1>3. [threads[b] EXCEPT !.ret = r] \in JobType
  BY Zenon DEF JobType
<1>4. [threads[b] EXCEPT !.gpus = S] \in JobType
  BY DEF JobType
<1>5. QED
  BY <1>1, <1>2, <1>3, <1>4

LEMMA ReadUpdate ==
    ASSUME NEW threads \in [Builds -> JobType], NEW b \in Builds, NEW a \in Artifact
    PROVE  [threads EXCEPT ![b].read = a] \in [Builds -> JobType]
<1>1. [threads[b] EXCEPT !.read = a] \in JobType
  BY DEF JobType
<1>2. QED
  BY <1>1

\* The result of a command keeps the types of the thread that waited for it.
LEMMA ResultType ==
    ASSUME TypeOK, NEW b \in Builds, NEW ok \in BOOLEAN, NEW add \in BOOLEAN
    PROVE  [job EXCEPT ![b].ret = ok,
                       ![b].gpus = IF add THEN @ \cup {job[b].target} ELSE @]
             \in [Builds -> JobType]
<1> DEFINE returned == [job EXCEPT ![b].ret = ok]
           gpus == IF add THEN job[b].gpus \cup {job[b].target} ELSE job[b].gpus
<1>1. returned \in [Builds -> JobType]
  BY JobFacts, JobUpdates
<1>2. gpus \in SUBSET Targets
  BY JobFacts
<1> HIDE DEF returned, gpus
<1>3. [returned EXCEPT ![b].gpus = gpus] \in [Builds -> JobType]
  BY <1>1, <1>2, JobFacts, JobUpdates, Zenon
<1>4. QED
  BY <1>3, Zenon DEF returned, gpus

\* Every step of the program keeps the types.
LEMMA NextType == TypeOK /\ [Next]_vars => TypeOK'
<1> SUFFICES ASSUME TypeOK, [Next]_vars PROVE TypeOK'
  OBVIOUS
<1> USE DEF gui, artifacts, left, thread, history
<1>1. CASE ClickBuild
  BY <1>1, StartBuildType, Zenon DEF ClickBuild, TypeOK
<1>2. CASE ClickCancel
  <2>1. disk' \in [Targets -> Artifact] /\ outputs' \in [Targets -> Artifact]
    BY <1>2, ArtifactFacts DEF ClickCancel, TypeOK
  <2>2. cancelled' \subseteq Builds /\ caught' \subseteq Builds
    BY <1>2 DEF ClickCancel, TypeOK
  <2>3. QED
    BY <1>2, <2>1, <2>2, Zenon DEF ClickCancel, TypeOK
<1>3. CASE HandleEnd
  <2>1. queue' \in Seq(SignalType)
    BY <1>3 DEF HandleEnd, TypeOK
  <2>2. caught' \subseteq Builds
    BY <1>3 DEF HandleEnd, TypeOK
  <2>3. QED
    BY <1>3, <2>1, <2>2, Zenon DEF HandleEnd, TypeOK
<1>4. CASE AddFile
  <2>1. files' \in 0 .. MaxFiles
    BY <1>4, SessionAssumption DEF AddFile, TypeOK
  <2>2. QED
    BY <1>4, <2>1, Zenon DEF AddFile, TypeOK
<1>5. CASE AddBinary
  <2>1. files' \in 0 .. MaxFiles
    BY <1>5, SessionAssumption DEF AddBinary, TypeOK
  <2>2. CASE StartBuild(TRUE)
    BY <1>5, <2>1, <2>2, StartBuildType, Zenon DEF AddBinary, TypeOK
  <2>3. CASE UNCHANGED <<buildAction, cancelAction, homeAction, started, artifacts, pc, job>>
    BY <1>5, <2>1, <2>3, Zenon DEF AddBinary, TypeOK
  <2>4. QED
    BY <1>5, <2>2, <2>3 DEF AddBinary
<1>6. CASE ReloadBinary
  BY <1>6, StartBuildType, Zenon DEF ReloadBinary, TypeOK
<1>7. CASE CloseSource
  <2>1. files' \in 0 .. MaxFiles
    BY <1>7, SessionAssumption DEF CloseSource, TypeOK
  <2>2. disk' \in [Targets -> Artifact] /\ outputs' \in [Targets -> Artifact]
    BY <1>7, ArtifactFacts DEF CloseSource, TypeOK, DropOutputs
  <2>3. buildAction' \in BOOLEAN
    BY <1>7 DEF CloseSource, TypeOK
  <2>4. QED
    BY <1>7, <2>1, <2>2, <2>3, Zenon DEF CloseSource, TypeOK
<1>8. CASE RemoveStage
  <2>1. files' \in 0 .. MaxFiles
    BY <1>8, SessionAssumption DEF RemoveStage, TypeOK
  <2>2. disk' \in [Targets -> Artifact] /\ outputs' \in [Targets -> Artifact]
    BY <1>8, ArtifactFacts DEF RemoveStage, TypeOK, DropOutputs
  <2>3. buildAction' \in BOOLEAN
    BY <1>8 DEF RemoveStage, TypeOK
  <2>4. QED
    BY <1>8, <2>1, <2>2, <2>3, Zenon DEF RemoveStage, TypeOK
<1>9. CASE CloseBinary
  <2>1. files' \in 0 .. MaxFiles
    BY <1>9, SessionAssumption DEF CloseBinary, TypeOK
  <2>2. disk' \in [Targets -> Artifact] /\ outputs' \in [Targets -> Artifact]
    BY <1>9, ArtifactFacts DEF CloseBinary, TypeOK, DropOutputs
  <2>3. QED
    BY <1>9, <2>1, <2>2, Zenon DEF CloseBinary, TypeOK
<1>10. CASE BackToHome
  <2>1. outputs' \in [Targets -> Artifact]
    BY <1>10, ArtifactFacts DEF BackToHome, TypeOK
  <2>2. pc' \in [Builds -> BuildingPc \cup EndedPc \cup {"unused"}]
    BY <1>10 DEF BackToHome, TypeOK, EndedPc
  <2>3. QED
    BY <1>10, <2>1, <2>2, Zenon DEF BackToHome, TypeOK
<1>11. CASE OpenProject
  <2>1. outputs' \in [Targets -> Artifact]
    BY <1>11 DEF OpenProject, TypeOK
  <2>2. buildAction' \in BOOLEAN
    BY <1>11 DEF OpenProject, TypeOK
  <2>3. QED
    BY <1>11, <2>1, <2>2, Zenon DEF OpenProject, TypeOK
<1>12. CASE OrphanExits
  <2>1. orphans' \subseteq Builds \X Targets
    BY <1>12 DEF OrphanExits, TypeOK
  <2>2. disk' \in [Targets -> Artifact]
    BY <1>12, ArtifactFacts DEF OrphanExits, TypeOK
  <2>3. QED
    BY <1>12, <2>1, <2>2, Zenon DEF OrphanExits, TypeOK
<1>13. ASSUME NEW b \in Builds, Prepare(b) PROVE TypeOK'
  <2>1. pc' \in [Builds -> BuildingPc \cup EndedPc \cup {"unused"}]
    BY <1>13, GotoType, BuildOverType DEF Prepare, TypeOK, BuildingPc, EndedPc
  <2>2. job' \in [Builds -> JobType]
    BY <1>13, BuildOverType DEF Prepare, TypeOK, EndedPc
  <2>3. QED
    BY <1>13, <2>1, <2>2, Zenon DEF Prepare, TypeOK
<1>14. ASSUME NEW b \in Builds, ResetCancel(b) PROVE TypeOK'
  <2>1. pc' \in [Builds -> BuildingPc \cup EndedPc \cup {"unused"}]
    BY <1>14, GotoType DEF ResetCancel, TypeOK, BuildingPc, EndedPc
  <2>2. QED
    BY <1>14, <2>1, Zenon DEF ResetCancel, TypeOK
<1>15. ASSUME NEW b \in Builds, LaunchCli(b) PROVE TypeOK'
  <2>1. pc' \in [Builds -> BuildingPc \cup EndedPc \cup {"unused"}]
    BY <1>15, GotoType DEF LaunchCli, TypeOK, BuildingPc, EndedPc
  <2>2. job' \in [Builds -> JobType]
    <3>1. PICK t \in job[b].todo :
              \/ job' = [job EXCEPT ![b].todo = @ \ {t}, ![b].target = t]
              \/ job' = [job EXCEPT ![b].todo = @ \ {t}, ![b].target = t, ![b].ret = FALSE]
      BY <1>15, Zenon DEF LaunchCli
    <3>2. t \in Targets /\ job[b].todo \ {t} \in SUBSET Targets
      BY JobFacts
    <3>3. [job EXCEPT ![b].todo = @ \ {t}] \in [Builds -> JobType]
      BY <3>2, JobFacts, JobUpdates
    <3>4. [job EXCEPT ![b].todo = @ \ {t}, ![b].target = t] \in [Builds -> JobType]
      BY <3>2, <3>3, JobUpdates, Zenon
    <3>5. [job EXCEPT ![b].todo = @ \ {t}, ![b].target = t, ![b].ret = FALSE]
            \in [Builds -> JobType]
      BY <3>2, <3>4, JobUpdates, Zenon
    <3>6. QED
      BY <3>1, <3>4, <3>5, Zenon
  <2>3. cli' \in [Builds -> {"none", "running", "quiet", "printed", "built"}]
    BY <1>15 DEF LaunchCli, TypeOK
  <2>4. QED
    BY <1>15, <2>1, <2>2, <2>3, Zenon DEF LaunchCli, TypeOK
<1>16. ASSUME NEW b \in Builds, SkipTarget(b) PROVE TypeOK'
  <2>1. job' \in [Builds -> JobType]
    <3>1. PICK t \in job[b].todo : job' = [job EXCEPT ![b].todo = @ \ {t}]
      BY <1>16, Zenon DEF SkipTarget
    <3>2. job[b].todo \ {t} \in SUBSET Targets
      BY JobFacts
    <3>3. QED
      BY <3>1, <3>2, JobFacts, JobUpdates
  <2>2. QED
    BY <1>16, <2>1, Zenon DEF SkipTarget, TypeOK
<1>17. ASSUME NEW b \in Builds, StopLaunching(b) PROVE TypeOK'
  <2>1. pc' \in [Builds -> BuildingPc \cup EndedPc \cup {"unused"}]
    BY <1>17, GotoType DEF StopLaunching, TypeOK, BuildingPc, EndedPc
  <2>2. QED
    BY <1>17, <2>1, Zenon DEF StopLaunching, TypeOK
<1>18. ASSUME NEW b \in Builds, CliReturns(b) PROVE TypeOK'
  <2>1. pc' \in [Builds -> BuildingPc \cup EndedPc \cup {"unused"}]
    BY <1>18, GotoType DEF CliReturns, TypeOK, BuildingPc, EndedPc
  <2>2. job' \in [Builds -> JobType]
    <3> DEFINE ok == ~Linux \/ cli[b] # "quiet"
    <3>1. PICK found \in BOOLEAN :
            job' = [job EXCEPT ![b].ret = ok,
                               ![b].gpus = IF ok /\ found THEN @ \cup {job[b].target} ELSE @]
      BY <1>18, Zenon DEF CliReturns
    <3>2. ok \in BOOLEAN /\ (ok /\ found) \in BOOLEAN
      BY Zenon
    <3>3. QED
      BY <3>1, <3>2, ResultType, Zenon
  <2>3. cli' \in [Builds -> {"none", "running", "quiet", "printed", "built"}]
    BY <1>18 DEF CliReturns, TypeOK
  <2>4. disk' \in [Targets -> Artifact]
    BY <1>18, ArtifactFacts DEF CliReturns, TypeOK
  <2>5. QED
    BY <1>18, <2>1, <2>2, <2>3, <2>4, Zenon DEF CliReturns, TypeOK
<1>19. ASSUME NEW b \in Builds, CliAborts(b) PROVE TypeOK'
  <2>1. pc' \in [Builds -> BuildingPc \cup EndedPc \cup {"unused"}]
    BY <1>19, GotoType DEF CliAborts, TypeOK, BuildingPc, EndedPc
  <2>2. job' \in [Builds -> JobType]
    <3>1. CASE job' = [job EXCEPT ![b].ret = FALSE]
      BY <3>1, JobFacts, JobUpdates
    <3>2. ASSUME NEW found \in BOOLEAN,
                 job' = [job EXCEPT ![b].ret = TRUE,
                                    ![b].gpus = IF found THEN @ \cup {job[b].target} ELSE @]
          PROVE  job' \in [Builds -> JobType]
      BY <3>2, ResultType, Zenon
    <3>3. QED
      BY <1>19, <3>1, <3>2, Zenon DEF CliAborts
  <2>3. cli' \in [Builds -> {"none", "running", "quiet", "printed", "built"}]
    BY <1>19 DEF CliAborts, TypeOK
  <2>4. orphans' \subseteq Builds \X Targets /\ escaped' \subseteq Builds \X Targets
    <3>1. /\ orphans' = orphans \/ orphans' = orphans \cup {<<b, job[b].target>>}
          /\ escaped' = escaped \/ escaped' = escaped \cup {<<b, job[b].target>>}
      BY <1>19, Zenon DEF CliAborts, Escapes
    <3>2. <<b, job[b].target>> \in Builds \X Targets
      BY JobFacts
    <3>3. orphans \subseteq Builds \X Targets /\ escaped \subseteq Builds \X Targets
      BY DEF TypeOK
    <3>4. QED
      BY <3>1, <3>2, <3>3
  <2>5. QED
    BY <1>19, <2>1, <2>2, <2>3, <2>4, Zenon DEF CliAborts, TypeOK
<1>20. ASSUME NEW b \in Builds, ReportCanceled(b) PROVE TypeOK'
  <2>1. pc' \in [Builds -> BuildingPc \cup EndedPc \cup {"unused"}] /\ job' \in [Builds -> JobType]
    BY <1>20, BuildOverType DEF ReportCanceled, TypeOK, EndedPc
  <2>2. queue' \in Seq(SignalType)
    BY <1>20, PostType DEF ReportCanceled, TypeOK
  <2>3. QED
    BY <1>20, <2>1, <2>2, Zenon DEF ReportCanceled, TypeOK
<1>29. ASSUME NEW b \in Builds, NotifyCanceled(b) PROVE TypeOK'
  <2>1. pc' \in [Builds -> BuildingPc \cup EndedPc \cup {"unused"}]
    BY <1>29, GotoType DEF NotifyCanceled, TypeOK, EndedPc
  <2>2. QED
    BY <1>29, <2>1, Zenon DEF NotifyCanceled, TypeOK
<1>21. ASSUME NEW b \in Builds, EndSilently(b) PROVE TypeOK'
  <2>1. pc' \in [Builds -> BuildingPc \cup EndedPc \cup {"unused"}] /\ job' \in [Builds -> JobType]
    BY <1>21, BuildOverType DEF EndSilently, TypeOK, EndedPc
  <2>2. QED
    BY <1>21, <2>1, Zenon DEF EndSilently, TypeOK
<1>22. ASSUME NEW b \in Builds, BeginLoad(b) PROVE TypeOK'
  <2>1. pc' \in [Builds -> BuildingPc \cup EndedPc \cup {"unused"}]
    BY <1>22, GotoType DEF BeginLoad, TypeOK, BuildingPc, EndedPc
  <2>2. job' \in [Builds -> JobType]
    <3>1. (IF job[b].gpus = {} THEN ProjectTargets ELSE job[b].gpus) \in SUBSET Targets
      BY JobFacts, TargetFacts
    <3>2. QED
      BY <1>22, <3>1, JobFacts, JobUpdates DEF BeginLoad
  <2>3. QED
    BY <1>22, <2>1, <2>2, Zenon DEF BeginLoad, TypeOK
<1>23. ASSUME NEW b \in Builds, ReadMetadata(b) PROVE TypeOK'
  <2>1. pc' \in [Builds -> BuildingPc \cup EndedPc \cup {"unused"}]
    BY <1>23, GotoType DEF ReadMetadata, TypeOK, BuildingPc, EndedPc
  <2>2. job' \in [Builds -> JobType]
    <3>1. PICK t \in job[b].todo :
              \/ job' = [job EXCEPT ![b].todo = @ \ {t}, ![b].target = t, ![b].read = disk[t]]
              \/ job' = [job EXCEPT ![b].todo = @ \ {t}]
      BY <1>23, Zenon DEF ReadMetadata
    <3>2. /\ t \in Targets
          /\ job[b].todo \ {t} \in SUBSET Targets
          /\ disk[t] \in Artifact
      BY JobFacts DEF TypeOK
    <3>3. [job EXCEPT ![b].todo = @ \ {t}] \in [Builds -> JobType]
      BY <3>2, JobFacts, JobUpdates
    <3>4. [job EXCEPT ![b].todo = @ \ {t}, ![b].target = t] \in [Builds -> JobType]
      BY <3>2, <3>3, JobUpdates, Zenon
    <3>5. [job EXCEPT ![b].todo = @ \ {t}, ![b].target = t, ![b].read = disk[t]]
            \in [Builds -> JobType]
      BY <3>2, <3>4, ReadUpdate, Zenon
    <3>6. QED
      BY <3>1, <3>3, <3>5, Zenon
  <2>3. QED
    BY <1>23, <2>1, <2>2, Zenon DEF ReadMetadata, TypeOK
<1>24. ASSUME NEW b \in Builds, InsertOutput(b) PROVE TypeOK'
  <2>1. pc' \in [Builds -> BuildingPc \cup EndedPc \cup {"unused"}]
    BY <1>24, GotoType DEF InsertOutput, TypeOK, BuildingPc, EndedPc
  <2>2. job' \in [Builds -> JobType]
    BY <1>24 DEF InsertOutput, TypeOK, JobType
  <2>3. outputs' \in [Targets -> Artifact]
    BY <1>24 DEF InsertOutput, TypeOK, JobType
  <2>4. QED
    BY <1>24, <2>1, <2>2, <2>3, Zenon DEF InsertOutput, TypeOK
<1>25. ASSUME NEW b \in Builds, ReportLoaded(b) PROVE TypeOK'
  <2>1. pc' \in [Builds -> BuildingPc \cup EndedPc \cup {"unused"}] /\ job' \in [Builds -> JobType]
    BY <1>25, BuildOverType DEF ReportLoaded, TypeOK, EndedPc
  <2>2. queue' \in Seq(SignalType)
    BY <1>25, PostType DEF ReportLoaded, TypeOK
  <2>3. QED
    BY <1>25, <2>1, <2>2, Zenon DEF ReportLoaded, TypeOK
<1>26. ASSUME NEW b \in Builds, CliExits(b) PROVE TypeOK'
  <2>1. cli' \in [Builds -> {"none", "running", "quiet", "printed", "built"}]
    BY <1>26 DEF CliExits, TypeOK
  <2>2. disk' \in [Targets -> Artifact]
    <3>1. b \in Artifact
      BY ArtifactFacts
    <3>2. disk' = disk \/ disk' = [disk EXCEPT ![job[b].target] = b]
      BY <1>26, Zenon DEF CliExits
    <3>3. QED
      BY <3>1, <3>2 DEF TypeOK
  <2>3. QED
    BY <1>26, <2>1, <2>2, Zenon DEF CliExits, TypeOK
<1>27. CASE UNCHANGED vars
  BY <1>27, Zenon DEF vars, TypeOK
<1>28. QED
  BY <1>1, <1>2, <1>3, <1>4, <1>5, <1>6, <1>7, <1>8, <1>9, <1>10, <1>11,
     <1>12, <1>13, <1>14, <1>15, <1>16, <1>17, <1>18, <1>19, <1>20, <1>21,
     <1>22, <1>23, <1>24, <1>25, <1>26, <1>27, <1>29
     DEF Next, UserStep, ThreadStep
\* The variables have their types in every reachable state.
THEOREM SessionTypeCorrect == Spec => []TypeOK
<1>1. Init => TypeOK
  BY InitType
<1>2. TypeOK /\ [Next]_vars => TypeOK'
  BY NextType
<1>3. QED
  BY <1>1, <1>2, PTL DEF Spec

-----------------------------------------------------------------------------
(* What a step is, as far as the interlock can tell *)

\* A build starts.
Start ==
    /\ ~atHome
    /\ buildAction \/ (MayEdit /\ Binary)
    /\ files' = files \/ Binary
    /\ started' = started + 1
    /\ pc' = [pc EXCEPT ![started'] = "prepare"]
    /\ ~buildAction' /\ cancelAction' /\ ~homeAction'
    /\ UNCHANGED <<setup, atHome, cancelSignal, queue, history>>

\* The files of the project change.
Edit ==
    /\ MayEdit
    /\ cancelAction' => cancelAction
    /\ buildAction' => buildAction \/ ~cancelAction'
    /\ buildAction' => Binary \/ files' # 0
    /\ UNCHANGED <<setup, atHome, homeAction, cancelSignal, queue, started, pc, history>>

\* A command does something.
Background == UNCHANGED <<setup, gui, cancelSignal, queue, started, pc, history>>

\* The thread of a build takes a step, perhaps the one that ends the build.
Move(b) ==
    /\ Building(b)
    /\ \E l \in BuildingPc \cup {"notify", "done", "silent", "crashed"} :
         /\ pc' = [pc EXCEPT ![b] = l]
         /\ pc[b] \in {"launch", "wait", "check"} /\ cancelSignal
              => l \in {"launch", "wait", "check", "notify"}
         /\ \/ l \notin {"notify", "done"} /\ queue' = queue
            \/ \E kind \in {"success", "failure", "canceled"} :
                 /\ l = IF kind = "canceled" THEN "notify" ELSE "done"
                 /\ queue' = Append(queue, [kind |-> kind, build |-> b])
    /\ cancelSignal' = cancelSignal \/ pc[b] = "reset"
    /\ UNCHANGED <<setup, gui, started, history>>

\* That of a canceled build has told the user, and ends.
Told(b) ==
    /\ pc[b] = "notify"
    /\ pc' = [pc EXCEPT ![b] = "done"]
    /\ UNCHANGED <<setup, gui, cancelSignal, queue, started, history>>

\* A thread that goes on, or vanishes, moves.
LEMMA GoesOn ==
    ASSUME NEW b \in Builds, NEW l \in BuildingPc \cup {"silent", "crashed"}, Building(b), Goto(b, l),
           queue' = queue,
           pc[b] \in {"launch", "wait", "check"} /\ cancelSignal => l \in {"launch", "wait", "check"},
           cancelSignal' = cancelSignal \/ pc[b] = "reset",
           UNCHANGED <<setup, gui, started, history>>
    PROVE  Move(b)
<1>1. l \in BuildingPc \cup {"notify", "done", "silent", "crashed"} /\ l \notin {"notify", "done"}
  BY DEF BuildingPc
<1>2. QED
  BY <1>1, Zenon DEF Move, Goto

\* A step is of one of these kinds.
LEMMA StepKinds ==
    ASSUME TypeOK, [Next]_vars
    PROVE  \/ Start \/ ClickCancel \/ HandleEnd \/ Edit \/ BackToHome \/ OpenProject
           \/ Background
           \/ \E b \in Builds : Move(b) \/ Told(b)
<1> USE DEF gui, artifacts, left, thread, history
<1>1. CASE ClickBuild
  BY <1>1, Zenon DEF ClickBuild, StartBuild, Start
<1>2. CASE AddFile
  <2>1. files' # 0
    BY <1>2, SessionAssumption DEF AddFile, TypeOK
  <2>2. QED
    BY <1>2, <2>1, Zenon DEF AddFile, Edit
<1>3. CASE AddBinary
  <2>1. CASE StartBuild(TRUE)
    BY <1>3, <2>1, Zenon DEF AddBinary, StartBuild, MayEdit, Start
  <2>2. CASE UNCHANGED <<buildAction, cancelAction, homeAction, started, artifacts, pc, job>>
    BY <1>3, <2>2, Zenon DEF AddBinary, Edit
  <2>3. QED
    BY <1>3, <2>1, <2>2, Zenon DEF AddBinary
<1>4. CASE ReloadBinary
  BY <1>4, Zenon DEF ReloadBinary, StartBuild, MayEdit, Start
<1>5. CASE CloseSource
  <2>1. files' > 0 => files' # 0
    BY <1>5, SessionAssumption DEF CloseSource, TypeOK
  <2>2. QED
    BY <1>5, <2>1, Zenon DEF CloseSource, Edit
<1>6. CASE RemoveStage
  <2>1. files' > 0 => files' # 0
    BY <1>6, SessionAssumption DEF RemoveStage, TypeOK
  <2>2. QED
    BY <1>6, <2>1, Zenon DEF RemoveStage, Edit
<1>7. CASE CloseBinary
  BY <1>7, Zenon DEF CloseBinary, Edit
<1>8. CASE OrphanExits
  BY <1>8, Zenon DEF OrphanExits, Background
<1>9. CASE UNCHANGED vars
  BY <1>9, Zenon DEF vars, Background
<1>10. ASSUME NEW b \in Builds, CliExits(b) PROVE Background
  BY <1>10, Zenon DEF CliExits, Background
<1>11. ASSUME NEW b \in Builds, ThreadStep(b) PROVE Move(b) \/ Told(b)
  <2> USE DEF Building, BuildingPc, EndedPc, Goto, BuildOver, Post
  <2>0. pc = [pc EXCEPT ![b] = pc[b]]
    BY DEF TypeOK
  <2>1. CASE Prepare(b)
    BY <2>1, GoesOn, Zenon DEF Prepare
  <2>2. CASE ResetCancel(b)
    BY <2>2, GoesOn, Zenon DEF ResetCancel
  <2>3. CASE LaunchCli(b)
    BY <2>0, <2>3, GoesOn, Zenon DEF LaunchCli
  <2>4. CASE SkipTarget(b)
    BY <2>0, <2>4, GoesOn, Zenon DEF SkipTarget
  <2>5. CASE StopLaunching(b)
    BY <2>5, GoesOn, Zenon DEF StopLaunching
  <2>6. CASE CliReturns(b)
    BY <2>6, GoesOn, Zenon DEF CliReturns
  <2>7. CASE CliAborts(b)
    BY <2>7, GoesOn, Zenon DEF CliAborts
  <2>8. CASE ReportCanceled(b)
    BY <2>8, Zenon DEF ReportCanceled, Move
  <2>9. CASE EndSilently(b)
    BY <2>9, GoesOn, Zenon DEF EndSilently
  <2>10. CASE BeginLoad(b)
    BY <2>10, GoesOn, Zenon DEF BeginLoad
  <2>11. CASE ReadMetadata(b)
    BY <2>0, <2>11, GoesOn, Zenon DEF ReadMetadata
  <2>12. CASE InsertOutput(b)
    BY <2>12, GoesOn, Zenon DEF InsertOutput
  <2>13. CASE ReportLoaded(b)
    BY <2>13, Zenon DEF ReportLoaded, Move
  <2>14. CASE NotifyCanceled(b)
    BY <2>14, Zenon DEF NotifyCanceled, Told
  <2>15. QED
    BY <1>11, <2>1, <2>2, <2>3, <2>4, <2>5, <2>6, <2>7, <2>8, <2>9, <2>10,
       <2>11, <2>12, <2>13, <2>14 DEF ThreadStep
<1>12. QED
  BY <1>1, <1>2, <1>3, <1>4, <1>5, <1>6, <1>7, <1>8, <1>9, <1>10, <1>11
     DEF Next, UserStep
-----------------------------------------------------------------------------
(* The interlock *)

\* Cancel is enabled only in an open project, and the way home is then closed.
CancelWhileOpen == cancelAction => ~atHome /\ ~homeAction

\* Builds that have not been started have no thread.
UnusedUntilStarted == \A b \in Builds : b > started => pc[b] = "unused"

\* The flag stays raised for a thread that was told to stop in time.
CaughtSeesFlag == Quiet => \A b \in caught : Building(b) => cancelSignal

SessionInv ==
    /\ TypeOK
    /\ BuildAndCancelExclusive
    /\ CancelWhileOpen
    /\ UnusedUntilStarted
    /\ OneBuildAtATime
    /\ CancelHonoured
    /\ CaughtSeesFlag
    /\ EmptySourceNotBuilt
    /\ EndsOnce

\* The program starts on its home page, with nothing running.
LEMMA InitSessionInv == Init => SessionInv
<1> SUFFICES ASSUME Init PROVE SessionInv
  OBVIOUS
<1>1. TypeOK
  BY InitType
<1>2. /\ BuildAndCancelExclusive /\ CancelWhileOpen /\ EmptySourceNotBuilt
  BY Zenon DEF Init, BuildAndCancelExclusive, CancelWhileOpen, EmptySourceNotBuilt
<1>3. \A b \in Builds : pc[b] = "unused" /\ ~Building(b)
  BY DEF Init, Building, BuildingPc
<1>4. queue = <<>> /\ Len(queue) = 0 /\ caught = {}
  BY DEF Init
<1>5. UnusedUntilStarted /\ OneBuildAtATime
  BY <1>3, <1>4 DEF UnusedUntilStarted, OneBuildAtATime
<1>6. CancelHonoured /\ CaughtSeesFlag /\ EndsOnce
  BY <1>3, <1>4 DEF CancelHonoured, CaughtSeesFlag, EndsOnce
<1>7. QED
  BY <1>1, <1>2, <1>5, <1>6 DEF SessionInv

\* While Cancel is disabled in a quiet project, nothing is going on.
LEMMA Idle ==
    ASSUME SessionInv, Quiet, ~cancelAction
    PROVE  /\ queue = <<>> /\ Len(queue) = 0
           /\ caught = {}
           /\ \A b \in Builds : ~Building(b)
<1>1. queue = <<>> /\ Len(queue) = 0 /\ \A b \in Builds : ~Building(b)
  BY DEF SessionInv, OneBuildAtATime
<1>2. \A b \in caught : Building(b)
  BY <1>1 DEF SessionInv, CancelHonoured, EndQueued, Building, BuildingPc
<1>3. caught \subseteq Builds
  BY DEF SessionInv, TypeOK
<1>4. QED
  BY <1>1, <1>2, <1>3

\* A signal names a build.
LEMMA QueueFacts ==
    ASSUME TypeOK, NEW i \in 1 .. Len(queue)
    PROVE  queue[i].build \in Builds
<1>1. queue[i] \in SignalType
  BY DEF TypeOK
<1>2. QED
  BY <1>1 DEF SignalType

\* A build can only be started while Cancel is disabled.
LEMMA StartIdle ==
    ASSUME SessionInv, Start, Quiet
    PROVE  ~cancelAction
BY Zenon DEF SessionInv, Start, BuildAndCancelExclusive, MayEdit, Quiet

\* Starting a build keeps the interlock.
LEMMA StartInv ==
    ASSUME SessionInv, TypeOK', Start
    PROVE  SessionInv'
<1> DEFINE s == started'
<1>1. s = started + 1 /\ s \in Builds /\ started \in Nat
  BY SessionAssumption DEF Start, SessionInv, TypeOK, Builds
<1>2. pc[s] = "unused"
  BY <1>1 DEF SessionInv, UnusedUntilStarted
<1>3. \A b \in Builds : pc'[b] = IF b = s THEN "prepare" ELSE pc[b]
  BY <1>1 DEF Start, SessionInv, TypeOK
<1>4. setup' = setup /\ queue' = queue /\ caught' = caught /\ (Quiet' <=> Quiet)
  BY DEF Start, history, Quiet
<1>5. BuildAndCancelExclusive' /\ CancelWhileOpen'
  BY Zenon DEF Start, BuildAndCancelExclusive, CancelWhileOpen
<1>6. UnusedUntilStarted'
  BY <1>1, <1>3 DEF SessionInv, UnusedUntilStarted, Builds
<1>7. Quiet => queue = <<>> /\ caught = {} /\ \A b \in Builds : ~Building(b)
  BY StartIdle, Idle
<1>8. OneBuildAtATime'
  BY <1>3, <1>4, <1>7 DEF OneBuildAtATime, Building, Start
<1>10. CancelHonoured'
  BY <1>4, <1>7 DEF SessionInv, CancelHonoured
<1>11. CaughtSeesFlag'
  BY <1>4, <1>7 DEF CaughtSeesFlag
<1>12. EmptySourceNotBuilt'
  <2>1. Quiet /\ ~Binary /\ files = 0 => ~buildAction
    BY DEF SessionInv, EmptySourceNotBuilt
  <2>2. Binary' <=> Binary
    BY <1>4 DEF Binary
  <2>3. QED
    BY <1>4, <2>1, <2>2, Zenon DEF Start, EmptySourceNotBuilt
<1>13. EndsOnce'
  BY <1>2, <1>3, <1>4, QueueFacts DEF SessionInv, EndsOnce
<1>14. QED
  BY <1>5, <1>6, <1>8, <1>10, <1>11, <1>12, <1>13 DEF SessionInv

\* So does clicking Cancel: a build that has already ended is not caught.
LEMMA ClickCancelInv ==
    ASSUME SessionInv, TypeOK', ClickCancel
    PROVE  SessionInv'
<1>1. /\ setup' = setup /\ queue' = queue /\ pc' = pc /\ started' = started
      /\ (Quiet' <=> Quiet)
  BY DEF ClickCancel, thread, Quiet
<1>2. /\ BuildAndCancelExclusive' /\ CancelWhileOpen' /\ EmptySourceNotBuilt'
  BY Zenon DEF SessionInv, ClickCancel, gui, BuildAndCancelExclusive, CancelWhileOpen,
               EmptySourceNotBuilt, Quiet, Binary
<1>3. UnusedUntilStarted' /\ EndsOnce'
  BY <1>1 DEF SessionInv, UnusedUntilStarted, EndsOnce
<1>4. OneBuildAtATime'
  <2>1. cancelAction' = cancelAction
    BY DEF ClickCancel, gui
  <2>2. QED
    BY <1>1, <2>1 DEF SessionInv, OneBuildAtATime, Building
<1>5. CaughtSeesFlag'
  BY DEF ClickCancel, CaughtSeesFlag
<1>6. CancelHonoured'
  <2>1. caught' = caught \cup {b \in Builds : pc[b] \in {"launch", "wait", "check"}}
    BY DEF ClickCancel
  <2>2. Quiet => \A i \in 1 .. Len(queue) : queue[i].build \in caught' => queue[i].build \in caught
    BY <2>1 DEF SessionInv, EndsOnce
  <2>3. QED
    BY <1>1, <2>1, <2>2 DEF SessionInv, CancelHonoured, EndQueued
<1>7. QED
  BY <1>2, <1>3, <1>4, <1>5, <1>6 DEF SessionInv

\* And the end signal of a build, which is the only one.
LEMMA HandleEndInv ==
    ASSUME SessionInv, TypeOK', HandleEnd
    PROVE  SessionInv'
<1>1. /\ setup' = setup /\ pc' = pc /\ started' = started /\ queue' = Tail(queue)
      /\ queue # <<>> /\ queue \in Seq(SignalType) /\ caught' = caught \ {Head(queue).build}
      /\ (Quiet' <=> Quiet)
  BY DEF HandleEnd, thread, Quiet, SessionInv, TypeOK
<1>2. BuildAndCancelExclusive' /\ CancelWhileOpen'
  BY Zenon DEF HandleEnd, BuildAndCancelExclusive, CancelWhileOpen
<1>3. UnusedUntilStarted'
  BY <1>1 DEF SessionInv, UnusedUntilStarted
<1>4. /\ Len(queue') = Len(queue) - 1
      /\ \A i \in 1 .. Len(queue') : i + 1 \in 1 .. Len(queue) /\ queue'[i] = queue[i + 1]
  BY <1>1
<1>5. EndsOnce'
  <2>1. SUFFICES ASSUME NEW i \in 1 .. Len(queue')
                 PROVE  /\ \/ pc[queue[i + 1].build] = "done"
                           \/ /\ queue[i + 1].kind = "canceled"
                              /\ pc[queue[i + 1].build] \in {"notify", "dangling"}
                        /\ \A j \in 1 .. Len(queue') :
                             queue[i + 1].build = queue[j + 1].build => i = j
    BY <1>1, <1>4 DEF EndsOnce
  <2>2. i + 1 \in 1 .. Len(queue)
    BY <1>4
  <2>3. \A j \in 1 .. Len(queue') : j + 1 \in 1 .. Len(queue) /\ (i + 1 = j + 1 => i = j)
    BY <1>4
  <2>4. QED
    BY <2>2, <2>3 DEF SessionInv, EndsOnce
<1>6. Quiet => queue' = <<>> /\ Len(queue') = 0 /\ \A b \in Builds : ~Building(b)
  <2>1. SUFFICES ASSUME Quiet PROVE queue' = <<>> /\ Len(queue') = 0 /\ \A b \in Builds : ~Building(b)
    OBVIOUS
  <2>2. Len(queue) <= 1 /\ \A b \in Builds : ~Building(b)
    BY <1>1, <2>1 DEF SessionInv, OneBuildAtATime
  <2>3. queue' \in Seq(SignalType) /\ Len(queue') = 0
    BY <1>1, <1>4, <2>2
  <2>4. QED
    BY <2>2, <2>3, EmptySeq
<1>7. OneBuildAtATime'
  BY <1>1, <1>6 DEF OneBuildAtATime, Building
<1>8. CancelHonoured'
  <2>1. SUFFICES ASSUME Quiet PROVE caught' = {}
    BY <1>1, <1>6 DEF CancelHonoured
  <2>2. SUFFICES ASSUME NEW b \in caught PROVE b = Head(queue).build
    BY <1>1
  <2>3. b \in Builds
    BY DEF SessionInv, TypeOK
  <2>4. EndQueued(b)
    BY <1>6, <2>1, <2>3 DEF SessionInv, CancelHonoured, Building, BuildingPc
  <2>5. Len(queue) <= 1 /\ queue \in Seq(SignalType)
    BY <2>1 DEF SessionInv, OneBuildAtATime, TypeOK
  <2>6. QED
    BY <2>4, <2>5 DEF EndQueued
<1>9. CaughtSeesFlag'
  BY <1>1, <1>6 DEF TypeOK, CaughtSeesFlag, Building
<1>10. EmptySourceNotBuilt'
  <2>1. Quiet => cancelAction
    BY <1>1, Idle
  <2>2. files' = files /\ (Binary' <=> Binary)
    BY DEF HandleEnd, Binary
  <2>3. QED
    BY <1>1, <2>1, <2>2, Zenon DEF SessionInv, EmptySourceNotBuilt
<1>11. QED
  BY <1>2, <1>3, <1>5, <1>7, <1>8, <1>9, <1>10 DEF SessionInv

\* Editing a quiet project happens while nothing is going on.
LEMMA EditInv ==
    ASSUME SessionInv, TypeOK', Edit
    PROVE  SessionInv'
<1>1. /\ setup' = setup /\ queue' = queue /\ pc' = pc /\ started' = started
      /\ cancelSignal' = cancelSignal /\ caught' = caught /\ (Quiet' <=> Quiet)
  BY DEF Edit, history, Quiet
<1>2. BuildAndCancelExclusive' /\ CancelWhileOpen'
  BY Zenon DEF SessionInv, Edit, BuildAndCancelExclusive, CancelWhileOpen
<1>3. UnusedUntilStarted' /\ EndsOnce' /\ CancelHonoured' /\ CaughtSeesFlag'
  BY <1>1 DEF SessionInv, UnusedUntilStarted, EndsOnce, CancelHonoured,
              CaughtSeesFlag, Building, EndQueued
<1>4. Quiet => ~cancelAction
  BY Zenon DEF Edit, MayEdit, Quiet
<1>5. OneBuildAtATime'
  BY <1>1, <1>4, Idle DEF OneBuildAtATime, Building
<1>6. EmptySourceNotBuilt'
  <2>1. Binary' <=> Binary
    BY <1>1 DEF Binary
  <2>2. QED
    BY <1>1, <1>4, <2>1, Zenon DEF Edit, EmptySourceNotBuilt
<1>7. QED
  BY <1>2, <1>3, <1>5, <1>6 DEF SessionInv

\* The view of a quiet project is deleted while nothing is being built; the
\* thread of a canceled build may lose it, long after its signal was handled.
LEMMA BackToHomeInv ==
    ASSUME SessionInv, TypeOK', BackToHome
    PROVE  SessionInv'
<1>1. /\ setup' = setup /\ queue' = queue /\ started' = started
      /\ cancelSignal' = cancelSignal /\ caught' = caught /\ (Quiet' <=> Quiet)
  BY DEF BackToHome, history, Quiet
<1>2. \A b \in Builds : pc'[b] = IF Running(b) THEN "dangling" ELSE pc[b]
  BY DEF BackToHome
<1>3. BuildAndCancelExclusive' /\ CancelWhileOpen' /\ EmptySourceNotBuilt'
  BY Zenon DEF BackToHome, BuildAndCancelExclusive, CancelWhileOpen, EmptySourceNotBuilt
<1>4. UnusedUntilStarted'
  BY <1>1, <1>2 DEF SessionInv, UnusedUntilStarted, Running, Building, BuildingPc
<1>5. EndsOnce'
  BY <1>1, <1>2, QueueFacts DEF SessionInv, EndsOnce, Running, Building, BuildingPc
<1>6. Quiet => ~cancelAction
  BY Zenon DEF SessionInv, BackToHome, CancelWhileOpen
<1>7. Quiet => queue = <<>> /\ Len(queue) = 0 /\ caught = {} /\ \A b \in Builds : ~Building(b)
  BY <1>6, Idle
<1>8. OneBuildAtATime'
  BY <1>1, <1>2, <1>7 DEF OneBuildAtATime, Building, BuildingPc
<1>9. CancelHonoured' /\ CaughtSeesFlag'
  BY <1>1, <1>7 DEF CancelHonoured, CaughtSeesFlag
<1>10. QED
  BY <1>3, <1>4, <1>5, <1>8, <1>9 DEF SessionInv

\* Opening a project lowers the flag, while nothing is going on.
LEMMA OpenProjectInv ==
    ASSUME SessionInv, TypeOK', OpenProject
    PROVE  SessionInv'
<1>1. /\ setup' = setup /\ queue' = queue /\ pc' = pc /\ started' = started
      /\ caught' = caught /\ (Quiet' <=> Quiet)
  BY DEF OpenProject, history, thread, Quiet
<1>2. BuildAndCancelExclusive' /\ CancelWhileOpen'
  BY Zenon DEF OpenProject, BuildAndCancelExclusive, CancelWhileOpen
<1>3. UnusedUntilStarted' /\ EndsOnce' /\ CancelHonoured'
  BY <1>1 DEF SessionInv, UnusedUntilStarted, EndsOnce, CancelHonoured, EndQueued
<1>4. Quiet => ~cancelAction
  BY Zenon DEF SessionInv, OpenProject, CancelWhileOpen
<1>5. Quiet => queue = <<>> /\ \A b \in Builds : ~Building(b)
  BY <1>4, Idle
<1>6. OneBuildAtATime' /\ CaughtSeesFlag'
  BY <1>1, <1>5 DEF SessionInv, TypeOK, OneBuildAtATime, CaughtSeesFlag, Building
<1>7. EmptySourceNotBuilt'
  <2>1. files' = files /\ (Binary' <=> Binary) /\ (files = 0 => ~(files > 0))
    BY DEF OpenProject, Binary
  <2>2. QED
    BY <1>1, <2>1, Zenon DEF OpenProject, EmptySourceNotBuilt
<1>8. QED
  BY <1>2, <1>3, <1>6, <1>7 DEF SessionInv

\* What a command does is no concern of the interlock.
LEMMA BackgroundInv ==
    ASSUME SessionInv, TypeOK', Background
    PROVE  SessionInv'
<1>1. /\ setup' = setup /\ queue' = queue /\ pc' = pc /\ started' = started
      /\ files' = files /\ buildAction' = buildAction /\ cancelAction' = cancelAction
      /\ homeAction' = homeAction /\ atHome' = atHome
      /\ cancelSignal' = cancelSignal /\ caught' = caught
  BY DEF Background, gui, history
<1>2. QED
  BY <1>1, Zenon
     DEF SessionInv, BuildAndCancelExclusive, CancelWhileOpen, UnusedUntilStarted,
         OneBuildAtATime, CancelHonoured, CaughtSeesFlag,
         EmptySourceNotBuilt, EndsOnce, Quiet, Building, EndQueued, Binary

\* A thread that takes a step is the only one of a quiet project; if it was
\* told to stop it sees the flag, and if it ends it posts at most one signal.
LEMMA MoveInv ==
    ASSUME SessionInv, TypeOK', NEW b \in Builds, Move(b)
    PROVE  SessionInv'
<1>1. PICK l \in BuildingPc \cup {"notify", "done", "silent", "crashed"} :
         /\ pc' = [pc EXCEPT ![b] = l]
         /\ pc[b] \in {"launch", "wait", "check"} /\ cancelSignal
              => l \in {"launch", "wait", "check", "notify"}
         /\ \/ l \notin {"notify", "done"} /\ queue' = queue
            \/ \E kind \in {"success", "failure", "canceled"} :
                 /\ l = IF kind = "canceled" THEN "notify" ELSE "done"
                 /\ queue' = Append(queue, [kind |-> kind, build |-> b])
  BY DEF Move
<1>2. /\ setup' = setup /\ started' = started /\ caught' = caught
      /\ files' = files /\ buildAction' = buildAction /\ cancelAction' = cancelAction
      /\ homeAction' = homeAction /\ atHome' = atHome
      /\ cancelSignal' = cancelSignal \/ pc[b] = "reset"
      /\ Building(b)
  BY DEF Move, gui, history
<1>3. (Quiet' <=> Quiet) /\ (Binary' <=> Binary)
  BY <1>2 DEF Quiet, Binary
<1>4. \A c \in Builds : pc'[c] = IF c = b THEN l ELSE pc[c]
  BY <1>1 DEF SessionInv, TypeOK
<1>5. BuildAndCancelExclusive' /\ CancelWhileOpen' /\ EmptySourceNotBuilt'
  BY <1>2, <1>3, Zenon
     DEF SessionInv, BuildAndCancelExclusive, CancelWhileOpen, EmptySourceNotBuilt
<1>6. UnusedUntilStarted'
  BY <1>1, <1>2, <1>3, <1>4
     DEF SessionInv, UnusedUntilStarted, Building, BuildingPc
<1>7. Quiet => /\ cancelAction /\ b = started /\ queue = <<>> /\ Len(queue) = 0
               /\ \A c \in Builds : Building(c) => c = b
  BY <1>2 DEF SessionInv, OneBuildAtATime
<1>8. ASSUME Quiet
      PROVE  \/ queue' = <<>> /\ Len(queue') = 0
                /\ l \notin {"notify", "done"}
             \/ /\ l \in {"notify", "done"}
                /\ Len(queue') = 1
                /\ queue'[1].build = b
                /\ queue'[1].kind = "canceled" <=> l = "notify"
  BY <1>1, <1>7, <1>8
<1>9. OneBuildAtATime'
  BY <1>2, <1>3, <1>4, <1>7, <1>8 DEF OneBuildAtATime, Building, BuildingPc
<1>10. Quiet /\ b \in caught => pc[b] \in {"launch", "wait", "check"} /\ cancelSignal
  BY <1>2 DEF SessionInv, CancelHonoured, CaughtSeesFlag, Building, BuildingPc
<1>11. CancelHonoured'
  <2>1. SUFFICES ASSUME Quiet
                 PROVE  /\ \A c \in caught :
                             \/ pc'[c] \in {"launch", "wait", "check"}
                             \/ pc'[c] \in {"notify", "done"} /\ EndQueued(c)'
                        /\ \A i \in 1 .. Len(queue') :
                             queue'[i].build \in caught => queue'[i].kind = "canceled"
    BY <1>2, <1>3 DEF CancelHonoured
  <2>2. \A c \in caught : c = b
    BY <1>7, <2>1 DEF SessionInv, TypeOK, CancelHonoured, EndQueued, Building, BuildingPc
  <2>3. b \in caught => l \in {"launch", "wait", "check", "notify"}
    BY <1>1, <1>10, <2>1
  <2>4. l = "notify" => EndQueued(b)' /\ \A i \in 1 .. Len(queue') : queue'[i].kind = "canceled"
    BY <1>8, <2>1 DEF EndQueued
  <2>5. l \in {"launch", "wait", "check"} => Len(queue') = 0
    BY <1>8, <2>1
  <2>6. \A c \in caught : \/ pc'[c] \in {"launch", "wait", "check"}
                          \/ pc'[c] \in {"notify", "done"} /\ EndQueued(c)'
    BY <1>4, <2>2, <2>3, <2>4
  <2>7. \A i \in 1 .. Len(queue') : queue'[i].build \in caught => queue'[i].kind = "canceled"
    BY <2>2, <2>3, <2>4, <2>5
  <2>8. QED
    BY <2>6, <2>7
<1>12. CaughtSeesFlag'
  BY <1>2, <1>3, <1>4, <1>7, <1>10 DEF SessionInv, TypeOK, CaughtSeesFlag, Building
<1>13. EndsOnce'
  <2>1. \A i \in 1 .. Len(queue) :
           /\ queue[i].build \in Builds /\ queue[i].build # b
           /\ pc'[queue[i].build] = pc[queue[i].build]
    BY <1>2, <1>4, QueueFacts DEF SessionInv, EndsOnce, Building, BuildingPc
  <2>2. CASE queue' = queue
    BY <2>1, <2>2 DEF SessionInv, EndsOnce
  <2>3. ASSUME NEW kind \in {"success", "failure", "canceled"},
               l = IF kind = "canceled" THEN "notify" ELSE "done",
               queue' = Append(queue, [kind |-> kind, build |-> b])
        PROVE  EndsOnce'
    <3>1. queue \in Seq(SignalType)
      BY DEF SessionInv, TypeOK
    <3>2. /\ Len(queue') = Len(queue) + 1 /\ Len(queue) \in Nat
          /\ queue'[Len(queue) + 1].build = b /\ queue'[Len(queue) + 1].kind = kind
          /\ \A i \in 1 .. Len(queue) : queue'[i] = queue[i]
      BY <2>3, <3>1
    <3>3. \A i \in 1 .. Len(queue') : i \in 1 .. Len(queue) \/ i = Len(queue) + 1
      BY <3>2
    <3>4. pc'[b] = "done" \/ (kind = "canceled" /\ pc'[b] \in {"notify", "dangling"})
      BY <1>4, <2>3
    <3>5. QED
      BY <2>1, <3>2, <3>3, <3>4 DEF SessionInv, EndsOnce
  <2>4. QED
    BY <1>1, <2>2, <2>3
<1>14. QED
  BY <1>5, <1>6, <1>9, <1>11, <1>12, <1>13 DEF SessionInv

\* A thread that has told the user of a cancellation was building no more, and
\* its signal, if it is still queued, says what it said.
LEMMA ToldInv ==
    ASSUME SessionInv, TypeOK', NEW b \in Builds, Told(b)
    PROVE  SessionInv'
<1>1. /\ setup' = setup /\ queue' = queue /\ started' = started
      /\ files' = files /\ buildAction' = buildAction /\ cancelAction' = cancelAction
      /\ homeAction' = homeAction /\ atHome' = atHome
      /\ cancelSignal' = cancelSignal /\ caught' = caught
      /\ (Quiet' <=> Quiet) /\ (Binary' <=> Binary)
  BY DEF Told, gui, history, Quiet, Binary
<1>2. pc[b] = "notify" /\ \A c \in Builds : pc'[c] = IF c = b THEN "done" ELSE pc[c]
  BY DEF Told, SessionInv, TypeOK
<1>3. BuildAndCancelExclusive' /\ CancelWhileOpen' /\ EmptySourceNotBuilt'
  BY <1>1, Zenon
     DEF SessionInv, BuildAndCancelExclusive, CancelWhileOpen, EmptySourceNotBuilt
<1>4. UnusedUntilStarted'
  BY <1>1, <1>2 DEF SessionInv, UnusedUntilStarted
<1>5. \A c \in Builds : Building(c)' <=> Building(c)
  BY <1>2 DEF Building, BuildingPc
<1>6. OneBuildAtATime'
  BY <1>1, <1>5 DEF SessionInv, OneBuildAtATime
<1>7. caught \subseteq Builds
  BY DEF SessionInv, TypeOK
<1>8. CancelHonoured'
  BY <1>1, <1>2, <1>7 DEF SessionInv, CancelHonoured, EndQueued
<1>9. CaughtSeesFlag'
  BY <1>1, <1>5, <1>7 DEF SessionInv, CaughtSeesFlag
<1>10. EndsOnce'
  BY <1>1, <1>2, QueueFacts DEF SessionInv, EndsOnce
<1>11. QED
  BY <1>3, <1>4, <1>6, <1>8, <1>9, <1>10 DEF SessionInv

LEMMA NextSessionInv == SessionInv /\ [Next]_vars => SessionInv'
<1> SUFFICES ASSUME SessionInv, [Next]_vars PROVE SessionInv'
  OBVIOUS
<1>1. TypeOK /\ TypeOK'
  BY NextType DEF SessionInv
<1>2. QED
  BY <1>1, StepKinds, StartInv, ClickCancelInv, HandleEndInv, EditInv, BackToHomeInv,
     OpenProjectInv, BackgroundInv, MoveInv, ToldInv, Zenon

LEMMA SessionInvariant == Spec => []SessionInv
<1>1. Init => SessionInv
  BY InitSessionInv
<1>2. SessionInv /\ [Next]_vars => SessionInv'
  BY NextSessionInv
<1>3. QED
  BY <1>1, <1>2, PTL DEF Spec

-----------------------------------------------------------------------------
(* The cycle of builds *)

\* The threads that have yet to tell of a cancellation, and those that cannot.
Telling == {b \in Builds : pc[b] = "notify"}
Lost == {b \in Builds : pc[b] = "dangling"}

\* Initially no build has begun, and no project is open.
LEMMA InitCycle == Init => Cycle!CycleInit
<1> SUFFICES ASSUME Init PROVE Cycle!CycleInit
  OBVIOUS
<1>1. \A b \in Builds : pc[b] = "unused"
  BY DEF Init
<1>2. queue = <<>> /\ ~cancelAction /\ caught = {} /\ atHome /\ started = 0
  BY Zenon DEF Init
<1>3. SessionPhase = "idle"
  BY <1>1, <1>2 DEF SessionPhase, Crashed, Building, BuildingPc
<1>4. Quiet \in BOOLEAN
  BY Zenon DEF Quiet
<1>5. Telling = {} /\ Lost = {}
  BY <1>1 DEF Telling, Lost
<1>6. QED
  BY <1>2, <1>3, <1>4, <1>5, Zenon DEF Cycle!CycleInit, Telling, Lost

\* In a quiet project that has not crashed, Cancel is what tells a phase from
\* idleness, and a thread that is running from one that has ended.
LEMMA PhaseFacts ==
    ASSUME SessionInv, Quiet, ~Crashed
    PROVE  /\ SessionPhase = "idle" <=> ~cancelAction
           /\ SessionPhase = "building" <=> \E b \in Builds : Building(b)
           /\ SessionPhase = "ended" <=> queue # <<>>
           /\ \A b \in Builds : Building(b) => b = started /\ queue = <<>> /\ cancelAction
           /\ queue # <<>> => cancelAction
BY DEF SessionInv, OneBuildAtATime, SessionPhase

\* The start of a build begins one; it has not been stopped.
LEMMA StartCycle ==
    ASSUME SessionInv, SessionInv', Start, Quiet, ~Crashed
    PROVE  Cycle!Begin
<1>1. ~cancelAction
  BY StartIdle
<1>2. queue = <<>> /\ SessionPhase = "idle" /\ \A b \in Builds : ~Building(b)
  BY <1>1, Idle, PhaseFacts
<1>3. /\ started' = started + 1 /\ started' \in Builds /\ started \in Nat
      /\ \A b \in Builds : pc'[b] = IF b = started' THEN "prepare" ELSE pc[b]
  BY SessionAssumption DEF Start, SessionInv, TypeOK, Builds
<1>4. SessionPhase' = "building"
  BY <1>3 DEF SessionPhase, Building, BuildingPc
<1>5. /\ queue' = queue /\ caught' = caught /\ caught \subseteq Builds
      /\ ~atHome /\ ~atHome' /\ (Quiet' <=> Quiet)
  BY Zenon DEF Start, history, Quiet, SessionInv, TypeOK
<1>6. pc[started'] = "unused"
  BY <1>3 DEF SessionInv, UnusedUntilStarted
<1>7. caught = {}
  BY <1>1, Idle
<1>8. (\E b \in caught : Building(b))' <=> \E b \in caught : Building(b)
  BY <1>5, <1>7
<1>9. Telling' = Telling /\ Lost' = Lost
  BY <1>3, <1>6 DEF Telling, Lost
<1>10. QED
  BY <1>2, <1>3, <1>4, <1>5, <1>8, <1>9, Zenon
     DEF Cycle!Begin, Cycle!threads, Telling, Lost

\* A click on Cancel stops the build or comes too early or too late.
LEMMA ClickCancelCycle ==
    ASSUME SessionInv, ClickCancel, Quiet, ~Crashed
    PROVE  Cycle!Stop \/ UNCHANGED Cycle!cycleVars
<1>1. /\ queue' = queue /\ pc' = pc /\ started' = started /\ atHome' = atHome
      /\ cancelAction' = cancelAction /\ (Quiet' <=> Quiet)
      /\ caught' = caught \cup {b \in Builds : pc[b] \in {"launch", "wait", "check"}}
  BY DEF ClickCancel, gui, thread, Quiet
<1>2. \A b \in Builds : Building(b)' <=> Building(b)
  BY <1>1 DEF Building
<1>3. SessionPhase' = SessionPhase
  BY <1>1, <1>2 DEF SessionPhase, Crashed
<1>7. Telling' = Telling /\ Lost' = Lost
  BY <1>1 DEF Telling, Lost
<1>4. CASE \E b \in caught' : Building(b)
  <2>1. SessionPhase = "building"
    BY <1>1, <1>4, PhaseFacts DEF SessionInv, TypeOK
  <2>2. (\E b \in caught : Building(b))'
    BY <1>1, <1>4 DEF Building
  <2>3. QED
    BY <1>1, <1>3, <1>7, <2>1, <2>2, Zenon DEF Cycle!Stop, Cycle!threads, Telling, Lost
<1>5. CASE ~\E b \in caught' : Building(b)
  <2>1. ~(\E b \in caught : Building(b))' /\ ~\E b \in caught : Building(b)
    BY <1>1, <1>5 DEF Building
  <2>2. QED
    BY <1>1, <1>3, <1>7, <2>1, Zenon DEF Cycle!cycleVars, Cycle!threads, Telling, Lost
<1>6. QED
  BY <1>4, <1>5

\* The end signal of a build is its announcement.
LEMMA HandleEndCycle ==
    ASSUME SessionInv, HandleEnd, Quiet, ~Crashed
    PROVE  Cycle!Announce
<1>1. /\ queue # <<>> /\ queue' = Tail(queue) /\ pc' = pc /\ started' = started
      /\ atHome' = atHome /\ ~cancelAction' /\ (Quiet' <=> Quiet) /\ caught' \subseteq caught
  BY DEF HandleEnd, thread, Quiet
<1>2. SessionPhase = "ended" /\ \A b \in Builds : ~Building(b)
  BY <1>1, PhaseFacts
<1>3. queue' = <<>>
  BY <1>1 DEF SessionInv, OneBuildAtATime, TypeOK
<1>4. \A b \in Builds : ~Building(b)'
  BY <1>1, <1>2 DEF Building
<1>5. ~Crashed'
  BY <1>1 DEF Crashed
<1>6. SessionPhase' = "idle"
  BY <1>1, <1>3, <1>4, <1>5 DEF SessionPhase
<1>7. ~(\E b \in caught : Building(b))' /\ ~\E b \in caught : Building(b)
  BY <1>1, <1>2, <1>4 DEF SessionInv, TypeOK
<1>8. Telling' = Telling /\ Lost' = Lost
  BY <1>1 DEF Telling, Lost
<1>9. QED
  BY <1>1, <1>2, <1>3, <1>6, <1>7, <1>8, Zenon
     DEF Cycle!Announce, Cycle!threads, Telling, Lost

\* Other changes of the project are none of its builds.
LEMMA EditCycle ==
    ASSUME SessionInv, Edit, Quiet, ~Crashed
    PROVE  UNCHANGED Cycle!cycleVars
<1>1. ~cancelAction /\ ~cancelAction'
  BY Zenon DEF Edit, MayEdit, Quiet
<1>2. /\ queue' = queue /\ pc' = pc /\ started' = started /\ atHome' = atHome
      /\ caught' = caught /\ (Quiet' <=> Quiet)
  BY DEF Edit, history, Quiet
<1>3. SessionPhase' = SessionPhase /\ ((\E b \in caught : Building(b))' <=> \E b \in caught : Building(b))
  BY <1>1, <1>2 DEF SessionPhase, Crashed, Building
<1>4. Telling' = Telling /\ Lost' = Lost
  BY <1>2 DEF Telling, Lost
<1>5. QED
  BY <1>2, <1>3, <1>4, Zenon DEF Cycle!cycleVars, Cycle!threads, Telling, Lost

\* The way home leaves the project under the threads that have yet to tell of
\* a cancellation, and no other.
LEMMA BackToHomeCycle ==
    ASSUME SessionInv, BackToHome, Quiet, ~Crashed
    PROVE  Cycle!Leave
<1>1. ~cancelAction /\ ~cancelAction' /\ ~atHome /\ atHome'
  BY Zenon DEF SessionInv, BackToHome, CancelWhileOpen
<1>2. queue = <<>> /\ caught = {} /\ SessionPhase = "idle" /\ \A b \in Builds : ~Building(b)
  BY <1>1, Idle, PhaseFacts
<1>3. /\ queue' = queue /\ started' = started /\ caught' = caught /\ (Quiet' <=> Quiet)
      /\ \A b \in Builds : pc'[b] = IF pc[b] = "notify" THEN "dangling" ELSE pc[b]
  BY <1>2 DEF BackToHome, history, Quiet, Running
<1>4. \A b \in Builds : ~Building(b)'
  BY <1>2, <1>3 DEF Building, BuildingPc
<1>5. SessionPhase' = "idle"
  BY <1>1, <1>2, <1>3, <1>4 DEF SessionPhase, Crashed
<1>6. ~(\E b \in caught : Building(b))' /\ ~\E b \in caught : Building(b)
  BY <1>2, <1>3
<1>7. Telling' = {} /\ Lost' = Lost \cup Telling
  BY <1>3 DEF Telling, Lost
<1>8. QED
  BY <1>1, <1>2, <1>3, <1>5, <1>6, <1>7, Zenon DEF Cycle!Leave, Telling, Lost

\* A project is opened while nothing is going on.
LEMMA OpenProjectCycle ==
    ASSUME SessionInv, OpenProject, Quiet, ~Crashed
    PROVE  Cycle!Enter
<1>1. ~cancelAction /\ ~cancelAction' /\ atHome /\ ~atHome'
  BY Zenon DEF SessionInv, OpenProject, CancelWhileOpen
<1>2. SessionPhase = "idle"
  BY <1>1, PhaseFacts
<1>3. /\ queue' = queue /\ pc' = pc /\ started' = started /\ caught' = caught
      /\ (Quiet' <=> Quiet)
  BY DEF OpenProject, history, thread, Quiet
<1>4. SessionPhase' = SessionPhase /\ ((\E b \in caught : Building(b))' <=> \E b \in caught : Building(b))
  BY <1>1, <1>3 DEF SessionPhase, Crashed, Building
<1>5. Telling' = Telling /\ Lost' = Lost
  BY <1>3 DEF Telling, Lost
<1>6. QED
  BY <1>1, <1>2, <1>3, <1>4, <1>5, Zenon DEF Cycle!Enter, Cycle!threads, Telling, Lost

\* What a command does is nothing to the cycle.
LEMMA BackgroundCycle ==
    ASSUME Background
    PROVE  UNCHANGED Cycle!cycleVars
<1>1. /\ queue' = queue /\ pc' = pc /\ started' = started /\ atHome' = atHome
      /\ caught' = caught /\ cancelAction' = cancelAction /\ (Quiet' <=> Quiet)
  BY DEF Background, gui, history, Quiet
<1>2. SessionPhase' = SessionPhase /\ ((\E b \in caught : Building(b))' <=> \E b \in caught : Building(b))
  BY <1>1 DEF SessionPhase, Crashed, Building
<1>3. Telling' = Telling /\ Lost' = Lost
  BY <1>1 DEF Telling, Lost
<1>4. QED
  BY <1>1, <1>2, <1>3, Zenon DEF Cycle!cycleVars, Cycle!threads, Telling, Lost

\* A thread goes on with its build, ends it with one signal, or vanishes; if
\* it was told to stop in time, the signal says so.
LEMMA MoveCycle ==
    ASSUME SessionInv, NEW b \in Builds, Move(b), Quiet, ~Crashed
    PROVE  Cycle!End \/ Cycle!Vanish \/ UNCHANGED Cycle!cycleVars
<1> DEFINE Stopped == \E c \in caught : Building(c)
<1>1. PICK l \in BuildingPc \cup {"notify", "done", "silent", "crashed"} :
         /\ pc' = [pc EXCEPT ![b] = l]
         /\ pc[b] \in {"launch", "wait", "check"} /\ cancelSignal
              => l \in {"launch", "wait", "check", "notify"}
         /\ \/ l \notin {"notify", "done"} /\ queue' = queue
            \/ \E kind \in {"success", "failure", "canceled"} :
                 /\ l = IF kind = "canceled" THEN "notify" ELSE "done"
                 /\ queue' = Append(queue, [kind |-> kind, build |-> b])
  BY DEF Move
<1>2. /\ started' = started /\ atHome' = atHome /\ cancelAction' = cancelAction
      /\ caught' = caught /\ caught \subseteq Builds /\ (Quiet' <=> Quiet)
  BY DEF Move, gui, history, Quiet, SessionInv, TypeOK
<1>3. Building(b) /\ \A c \in Builds : Building(c) => c = b
  BY PhaseFacts DEF Move
<1>4. queue = <<>> /\ cancelAction /\ SessionPhase = "building" /\ b = started
  BY <1>3, PhaseFacts
<1>5. \A c \in Builds : pc'[c] = IF c = b THEN l ELSE pc[c]
  BY <1>1 DEF SessionInv, TypeOK
<1>6. \A c \in Builds : Building(c)' <=> c = b /\ l \in BuildingPc
  BY <1>3, <1>5 DEF Building
<1>7. Stopped <=> b \in caught
  BY <1>2, <1>3
<1>8. Stopped' <=> Stopped /\ l \in BuildingPc
  BY <1>2, <1>6, <1>7
<1>9. b \in caught => pc[b] \in {"launch", "wait", "check"} /\ cancelSignal
  BY <1>2, <1>3 DEF SessionInv, CancelHonoured, CaughtSeesFlag, Building, BuildingPc
<1>10. /\ Telling' = IF l = "notify" THEN Telling \cup {b} ELSE Telling
       /\ Lost' = Lost
  BY <1>1, <1>3, <1>5 DEF Telling, Lost, Building, BuildingPc
<1>11. CASE l \in BuildingPc
  <2>1. l \notin {"notify", "done"}
    BY <1>11 DEF BuildingPc
  <2>2. queue' = queue
    BY <1>1, <2>1
  <2>3. SessionPhase' = "building"
    BY <1>6, <1>11 DEF SessionPhase
  <2>4. Stopped' <=> Stopped
    BY <1>8, <1>11
  <2>5. Telling' = Telling
    BY <1>10, <2>1
  <2>6. QED
    BY <1>2, <1>4, <1>10, <2>2, <2>3, <2>4, <2>5, Zenon
       DEF Cycle!cycleVars, Cycle!threads, Telling, Lost
<1>12. CASE l \in {"notify", "done"}
  <2>1. PICK kind \in {"success", "failure", "canceled"} :
          /\ l = IF kind = "canceled" THEN "notify" ELSE "done"
          /\ queue' = Append(queue, [kind |-> kind, build |-> b])
    BY <1>1, <1>12
  <2>2. queue' = <<[kind |-> kind, build |-> b]>>
    BY <1>4, <2>1
  <2>3. queue' # <<>> /\ Head(queue').kind = kind
    BY <2>2
  <2>4. ~Stopped' /\ (Stopped => kind = "canceled")
    BY <1>1, <1>7, <1>8, <1>9, <1>12, <2>1 DEF BuildingPc
  <2>5. SessionPhase' = "ended"
    BY <1>6, <1>12, <2>3 DEF SessionPhase, BuildingPc
  <2>6. (IF queue = <<>> THEN "none" ELSE Head(queue).kind)' = kind
    BY <2>3
  <2>7. Telling' = IF kind = "canceled" THEN Telling \cup {started} ELSE Telling
    BY <1>4, <1>10, <2>1
  <2>8. QED
    BY <1>2, <1>4, <1>10, <2>4, <2>5, <2>6, <2>7, Zenon DEF Cycle!End, Telling, Lost
<1>13. CASE l \in {"silent", "crashed"}
  <2>1. l \notin BuildingPc /\ queue' = queue
    BY <1>1, <1>13 DEF BuildingPc
  <2>2. ~Stopped /\ ~Stopped'
    BY <1>1, <1>7, <1>8, <1>9, <1>13, <2>1
  <2>3. SessionPhase' \in {"silent", "crashed"}
    BY <1>2, <1>4, <1>6, <2>1 DEF SessionPhase
  <2>4. Telling' = Telling
    BY <1>10, <1>13
  <2>5. QED
    BY <1>2, <1>4, <1>10, <2>1, <2>2, <2>3, <2>4, Zenon
       DEF Cycle!Vanish, Cycle!threads, Telling, Lost
<1>14. QED
  BY <1>1, <1>11, <1>12, <1>13

\* A thread that is done with its build tells of the cancellation.
LEMMA ToldCycle ==
    ASSUME SessionInv, NEW b \in Builds, Told(b)
    PROVE  Cycle!Tell
<1>1. /\ queue' = queue /\ started' = started /\ atHome' = atHome
      /\ caught' = caught /\ cancelAction' = cancelAction /\ (Quiet' <=> Quiet)
      /\ caught \subseteq Builds
  BY DEF Told, gui, history, Quiet, SessionInv, TypeOK
<1>2. pc[b] = "notify" /\ \A c \in Builds : pc'[c] = IF c = b THEN "done" ELSE pc[c]
  BY DEF Told, SessionInv, TypeOK
<1>3. \A c \in Builds : Building(c)' <=> Building(c)
  BY <1>2 DEF Building, BuildingPc
<1>4. Crashed' <=> Crashed
  BY <1>2 DEF Crashed
<1>5. SessionPhase' = SessionPhase
  BY <1>1, <1>3, <1>4 DEF SessionPhase
<1>6. (\E c \in caught : Building(c))' <=> \E c \in caught : Building(c)
  BY <1>1, <1>3
<1>7. b \in Telling /\ Telling' = Telling \ {b} /\ Lost' = Lost
  BY <1>2 DEF Telling, Lost
<1>8. \E c \in {c \in Builds : pc[c] = "notify"} :
         {d \in Builds : pc[d] = "notify"}' = {d \in Builds : pc[d] = "notify"} \ {c}
  BY <1>7 DEF Telling
<1>9. UNCHANGED <<started, SessionPhase, {c \in Builds : pc[c] = "dangling"}>>
  BY <1>1, <1>5, <1>7, Zenon DEF Lost
<1>10. UNCHANGED <<Quiet, ~atHome>>
  <2>1. Quiet' = Quiet
    BY Zenon DEF Told, Quiet
  <2>2. (~atHome)' = ~atHome
    BY <1>1
  <2>3. QED
    BY <2>1, <2>2, Zenon
<1>11. UNCHANGED \E c \in caught : Building(c)
  BY <1>6, Zenon
<1>12. UNCHANGED IF queue = <<>> THEN "none" ELSE Head(queue).kind
  BY <1>1
<1>13. QED
  BY <1>8, <1>9, <1>10, <1>11, <1>12 DEF Cycle!Tell

\* Every step of a session is one of the cycle, or none.
LEMMA NextCycle ==
    ASSUME SessionInv, [Next]_vars
    PROVE  [Cycle!CycleNext]_(Cycle!cycleVars)
<1>1. TypeOK /\ SessionInv'
  BY NextSessionInv DEF SessionInv
<1>2. CASE UNCHANGED vars
  <2>1. Background
    BY <1>2, Zenon DEF vars, Background, gui, history, thread
  <2>2. QED
    BY <2>1, BackgroundCycle
<1>3. CASE ~Quiet
  <2>1. setup' = setup
    BY <1>1, StepKinds, Zenon
       DEF Start, ClickCancel, HandleEnd, Edit, BackToHome, OpenProject, Background, Move, Told
  <2>2. QED
    BY <1>3, <2>1, Zenon DEF Quiet, Cycle!CycleNext, Cycle!Disturbed
<1>4. CASE Quiet /\ Next
  <2>1. ~Crashed
    BY <1>4 DEF Next
  <2>2. QED
    BY <1>1, <1>4, <2>1, StepKinds, StartCycle, ClickCancelCycle, HandleEndCycle,
       EditCycle, BackToHomeCycle, OpenProjectCycle, BackgroundCycle, MoveCycle, ToldCycle, Zenon
       DEF Cycle!CycleNext
<1>5. QED
  BY <1>2, <1>3, <1>4

-----------------------------------------------------------------------------
(* The theorems *)

\* Build and Cancel are never both enabled, whatever the user does to the
\* project and whenever the threads' signals arrive.
THEOREM BuildAndCancelNeverBoth == Spec => []BuildAndCancelExclusive
<1>1. SessionInv => BuildAndCancelExclusive
  BY DEF SessionInv
<1>2. QED
  BY <1>1, SessionInvariant, PTL

\* In a project left alone during builds at most one build is going on or
\* waiting to be announced, and only while Cancel is enabled.  The thread of one
\* that was canceled and announced may still have its message to give.
THEOREM QuietBuildsDoNotOverlap == Spec => []OneBuildAtATime
<1>1. SessionInv => OneBuildAtATime
  BY DEF SessionInv
<1>2. QED
  BY <1>1, SessionInvariant, PTL

\* No thread of such a project loses the view while it builds: the way home is
\* closed until its signal was handled.  What it can lose is the view it has yet
\* to tell of its cancellation.
THEOREM QuietViewsOutliveBuilds == Spec => ViewOutlivesBuilds
<1> DEFINE Outlives ==
      Quiet => \A b \in Builds : pc'[b] = "dangling" => pc[b] \in {"notify", "dangling"}
<1>1. ASSUME SessionInv, [Next]_vars PROVE Outlives
  <2>1. SUFFICES ASSUME Quiet, NEW b \in Builds, pc'[b] = "dangling", pc[b] # "dangling"
                 PROVE  pc[b] = "notify"
    OBVIOUS
  <2>2. pc \in [Builds -> BuildingPc \cup EndedPc \cup {"unused"}] /\ TypeOK
    BY <1>1 DEF SessionInv, TypeOK
  <2>3. CASE BackToHome
    <3>1. ~cancelAction
      BY <1>1, <2>3, Zenon DEF SessionInv, BackToHome, CancelWhileOpen
    <3>2. ~Building(b)
      BY <1>1, <2>1, <3>1, Idle
    <3>3. QED
      BY <2>1, <2>3, <3>2 DEF BackToHome, Running
  <2>4. CASE pc' = pc
    BY <2>1, <2>4
  <2>5. CASE Start
    BY <2>1, <2>2, <2>5 DEF Start
  <2>6. ASSUME NEW c \in Builds, Move(c) \/ Told(c) PROVE FALSE
    BY <2>1, <2>2, <2>6 DEF Move, Told, BuildingPc
  <2>7. QED
    BY <1>1, <2>2, <2>3, <2>4, <2>5, <2>6, StepKinds
       DEF ClickCancel, HandleEnd, Edit, OpenProject, Background, thread
<1>2. SessionInv /\ [Next]_vars => [Outlives]_vars
  BY <1>1
<1>3. QED
  BY <1>2, SessionInvariant, PTL DEF Spec, ViewOutlivesBuilds

\* A build of such a project that is canceled in time loads nothing and
\* reports nothing but its cancellation.
THEOREM CancellationInTimeIsHonoured == Spec => []CancelHonoured
<1>1. SessionInv => CancelHonoured
  BY DEF SessionInv
<1>2. QED
  BY <1>1, SessionInvariant, PTL

\* An empty source project left alone during builds is not built.
THEOREM EmptySourceIsNotBuilt == Spec => []EmptySourceNotBuilt
<1>1. SessionInv => EmptySourceNotBuilt
  BY DEF SessionInv
<1>2. QED
  BY <1>1, SessionInvariant, PTL

\* A build posts at most one end signal, and its thread is then gone, however
\* many builds are running.
THEOREM BuildsEndOnce == Spec => []EndsOnce
<1>1. SessionInv => EndsOnce
  BY DEF SessionInv
<1>2. QED
  BY <1>1, SessionInvariant, PTL

\* A session in which the project is left alone during builds is a cycle of
\* builds, as BuildCycle has it: each ends in one announcement, the project is
\* left only in between, and a cancellation in time is what is announced.
THEOREM SessionIsACycle == Spec => CycleImplemented
<1>1. Init => Cycle!CycleInit
  BY InitCycle
<1>2. SessionInv /\ [Next]_vars => [Cycle!CycleNext]_(Cycle!cycleVars)
  BY NextCycle
<1>3. QED
  BY <1>1, <1>2, SessionInvariant, PTL DEF Spec, CycleImplemented, Cycle!CycleSpec
=============================================================================
