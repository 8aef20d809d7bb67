-------------------------- MODULE BuildOutputs_proofs --------------------------
(***************************************************************************)
(* Proofs about the artifacts of BuildSession: what a source project that  *)
(* is left alone during its builds finds in its output folder, and what it *)
(* shows when it reports success.                                          *)
(***************************************************************************)
EXTENDS BuildSession_proofs

\* A command belongs to a thread that waits for it or, in a project that is
\* changed during builds, that is left dangling.
CliInv ==
    /\ \A b \in Builds : cli[b] # "none" => pc[b] = "wait" \/ (pc[b] = "dangling" /\ ~Quiet)
    /\ orphans \subseteq escaped

\* While a build runs, what is loaded is its own, unless Cancel was clicked.
OwnOutputs ==
    Quiet /\ ~Binary /\ escaped = {} =>
        \A b \in Builds : Building(b) =>
            /\ \A t \in Targets : outputs[t] \in {0, b}
            /\ pc[b] = "insert" => job[b].read = b
            /\ job[b].loaded /\ b \notin cancelled => \E t \in Targets : outputs[t] = b

OutputsInv == SessionInv /\ CliInv /\ OwnArtifacts /\ OwnOutputs /\ SuccessHasOutput

\* Initially there are neither commands nor artifacts.
LEMMA InitOutputsInv == Init => OutputsInv
<1> SUFFICES ASSUME Init PROVE OutputsInv
  OBVIOUS
<1>1. SessionInv
  BY InitSessionInv
<1>2. \A b \in Builds : cli[b] = "none" /\ ~Building(b)
  BY DEF Init, Building, BuildingPc
<1>3. queue = <<>> /\ Len(queue) = 0 /\ orphans = {}
  BY DEF Init
<1>4. QED
  BY <1>1, <1>2, <1>3 DEF OutputsInv, CliInv, OwnArtifacts, OwnOutputs, SuccessHasOutput

\* A thread takes a step: the command is there only while it waits.
LEMMA ThreadCliInv ==
    ASSUME TypeOK, CliInv, NEW b \in Builds, ThreadStep(b)
    PROVE  CliInv' /\ escaped \subseteq escaped'
<1> USE DEF left, Goto, BuildOver, Quiet
<1>1. /\ pc \in [Builds -> BuildingPc \cup EndedPc \cup {"unused"}]
      /\ cli \in [Builds -> {"none", "running", "quiet", "printed", "built"}]
  BY DEF TypeOK
<1>2. CASE LaunchCli(b)
  BY <1>1, <1>2 DEF LaunchCli, CliInv
<1>3. CASE CliReturns(b)
  BY <1>1, <1>3 DEF CliReturns, CliInv
<1>4. CASE CliAborts(b)
  BY <1>1, <1>4 DEF CliAborts, Escapes, CliInv
<1>5. ASSUME cli' = cli, orphans' = orphans, escaped' = escaped, setup' = setup,
             pc[b] \notin {"wait", "dangling"},
             \A c \in Builds : c # b => pc'[c] = pc[c]
      PROVE  CliInv' /\ escaped \subseteq escaped'
  BY <1>5 DEF CliInv
<1>6. CASE Prepare(b)
  BY <1>1, <1>5, <1>6 DEF Prepare
<1>7. CASE ResetCancel(b)
  BY <1>1, <1>5, <1>7 DEF ResetCancel
<1>8. CASE SkipTarget(b)
  BY <1>1, <1>5, <1>8 DEF SkipTarget
<1>9. CASE StopLaunching(b)
  BY <1>1, <1>5, <1>9 DEF StopLaunching
<1>10. CASE ReportCanceled(b)
  BY <1>1, <1>5, <1>10 DEF ReportCanceled
<1>11. CASE EndSilently(b)
  BY <1>1, <1>5, <1>11 DEF EndSilently
<1>12. CASE BeginLoad(b)
  BY <1>1, <1>5, <1>12 DEF BeginLoad
<1>13. CASE ReadMetadata(b)
  BY <1>1, <1>5, <1>13 DEF ReadMetadata
<1>14. CASE InsertOutput(b)
  BY <1>1, <1>5, <1>14 DEF InsertOutput
<1>15. CASE ReportLoaded(b)
  BY <1>1, <1>5, <1>15 DEF ReportLoaded
<1>16. CASE NotifyCanceled(b)
  BY <1>1, <1>5, <1>16 DEF NotifyCanceled
<1>17. QED
  BY <1>2, <1>3, <1>4, <1>6, <1>7, <1>8, <1>9, <1>10, <1>11, <1>12, <1>13, <1>14, <1>15, <1>16
     DEF ThreadStep

\* Every step keeps CliInv.
LEMMA NextCliInv ==
    ASSUME SessionInv, CliInv, [Next]_vars
    PROVE  CliInv' /\ escaped \subseteq escaped'
<1> USE DEF left, thread, gui, artifacts, Quiet
<1>1. /\ pc \in [Builds -> BuildingPc \cup EndedPc \cup {"unused"}]
      /\ cli \in [Builds -> {"none", "running", "quiet", "printed", "built"}]
      /\ started \in Nat
      /\ TypeOK
  BY SessionAssumption DEF SessionInv, TypeOK
<1>2. ASSUME NEW only \in BOOLEAN, StartBuild(only), setup' = setup, cli' = cli, orphans' = orphans, escaped' = escaped
      PROVE  CliInv' /\ escaped \subseteq escaped'
  <2>1. started' \in Builds /\ started' > started
    BY <1>1, <1>2, SessionAssumption DEF StartBuild, Builds
  <2>2. cli[started'] = "none"
    BY <2>1 DEF SessionInv, UnusedUntilStarted, CliInv
  <2>3. \A c \in Builds : c # started' => pc'[c] = pc[c]
    BY <1>1, <1>2 DEF StartBuild
  <2>4. QED
    BY <1>2, <2>2, <2>3 DEF CliInv
<1>3. ASSUME setup' = setup, cli' = cli, orphans' = orphans, escaped' = escaped, pc' = pc
      PROVE  CliInv' /\ escaped \subseteq escaped'
  BY <1>3 DEF CliInv
<1>4. CASE ClickBuild
  BY <1>2, <1>4 DEF ClickBuild
<1>5. CASE AddBinary
  BY <1>2, <1>3, <1>5 DEF AddBinary
<1>6. CASE ReloadBinary
  BY <1>2, <1>6 DEF ReloadBinary
<1>7. CASE BackToHome
  <2>1. Quiet => \A b \in Builds : ~Building(b)
    BY <1>7, Idle, Zenon DEF SessionInv, CancelWhileOpen, BackToHome
  <2>2. /\ setup' = setup /\ cli' = cli /\ orphans' = orphans /\ escaped' = escaped
        /\ pc' = [b \in Builds |-> IF Running(b) THEN "dangling" ELSE pc[b]]
    BY <1>7 DEF BackToHome
  <2>3. QED
    BY <2>1, <2>2 DEF CliInv, Running, Building, BuildingPc
<1>8. CASE \/ ClickCancel \/ AddFile \/ CloseSource \/ RemoveStage \/ CloseBinary \/ OpenProject
           \/ HandleEnd
  BY <1>3, <1>8 DEF ClickCancel, AddFile, CloseSource, RemoveStage, CloseBinary, OpenProject,
                    HandleEnd
<1>9. CASE OrphanExits
  BY <1>9 DEF OrphanExits, CliInv
<1>10. ASSUME NEW b \in Builds, CliExits(b) PROVE CliInv' /\ escaped \subseteq escaped'
  BY <1>1, <1>10 DEF CliExits, CliInv
<1>11. CASE UNCHANGED vars
  BY <1>3, <1>11 DEF vars
<1>12. QED
  BY <1>1, <1>4, <1>5, <1>6, <1>7, <1>8, <1>9, <1>10, <1>11, ThreadCliInv DEF Next, UserStep

-----------------------------------------------------------------------------
(* What is found, shown and reported *)

\* When Cancel is disabled in a quiet project nothing is built or announced.
LEMMA IdleOutputs ==
    ASSUME OneBuildAtATime', Quiet' => ~cancelAction'
    PROVE  OwnArtifacts' /\ OwnOutputs' /\ SuccessHasOutput'
<1>1. Quiet' => Len(queue') = 0 /\ \A b \in Builds : ~Building(b)'
  BY DEF OneBuildAtATime
<1>2. QED
  BY <1>1 DEF OwnArtifacts, OwnOutputs, SuccessHasOutput

\* The thread that runs in a quiet project is the only one, and no end signal
\* is on its way.
LEMMA OnlyThread ==
    ASSUME SessionInv, Quiet, NEW b \in Builds, Building(b)
    PROVE  queue = <<>> /\ Len(queue) = 0 /\ \A c \in Builds : Building(c) => c = b
BY DEF SessionInv, OneBuildAtATime

\* A build starts with an empty output folder and nothing to show.
LEMMA StartOutputs ==
    ASSUME SessionInv, ClickBuild, Quiet
    PROVE  OwnArtifacts' /\ OwnOutputs' /\ SuccessHasOutput'
<1>1. started' \in Builds /\ started' = started + 1
  BY SessionAssumption DEF ClickBuild, StartBuild, SessionInv, TypeOK, Builds
<1>2. /\ queue' = queue /\ cancelled' = cancelled
      /\ pc' = [pc EXCEPT ![started'] = "prepare"]
      /\ job' = [job EXCEPT ![started'] = NewJob(FALSE)]
      /\ disk' = NoArtifacts /\ outputs' = NoArtifacts
  BY DEF ClickBuild, StartBuild, history
<1>3. ~cancelAction
  BY Zenon DEF SessionInv, ClickBuild, BuildAndCancelExclusive
<1>4. Len(queue) = 0 /\ \A c \in Builds : ~Building(c)
  BY <1>3, Idle
<1>5. /\ pc'[started'] = "prepare" /\ ~job'[started'].loaded
      /\ \A c \in Builds : c # started' => pc'[c] = pc[c]
  BY <1>1, <1>2 DEF SessionInv, TypeOK, NewJob
<1>6. \A c \in Builds : Building(c)' => c = started'
  BY <1>4, <1>5 DEF Building
<1>7. \A t \in Targets : disk'[t] = 0 /\ outputs'[t] = 0
  BY <1>2 DEF NoArtifacts
<1>8. OwnArtifacts'
  BY <1>7 DEF OwnArtifacts
<1>9. OwnOutputs'
  BY <1>5, <1>6, <1>7 DEF OwnOutputs
<1>10. SuccessHasOutput'
  BY <1>2, <1>4 DEF SuccessHasOutput
<1>11. QED
  BY <1>8, <1>9, <1>10

\* Cancel removes what there is; what is still running is canceled.
LEMMA CancelOutputs ==
    ASSUME SessionInv, OwnOutputs, ClickCancel, Quiet
    PROVE  OwnArtifacts' /\ OwnOutputs' /\ SuccessHasOutput'
<1>1. /\ queue' = queue /\ pc' = pc /\ job' = job
      /\ cancelled' = cancelled \cup {b \in Builds : Building(b) \/ EndQueued(b)}
      /\ disk' = NoArtifacts /\ outputs' = NoArtifacts
  BY DEF ClickCancel, thread
<1>2. \A t \in Targets : disk'[t] = 0 /\ outputs'[t] = 0
  BY <1>1 DEF NoArtifacts
<1>3. \A b \in Builds : Building(b)' => Building(b) /\ b \in cancelled'
  BY <1>1 DEF Building
<1>4. (Binary' <=> Binary) /\ escaped' = escaped
  BY DEF ClickCancel, Binary, thread, left
<1>5. \A i \in 1 .. Len(queue') : queue'[i].build \in cancelled'
  <2>1. SUFFICES ASSUME NEW i \in 1 .. Len(queue) PROVE queue[i].build \in cancelled'
    BY <1>1
  <2>2. queue[i].build \in Builds /\ EndQueued(queue[i].build)
    BY QueueFacts DEF SessionInv, EndQueued
  <2>3. QED
    BY <1>1, <2>2
<1>6. OwnArtifacts' /\ SuccessHasOutput'
  BY <1>2, <1>5 DEF OwnArtifacts, SuccessHasOutput
<1>7. OwnOutputs'
  BY <1>1, <1>2, <1>3, <1>4 DEF OwnOutputs
<1>8. QED
  BY <1>6, <1>7

\* A command that is waited for writes for the build that runs.
LEMMA CliExitsOutputs ==
    ASSUME OutputsInv, Quiet, ~Binary, NEW b \in Builds, CliExits(b)
    PROVE  OwnArtifacts' /\ OwnOutputs' /\ SuccessHasOutput'
<1>1. /\ queue' = queue /\ pc' = pc /\ job' = job /\ outputs' = outputs
      /\ escaped' = escaped /\ cancelled' = cancelled
      /\ disk' = disk \/ disk' = [disk EXCEPT ![job[b].target] = b]
      /\ (Quiet' <=> Quiet) /\ (Binary' <=> Binary)
  BY DEF CliExits, left, history, Quiet, Binary
<1>2. pc[b] = "wait" /\ Building(b)
  BY DEF CliExits, OutputsInv, SessionInv, CliInv, Building, BuildingPc
<1>3. \A c \in Builds : Building(c) => c = b
  BY <1>2, OnlyThread DEF OutputsInv
<1>4. disk \in [Targets -> Artifact]
  BY DEF OutputsInv, SessionInv, TypeOK
<1>5. \A t \in Targets : disk'[t] = disk[t] \/ disk'[t] = b
  BY <1>1, <1>4
<1>6. OwnArtifacts'
  BY <1>1, <1>3, <1>5 DEF OutputsInv, OwnArtifacts, Building
<1>7. OwnOutputs' /\ SuccessHasOutput'
  BY <1>1 DEF OutputsInv, OwnOutputs, SuccessHasOutput, Building
<1>8. QED
  BY <1>6, <1>7

\* One that nobody waits for is among those that escaped.
LEMMA OrphanOutputs ==
    ASSUME OutputsInv, OrphanExits
    PROVE  OwnArtifacts' /\ OwnOutputs' /\ SuccessHasOutput'
<1>1. PICK o \in orphans : disk' = disk \/ disk' = [disk EXCEPT ![o[2]] = o[1]]
  BY DEF OrphanExits
<1>2. /\ queue' = queue /\ pc' = pc /\ job' = job /\ outputs' = outputs
      /\ escaped' = escaped /\ cancelled' = cancelled
      /\ (Quiet' <=> Quiet) /\ (Binary' <=> Binary)
  BY DEF OrphanExits, history, Quiet, Binary
<1>3. o \in escaped /\ o = <<o[1], o[2]>>
  BY DEF OutputsInv, SessionInv, TypeOK, CliInv
<1>4. disk \in [Targets -> Artifact]
  BY DEF OutputsInv, SessionInv, TypeOK
<1>5. \A t \in Targets : disk'[t] = disk[t] \/ <<disk'[t], t>> \in escaped
  BY <1>1, <1>3, <1>4
<1>6. OwnArtifacts'
  BY <1>2, <1>5 DEF OutputsInv, OwnArtifacts, Building
<1>7. OwnOutputs' /\ SuccessHasOutput'
  BY <1>2 DEF OutputsInv, OwnOutputs, SuccessHasOutput, Building
<1>8. QED
  BY <1>6, <1>7

\* A thread reads what is its own, and reports success once it has loaded it.
LEMMA ThreadOutputs ==
    ASSUME OutputsInv, escaped \subseteq escaped', Quiet, ~Binary,
           NEW b \in Builds, ThreadStep(b)
    PROVE  OwnArtifacts' /\ OwnOutputs' /\ SuccessHasOutput'
<1> USE DEF left, history, artifacts, Goto, BuildOver, Post
<1>1. /\ pc \in [Builds -> BuildingPc \cup EndedPc \cup {"unused"}]
      /\ job \in [Builds -> JobType]
      /\ disk \in [Targets -> Artifact] /\ outputs \in [Targets -> Artifact]
  BY DEF OutputsInv, SessionInv, TypeOK
<1>21. CASE NotifyCanceled(b)
  <2>1. /\ queue' = queue /\ disk' = disk /\ outputs' = outputs /\ job' = job
        /\ cancelled' = cancelled /\ setup' = setup /\ escaped' = escaped
        /\ pc[b] = "notify" /\ pc' = [pc EXCEPT ![b] = "done"]
    BY <1>21 DEF NotifyCanceled
  <2>2. \A c \in Builds : (Building(c)' <=> Building(c)) /\ (pc'[c] = "insert" => pc[c] = "insert")
    BY <1>1, <2>1 DEF Building, BuildingPc
  <2>3. (Quiet' <=> Quiet) /\ (Binary' <=> Binary)
    BY <2>1 DEF Quiet, Binary
  <2>4. OwnArtifacts'
    BY <2>1, <2>2, <2>3 DEF OutputsInv, OwnArtifacts
  <2>5. OwnOutputs'
    BY <2>1, <2>2, <2>3 DEF OutputsInv, OwnOutputs
  <2>6. SuccessHasOutput'
    BY <2>1, <2>3 DEF OutputsInv, SuccessHasOutput
  <2>7. QED
    BY <2>4, <2>5, <2>6
<1>22. SUFFICES ASSUME ~NotifyCanceled(b) PROVE OwnArtifacts' /\ OwnOutputs' /\ SuccessHasOutput'
  BY <1>21
<1>2. Building(b)
  BY <1>22 DEF ThreadStep, Prepare, ResetCancel, LaunchCli, SkipTarget, StopLaunching, CliReturns,
         CliAborts, ReportCanceled, EndSilently, BeginLoad, ReadMetadata, InsertOutput,
         ReportLoaded, Building, BuildingPc
<1>3. queue = <<>> /\ Len(queue) = 0 /\ \A c \in Builds : Building(c) => c = b
  BY <1>2, OnlyThread DEF OutputsInv
<1>4. /\ disk' = disk /\ setup' = setup /\ cancelled' = cancelled
      /\ \E l \in BuildingPc \cup EndedPc : pc' = [pc EXCEPT ![b] = l]
  <2>0. pc = [pc EXCEPT ![b] = pc[b]] /\ pc[b] \in BuildingPc
    BY <1>1, <1>2 DEF Building
  <2> USE DEF BuildingPc, EndedPc
  <2>1. CASE Prepare(b) \/ ResetCancel(b) \/ StopLaunching(b) \/ EndSilently(b) \/ BeginLoad(b)
    BY <2>1 DEF Prepare, ResetCancel, StopLaunching, EndSilently, BeginLoad
  <2>2. CASE LaunchCli(b) \/ SkipTarget(b) \/ ReadMetadata(b)
    BY <2>0, <2>2, Zenon DEF LaunchCli, SkipTarget, ReadMetadata
  <2>3. CASE CliReturns(b) \/ CliAborts(b)
    BY <2>3, Zenon DEF CliReturns, CliAborts, Binary
  <2>4. CASE ReportCanceled(b) \/ InsertOutput(b) \/ ReportLoaded(b)
    BY <2>4 DEF ReportCanceled, InsertOutput, ReportLoaded
  <2>5. QED
    BY <1>22, <2>1, <2>2, <2>3, <2>4 DEF ThreadStep
<1>5. (Quiet' <=> Quiet) /\ (Binary' <=> Binary)
  BY <1>4 DEF Quiet, Binary
<1>6. \A c \in Builds : Building(c)' => c = b
  BY <1>1, <1>3, <1>4 DEF Building
<1>7. OwnArtifacts'
  BY <1>2, <1>4, <1>5, <1>6 DEF OutputsInv, OwnArtifacts
<1>8. ASSUME queue' = queue, outputs' = outputs, pc'[b] # "insert",
             Building(b)' => job'[b].loaded = job[b].loaded
      PROVE  OwnArtifacts' /\ OwnOutputs' /\ SuccessHasOutput'
  <2>1. OwnOutputs'
    BY <1>2, <1>4, <1>5, <1>6, <1>8 DEF OutputsInv, OwnOutputs
  <2>2. SuccessHasOutput'
    BY <1>3, <1>8 DEF SuccessHasOutput
  <2>3. QED
    BY <1>7, <2>1, <2>2
<1> USE DEF Building, BuildingPc, EndedPc
<1>9. CASE Prepare(b) \/ EndSilently(b)
  BY <1>1, <1>8, <1>9 DEF Prepare, EndSilently
<1>10. CASE ResetCancel(b) \/ StopLaunching(b)
  BY <1>1, <1>8, <1>10 DEF ResetCancel, StopLaunching
<1>11. CASE LaunchCli(b)
  BY <1>1, <1>8, <1>11 DEF LaunchCli, JobType
<1>12. CASE SkipTarget(b)
  BY <1>1, <1>8, <1>12 DEF SkipTarget, JobType
<1>13. CASE CliReturns(b)
  BY <1>1, <1>8, <1>13 DEF CliReturns, JobType
<1>14. CASE CliAborts(b)
  <2>1. queue' = queue /\ outputs' = outputs /\ pc' = [pc EXCEPT ![b] = "launch"]
    BY <1>14, Zenon DEF CliAborts
  <2>2. \/ job' = [job EXCEPT ![b].ret = FALSE]
        \/ \E found \in BOOLEAN :
               job' = [job EXCEPT ![b].ret = TRUE,
                                  ![b].gpus = IF found THEN @ \cup {job[b].target} ELSE @]
    BY <1>14, Zenon DEF CliAborts
  <2>3. job'[b].loaded = job[b].loaded
    BY <1>1, <2>2 DEF JobType
  <2>4. QED
    BY <1>1, <1>8, <2>1, <2>3
<1>15. CASE BeginLoad(b)
  BY <1>1, <1>8, <1>15 DEF BeginLoad, JobType
<1>16. CASE ReportCanceled(b)
  <2>1. OwnOutputs'
    BY <1>1, <1>6, <1>16 DEF ReportCanceled, OwnOutputs
  <2>2. queue' = <<[kind |-> "canceled", build |-> b]>>
    BY <1>3, <1>16 DEF ReportCanceled
  <2>3. SuccessHasOutput'
    BY <2>2 DEF SuccessHasOutput
  <2>4. QED
    BY <1>7, <2>1, <2>3
<1>17. CASE ReadMetadata(b)
  <2>1. PICK t \in job[b].todo :
           \/ /\ disk[t] # 0
              /\ job' = [job EXCEPT ![b].todo = @ \ {t}, ![b].target = t, ![b].read = disk[t]]
              /\ pc' = [pc EXCEPT ![b] = "insert"]
           \/ /\ job' = [job EXCEPT ![b].todo = @ \ {t}]
              /\ pc' = pc
    BY <1>17, Zenon DEF ReadMetadata
  <2>2. /\ queue' = queue /\ outputs' = outputs /\ escaped' = escaped
        /\ pc[b] = "load" /\ t \in Targets
    BY <1>1, <1>17, <2>1, JobFacts DEF ReadMetadata, OutputsInv, SessionInv
  <2>3. CASE pc' = pc /\ job' = [job EXCEPT ![b].todo = @ \ {t}]
    BY <1>1, <1>8, <2>2, <2>3 DEF JobType
  <2>4. CASE /\ disk[t] # 0
             /\ job' = [job EXCEPT ![b].todo = @ \ {t}, ![b].target = t, ![b].read = disk[t]]
             /\ pc' = [pc EXCEPT ![b] = "insert"]
    <3>1. escaped = {} => disk[t] = b
      BY <1>2, <2>2, <2>4 DEF OutputsInv, OwnArtifacts
    <3>2. job'[b].read = disk[t] /\ job'[b].loaded = job[b].loaded
      BY <1>1, <2>4 DEF JobType
    <3>3. OwnOutputs'
      BY <1>2, <1>4, <1>5, <1>6, <2>2, <3>1, <3>2 DEF OutputsInv, OwnOutputs
    <3>4. SuccessHasOutput'
      BY <1>3, <2>2 DEF SuccessHasOutput
    <3>5. QED
      BY <1>7, <3>3, <3>4
  <2>5. QED
    BY <2>1, <2>3, <2>4
<1>18. CASE InsertOutput(b)
  <2>1. /\ outputs' = [outputs EXCEPT ![job[b].target] = job[b].read]
        /\ pc[b] = "insert" /\ pc'[b] = "load" /\ queue' = queue /\ escaped' = escaped
        /\ job[b].target \in Targets
    BY <1>1, <1>18, JobFacts DEF InsertOutput, OutputsInv, SessionInv
  <2>2. \A t \in Targets : outputs'[t] = IF t = job[b].target THEN job[b].read ELSE outputs[t]
    BY <1>1, <2>1
  <2>3. OwnOutputs'
    BY <1>2, <1>4, <1>5, <1>6, <2>1, <2>2 DEF OutputsInv, OwnOutputs
  <2>4. SuccessHasOutput'
    BY <1>3, <2>1 DEF SuccessHasOutput
  <2>5. QED
    BY <1>7, <2>3, <2>4
<1>19. CASE ReportLoaded(b)
  <2>1. OwnOutputs'
    BY <1>1, <1>6, <1>19 DEF ReportLoaded, OwnOutputs
  <2>2. /\ queue' = <<[kind |-> IF job[b].loaded THEN "success" ELSE "failure", build |-> b]>>
        /\ outputs' = outputs /\ escaped' = escaped
    BY <1>3, <1>19 DEF ReportLoaded
  <2>3. \A i \in 1 .. Len(queue') :
           /\ queue'[i].build = b
           /\ queue'[i].kind = "success" => job[b].loaded
    BY <2>2
  <2>4. SuccessHasOutput'
    BY <1>2, <1>4, <1>5, <2>2, <2>3 DEF OutputsInv, OwnOutputs, SuccessHasOutput
  <2>5. QED
    BY <1>7, <2>1, <2>4
<1>20. QED
  BY <1>7, <1>22, <1>9, <1>10, <1>11, <1>12, <1>13, <1>14, <1>15, <1>16, <1>17, <1>18, <1>19
     DEF ThreadStep

LEMMA NextOutputsInv == OutputsInv /\ [Next]_vars => OutputsInv'
<1> SUFFICES ASSUME OutputsInv, [Next]_vars PROVE OutputsInv'
  OBVIOUS
<1>1. SessionInv'
  BY NextSessionInv DEF OutputsInv
<1>2. TypeOK /\ CliInv' /\ escaped \subseteq escaped'
  BY NextCliInv DEF OutputsInv, SessionInv
<1>3. (Quiet' <=> Quiet) /\ (Binary' <=> Binary)
  <2>1. setup' = setup
    BY <1>2, StepKinds DEF Start, ClickCancel, HandleEnd, Edit, BackToHome, OpenProject,
                           Background, Move, Told
  <2>2. QED
    BY <2>1 DEF Quiet, Binary
<1>4. OwnArtifacts' /\ OwnOutputs' /\ SuccessHasOutput'
  <2>1. CASE ~Quiet \/ Binary
    BY <1>3, <2>1 DEF OwnArtifacts, OwnOutputs, SuccessHasOutput
  <2>2. ASSUME Quiet, ~Binary PROVE OwnArtifacts' /\ OwnOutputs' /\ SuccessHasOutput'
    <3>1. CASE ClickBuild
      BY <2>2, <3>1, StartOutputs DEF OutputsInv
    <3>2. CASE ClickCancel
      BY <2>2, <3>2, CancelOutputs DEF OutputsInv
    <3>3. CASE AddFile \/ BackToHome \/ OpenProject \/ HandleEnd
      <4>1. ~cancelAction'
        BY <3>3, Zenon DEF AddFile, BackToHome, OpenProject, HandleEnd
      <4>2. QED
        BY <1>1, <4>1, IdleOutputs DEF SessionInv
    <3>4. CASE CloseSource \/ RemoveStage
      <4>1. ~cancelAction'
        BY <2>2, <3>4, Zenon DEF CloseSource, RemoveStage, MayEdit, Quiet
      <4>2. QED
        BY <1>1, <4>1, IdleOutputs DEF SessionInv
    <3>5. CASE AddBinary \/ ReloadBinary \/ CloseBinary
      BY <2>2, <3>5 DEF AddBinary, ReloadBinary, CloseBinary
    <3>6. CASE OrphanExits
      BY <3>6, OrphanOutputs
    <3>7. ASSUME NEW b \in Builds, CliExits(b)
          PROVE  OwnArtifacts' /\ OwnOutputs' /\ SuccessHasOutput'
      BY <2>2, <3>7, CliExitsOutputs
    <3>8. ASSUME NEW b \in Builds, ThreadStep(b)
          PROVE  OwnArtifacts' /\ OwnOutputs' /\ SuccessHasOutput'
      BY <1>2, <2>2, <3>8, ThreadOutputs
    <3>9. CASE UNCHANGED vars
      BY <3>9 DEF OutputsInv, OwnArtifacts, OwnOutputs, SuccessHasOutput, vars, Building, Quiet, Binary,
                  gui, artifacts, left, thread, history
    <3>10. QED
      BY <3>1, <3>2, <3>3, <3>4, <3>5, <3>6, <3>7, <3>8, <3>9 DEF Next, UserStep
  <2>3. QED
    BY <2>1, <2>2
<1>5. QED
  BY <1>1, <1>2, <1>4 DEF OutputsInv

LEMMA OutputsInvariant == Spec => []OutputsInv
<1>1. Init => OutputsInv
  BY InitOutputsInv
<1>2. OutputsInv /\ [Next]_vars => OutputsInv'
  BY NextOutputsInv
<1>3. QED
  BY <1>1, <1>2, PTL DEF Spec

-----------------------------------------------------------------------------
(* The theorems *)

\* The build of a source project left alone finds in the output folder only
\* what its own commands wrote, or one that outlived a canceled build.
THEOREM SourceBuildsFindOwnArtifacts == Spec => []OwnArtifacts
<1>1. OutputsInv => OwnArtifacts
  BY DEF OutputsInv
<1>2. QED
  BY <1>1, OutputsInvariant, PTL

\* When such a build announces success, what it made is loaded, and nothing
\* else is, unless Cancel was clicked or a command escaped.
THEOREM SuccessShowsOwnOutput == Spec => []SuccessHasOutput
<1>1. OutputsInv => SuccessHasOutput
  BY DEF OutputsInv
<1>2. QED
  BY <1>1, OutputsInvariant, PTL
================================================================================
