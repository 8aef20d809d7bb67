--------------------------- MODULE OpenclOffline ---------------------------
(***************************************************************************)
(* One run of the command line tool on OpenCL sources: `rga -s opencl`,    *)
(* from the target GPUs that the user names to the exit of the process     *)
(* (KcCLICommanderLightning and KcUtilsLightning).                         *)
(*                                                                         *)
(* The tool compiles for one target after the other, takes the binary of   *)
(* each apart into the ISA of its kernels, and then makes one pass over    *)
(* all kernels of all targets for every kind of analysis.  What one pass   *)
(* knows of the ones before it is output_metadata_, a map from a target    *)
(* and a kernel to the files made for them.  Each command that it starts,  *)
(* and each file that it writes, may fail; no failure stops the run.       *)
(*                                                                         *)
(* A target or a kernel is a number, in the order of the names.  Asserts   *)
(* are left out, as they are in a release build.                           *)
(***************************************************************************)
EXTENDS Naturals, Sequences, FiniteSets

CONSTANTS
    Known,    \* names of targets that the compiler supports
    Extra,    \* names listed only in the file "additional-targets"
    Unknown,  \* other names
    Default,  \* the target when none is named
    Kernel,   \* the kernels of the sources
    Missing,  \* a kernel name that is in no source
    Commands, \* bound: the sets of options a user may give
    MaxNames, \* bound: targets named in one command
    MaxEmpty  \* bound: files left empty in one run

Name == Known \cup Extra \cup Unknown
Target == Known \cup Extra
Option == {"isa", "bin", "il", "stats", "livereg", "sgpr", "cfg", "csv", "md", "session"}

ASSUME OfflineAssumption ==
    /\ Name \subseteq Nat /\ Kernel \subseteq Nat \ {0} /\ Kernel # {}
    /\ Known \cap Extra = {} /\ Unknown \cap Target = {}
    /\ Default \in Known /\ Missing \in Nat \ (Kernel \cup {0})
    /\ Commands \subseteq SUBSET Option
    /\ MaxNames \in Nat /\ MaxEmpty \in Nat

NoKernel == 0                    \* the empty kernel name
Key == Target \X (Kernel \cup {NoKernel})
AllKernels == NoKernel           \* no kernel is asked for by name

\* The files made for a target and a kernel; "tmp" in the temp directory.
Kind == {"isa", "tmpisa", "bin", "tmpbin", "il", "stats", "livereg", "sgpr", "cfg", "csv", "md"}
File == Kind \X Key
SessionFile == <<"session", 0>>
Binary(kind, t) == <<kind, <<t, NoKernel>>>>

\* RgOutputFiles.  `wave` is whether the wave size of the kernel is known, and
\* `livereg` with which wave size live registers were analyzed.
Entry == [status : BOOLEAN, bin : {"none", "bin", "tmpbin"}, tmp : BOOLEAN, isa : {"none", "isa", "tmpisa"},
          csv : BOOLEAN, stats : BOOLEAN, wave : BOOLEAN,
          livereg : {"none", "default", "known"}, sgpr : BOOLEAN]
NewEntry == [status |-> TRUE, bin |-> "none", tmp |-> FALSE, isa |-> "none", csv |-> FALSE,
             stats |-> FALSE, wave |-> FALSE, livereg |-> "none", sgpr |-> FALSE]
ErrorEntry == [NewEntry EXCEPT !.status = FALSE]

VARIABLES
    cmd,      \* the command line: the targets, the options and the kernel asked for
    pc,       \* where the run is
    named,    \* names handled so far
    matched,  \* InitRequestedAsicListLC's ret
    targets,  \* targets_
    reported, \* names of which the user was told that they are unknown
    todo,     \* targets that are still to be compiled
    status,   \* CompileOpenCL's status, then Compile's result
    meta,     \* output_metadata_
    disk,     \* the files, from this run or from an earlier one
    empty,    \* binaries and ISA files of this run in which there is not a byte
    streams,  \* a file that took the output of a command was left behind
    unnamed,  \* history: targets for which no temp file name was found
    compiled, \* history: targets whose binary the compiler has made
    good,     \* history: targets whose binary was taken apart, too
    broken    \* history: files whose tool or whose writing failed

vars == <<cmd, pc, named, matched, targets, reported, todo, status, meta, disk, empty, streams,
          unnamed, compiled, good, broken>>
history == <<unnamed, compiled, good, broken>>
list == <<named, matched, targets, reported>>
files == <<disk, empty, streams>>

Places == {"names", "compile", "csv", "stats", "livereg", "sgpr", "cfg", "md",
           "session", "cleanup", "done"}

TypeOK ==
    /\ cmd \in [names : Seq(Name), opts : Commands, kernel : Kernel \cup {AllKernels, Missing}]
    /\ pc \in Places
    /\ named \in Nat /\ matched \in BOOLEAN
    /\ targets \subseteq Target /\ reported \subseteq Name
    /\ todo \subseteq targets
    /\ status \in BOOLEAN
    /\ DOMAIN meta \subseteq Key
    /\ \A key \in DOMAIN meta : meta[key] \in Entry
    /\ disk \in [File \cup {SessionFile} -> {"none", "old", "new"}]
    /\ empty \subseteq File /\ streams \in BOOLEAN
    /\ unnamed \subseteq targets /\ compiled \subseteq targets /\ good \subseteq compiled
    /\ broken \subseteq File

NoEntries == [key \in {} |-> NewEntry]

\* The output files may be there from an earlier run; temp files have new names.
Init ==
    /\ cmd \in [names : UNION {[1 .. n -> Name] : n \in 0 .. MaxNames},
                opts : Commands, kernel : Kernel \cup {AllKernels, Missing}]
    /\ pc = "names" /\ named = 0 /\ matched = FALSE
    /\ targets = {} /\ reported = {} /\ todo = {}
    /\ status = TRUE
    /\ meta = NoEntries
    /\ \E before \in {"none", "old"} :
          disk = [f \in File \cup {SessionFile} |->
                     IF f[1] \in {"tmpisa", "tmpbin"} THEN "none" ELSE before]
    /\ empty = {} /\ streams = FALSE
    /\ unnamed = {} /\ compiled = {} /\ good = {} /\ broken = {}

-----------------------------------------------------------------------------
Asked(o) == o \in cmd.opts
Requested(k) == cmd.kernel \in {AllKernels, k}
IsMultiple == Len(cmd.names) > 1

\* std::map::operator[] with new values for some keys.
Put(m, new) == [key \in DOMAIN m \cup DOMAIN new |-> IF key \in DOMAIN new THEN new[key] ELSE m[key]]

\* The files of S come from this run or are gone.
Written(d, S) == [f \in DOMAIN d |-> IF f \in S THEN "new" ELSE d[f]]
Deleted(d, S) == [f \in DOMAIN d |-> IF f \in S THEN "none" ELSE d[f]]

\* LaunchProcess sends stdout and stderr of a command to a temp file each, and
\* removes those that hold something once the command has ended: one that
\* printed nothing to either of them leaves a file, one that could not be
\* started or was timed out may leave both.  (On Windows it uses pipes.)
Launches == streams' \in {streams, TRUE}

\* Entries whose status is not an error.
Fine == {key \in DOMAIN meta : meta[key].status}

-----------------------------------------------------------------------------
(* InitRequestedAsicListLC, one name a step.  `ret` is not reset between    *)
(* two names: behind one that was matched, a name is looked up neither in   *)
(* "additional-targets" nor reported.                                       *)

\* Slip: ret is set before the name is looked up.
MatchAnyName ==
    LET n == cmd.names[named + 1]
        isKnown == n \in Known
        isExtra == ~isKnown /\ ~matched /\ n \in Extra
    IN /\ pc = "names" /\ named < Len(cmd.names)
       /\ named' = named + 1
       /\ targets' = IF isKnown \/ isExtra THEN targets \cup {n} ELSE targets
       /\ matched' = TRUE
       /\ reported' = IF matched' THEN reported ELSE reported \cup {n}
       /\ UNCHANGED <<cmd, pc, todo, status, meta, files, history>>

MatchName ==
    LET n == cmd.names[named + 1]
        isKnown == n \in Known
        isExtra == ~isKnown /\ ~matched /\ n \in Extra
    IN /\ pc = "names" /\ named < Len(cmd.names)
       /\ named' = named + 1
       /\ targets' = IF isKnown \/ isExtra THEN targets \cup {n} ELSE targets
       /\ matched' = (matched \/ isKnown \/ isExtra)
       /\ reported' = IF matched' THEN reported ELSE reported \cup {n}
       /\ UNCHANGED <<cmd, pc, todo, status, meta, files, history>>

\* Slip: names that were not matched are compiled for, too.
StartWithAllNames ==
    LET T == IF cmd.names = <<>> THEN {Default} ELSE {cmd.names[i] : i \in DOMAIN cmd.names}
    IN /\ pc = "names" /\ named = Len(cmd.names)
       /\ targets' = T /\ todo' = T
       /\ status' = (T # {})
       /\ pc' = IF T # {} THEN "compile" ELSE "stats"
       /\ UNCHANGED <<cmd, named, matched, reported, meta, files, history>>

\* Compile goes on with the targets, or fails when there are none.
StartCompile ==
    LET T == IF cmd.names = <<>> THEN {Default} ELSE targets
    IN /\ pc = "names" /\ named = Len(cmd.names)
       /\ targets' = T /\ todo' = T
       /\ status' = (T # {})
       /\ pc' = IF T # {} THEN "compile" ELSE "stats"
       /\ UNCHANGED <<cmd, named, matched, reported, meta, files, history>>

-----------------------------------------------------------------------------
(* CompileOpenCL, the round for one target.                                 *)

BinaryKind == IF Asked("bin") THEN "bin" ELSE "tmpbin"
IsaKind == IF Asked("isa") THEN "isa" ELSE "tmpisa"
NeedsIsa == cmd.opts \cap {"isa", "stats", "livereg", "sgpr", "cfg"} # {}

Round(t) ==
    /\ pc = "compile" /\ t \in todo /\ \A u \in todo : t <= u
    /\ todo' = todo \ {t}
    /\ UNCHANGED <<cmd, pc, list>>

\* Slip: the last round decides.
LastRoundDecides(success) == status' = success

\* What the round leaves in CompileOpenCL's status.
RoundEnds(success) == status' = (status /\ success)

\* AdjustBinaryFileName finds no name for a temp file; the failure is not kept.
NoBinaryName(t) ==
    /\ Round(t) /\ ~Asked("bin")
    /\ unnamed' = unnamed \cup {t}
    /\ UNCHANGED <<status, meta, files, compiled, good, broken>>

\* Binaries and ISA files of S are made.  Any of them may stay empty: of a
\* binary it is only looked whether it is there (VerifyCompilerOutput), of an
\* ISA file whether it could be opened (WriteTextFile).
Makes(S) ==
    /\ disk' = Written(disk, S)
    /\ \E E \in SUBSET {f \in S : f[1] \in {BinaryKind, IsaKind}} :
          empty' = empty \cup E /\ Cardinality(empty') <= MaxEmpty

\* CompileOpenCLToBinary fails; the compiler may leave a part of the binary.
CompileFails(t) ==
    /\ Round(t)
    /\ \/ Makes({Binary(BinaryKind, t)})
       \/ disk' = Deleted(disk, {Binary(BinaryKind, t)}) /\ UNCHANGED empty
    /\ Launches
    /\ meta' = Put(meta, [key \in {<<t, NoKernel>>} |-> ErrorEntry])
    /\ RoundEnds(FALSE)
    /\ UNCHANGED history

\* The binary is made.  DumpIL is called when its file was asked for; what it
\* returns counts only when no ISA is needed.
Compiles(t, ilWritten) ==
    /\ Round(t)
    /\ ilWritten => Asked("il")
    /\ compiled' = compiled \cup {t}
    /\ Launches
    /\ UNCHANGED unnamed

BinaryFiles(t, ilWritten) ==
    {Binary(BinaryKind, t)} \cup (IF ilWritten THEN {Binary("il", t)} ELSE {})

CompileOnly(t, ilWritten) ==
    /\ ~NeedsIsa
    /\ Compiles(t, ilWritten)
    /\ Makes(BinaryFiles(t, ilWritten))
    /\ meta' = Put(meta, [key \in {<<t, NoKernel>>} |-> [NewEntry EXCEPT !.bin = BinaryKind]])
    /\ RoundEnds(Asked("il") => ilWritten)
    /\ UNCHANGED <<good, broken>>

\* DisassembleBinary: the disassembler fails.
DisassembleFails(t, ilWritten) ==
    /\ NeedsIsa
    /\ Compiles(t, ilWritten)
    /\ Makes(BinaryFiles(t, ilWritten))
    /\ meta' = Put(meta, [key \in {<<t, NoKernel>>} |-> ErrorEntry])
    /\ RoundEnds(FALSE)
    /\ UNCHANGED <<good, broken>>

\* The names of the kernels cannot be read, the kernel that was asked for is
\* not among them, or SplitISA cannot split the text: no entry is made.
NoKernelIsa(t, ilWritten) ==
    /\ NeedsIsa
    /\ Compiles(t, ilWritten)
    /\ Makes(BinaryFiles(t, ilWritten))
    /\ RoundEnds(FALSE)
    /\ UNCHANGED <<meta, good, broken>>

\* Slip: the binary is not handed over to the entries.
SplitWithoutBinary(t, ilWritten, S, W) ==
    LET K == {k \in Kernel : Requested(k)} \ S
        isa == [NewEntry EXCEPT !.isa = IsaKind]
    IN /\ NeedsIsa /\ cmd.kernel # Missing
       /\ S # {} => ~Asked("isa")
       /\ Compiles(t, ilWritten)
       /\ Makes(BinaryFiles(t, ilWritten) \cup {<<IsaKind, <<t, k>>>> : k \in K \ W})
       /\ meta' = Put(meta, [key \in {<<t, k>> : k \in K \ W} |-> isa])
       /\ good' = IF S = {} THEN good \cup {t} ELSE good
       /\ broken' = broken \cup {<<IsaKind, <<t, k>>>> : k \in K \cap W}
       /\ RoundEnds(S = {})

\* SplitISA writes the ISA of each kernel.  When there is no name for the temp
\* file of one (S), the others get an entry, but the target fails and the
\* entries do not get the binary.  When a file cannot be written (W), the
\* kernel gets no entry, and that is not a failure.
Split(t, ilWritten, S, W) ==
    LET K == {k \in Kernel : Requested(k)} \ S
        isa == [NewEntry EXCEPT !.isa = IsaKind]
        whole == IF S = {} THEN [isa EXCEPT !.bin = BinaryKind, !.tmp = ~Asked("bin")] ELSE isa
    IN /\ NeedsIsa /\ cmd.kernel # Missing
       /\ S # {} => ~Asked("isa")
       /\ Compiles(t, ilWritten)
       /\ Makes(BinaryFiles(t, ilWritten) \cup {<<IsaKind, <<t, k>>>> : k \in K \ W})
       /\ meta' = Put(meta, [key \in {<<t, k>> : k \in K \ W} |-> whole])
       /\ good' = IF S = {} THEN good \cup {t} ELSE good
       /\ broken' = broken \cup {<<IsaKind, <<t, k>>>> : k \in K \cap W}
       /\ RoundEnds(S = {})

\* Each round of the loop.
CompileTarget ==
    \E t \in todo, il \in BOOLEAN :
        \/ NoBinaryName(t)
        \/ CompileFails(t)
        \/ CompileOnly(t, il)
        \/ DisassembleFails(t, il)
        \/ NoKernelIsa(t, il)
        \/ \E S, W \in SUBSET Kernel : Split(t, il, S, W)

\* The loop ends; ParseIsaFilesToCSV may follow.
EndCompile ==
    /\ pc = "compile" /\ todo = {}
    /\ pc' = IF Asked("csv") /\ (status \/ Cardinality(targets) > 1) THEN "csv" ELSE "stats"
    /\ UNCHANGED <<cmd, list, todo, status, meta, files, history>>

-----------------------------------------------------------------------------
(* The passes over the entries.  W is the set of files that get written.    *)

PassFiles(kind, K) == {<<kind, key>> : key \in K}

\* ParseIsaFilesToCSV: its result replaces the one of the compilation.
ParseToCsv ==
    LET able == {key \in Fine : meta[key].isa # "none"}
    IN /\ pc = "csv"
       /\ \E W \in SUBSET able :
             /\ disk' = Written(disk, PassFiles("csv", W))
             /\ meta' = Put(meta, [key \in W |-> [meta[key] EXCEPT !.csv = TRUE]])
             /\ status' = (W = Fine)
       /\ pc' = "stats"
       /\ UNCHANGED <<cmd, list, todo, empty, streams, history>>

\* Slip: one failure ends the run.
OnlyOnSuccess == status

\* RunCompileCommands: whether the passes are made.
PostProcess == status \/ IsMultiple

\* ExtractStatistics: one target after the other, up to the first whose code
\* properties cannot be read.  A kernel that it finds learns its wave size.
\* A statistics file that cannot be written keeps those of the later kernels
\* of the target out of the entries.
TargetsFine == {key[1] : key \in Fine}
NoBinary(t) == \E key \in Fine : key[1] = t /\ meta[key].bin = "none"
ExtractStatistics ==
    /\ pc = "stats" /\ PostProcess
    /\ \E T \in SUBSET TargetsFine :
          LET read == {key \in DOMAIN meta : key[1] \in T /\ key[2] # NoKernel}
          IN /\ \A t \in T : ~NoBinary(t) /\ \A u \in TargetsFine : u < t => u \in T
             /\ \E W \in SUBSET (IF Asked("stats") THEN read ELSE {}) :
                   LET listed == {key \in W : \A other \in read :
                                     other[1] = key[1] /\ other[2] < key[2] => other \in W}
                   IN /\ disk' = Written(disk, PassFiles("stats", W))
                      /\ meta' = Put(meta, [key \in read |->
                                     [meta[key] EXCEPT !.wave = TRUE, !.stats = (key \in listed)]])
                      /\ broken' = broken \cup PassFiles("stats", Fine \ W)
    /\ Launches
    /\ pc' = "livereg"
    /\ UNCHANGED <<cmd, list, todo, status, empty, unnamed, compiled, good>>

\* A pass that starts a tool for each entry (not with LaunchProcess): the tool
\* needs the ISA, and its output file is looked for, whether this run has made
\* it or an earlier one.
Analyze(here, next, kind, W) ==
    /\ pc = here /\ PostProcess /\ Asked(kind)
    /\ W \subseteq {key \in Fine : meta[key].isa # "none"}
    /\ disk' = Written(disk, PassFiles(kind, W))
    /\ broken' = broken \cup PassFiles(kind, Fine \ W)
    /\ pc' = next
    /\ UNCHANGED <<cmd, list, todo, status, empty, streams, unnamed, compiled, good>>

\* Slip: the output file is taken for granted.
TakenForGranted(kind) == Fine

Present(kind) == {key \in Fine : disk'[<<kind, key>>] # "none"}

PerformLiveVgprAnalysis ==
    \E W \in SUBSET Fine :
        /\ Analyze("livereg", "sgpr", "livereg", W)
        /\ meta' = Put(meta, [key \in Present("livereg") |->
                       [meta[key] EXCEPT !.livereg = IF meta[key].wave THEN "known" ELSE "default"]])

PerformLiveSgprAnalysis ==
    \E W \in SUBSET Fine :
        /\ Analyze("sgpr", "cfg", "sgpr", W)
        /\ meta' = Put(meta, [key \in Present("sgpr") |-> [meta[key] EXCEPT !.sgpr = TRUE]])

ExtractCFG ==
    \E W \in SUBSET Fine :
        /\ Analyze("cfg", "md", "cfg", W)
        /\ UNCHANGED meta

\* ExtractMetadata: one file for each target that has an entry.
ExtractMetadata ==
    /\ pc = "md" /\ PostProcess /\ Asked("md")
    /\ \E T \in SUBSET {t \in TargetsFine : ~NoBinary(t)} :
          disk' = Written(disk, {Binary("md", t) : t \in T})
    /\ Launches
    /\ pc' = "session"
    /\ UNCHANGED <<cmd, list, todo, status, meta, empty, history>>

\* A pass that is not made.
Skip(here, next, skipped) ==
    /\ pc = here /\ skipped
    /\ pc' = next
    /\ UNCHANGED <<cmd, list, todo, status, meta, files, history>>

SkipPass ==
    \/ Skip("stats", "livereg", ~PostProcess)
    \/ Skip("livereg", "sgpr", ~PostProcess \/ ~Asked("livereg"))
    \/ Skip("sgpr", "cfg", ~PostProcess \/ ~Asked("sgpr"))
    \/ Skip("cfg", "md", ~PostProcess \/ ~Asked("cfg"))
    \/ Skip("md", "session", ~PostProcess \/ ~Asked("md"))

-----------------------------------------------------------------------------
(* RunPostCompileSteps.                                                     *)

\* GenerateSessionMetadata: only when the entries of all sources, which the
\* compiler preprocesses for it, can be read and there is something to list.
GenerateSessionMetadata ==
    /\ pc = "session"
    /\ \E written \in BOOLEAN :
          /\ written => Asked("session") /\ DOMAIN meta # {}
          /\ disk' = IF written THEN Written(disk, {SessionFile}) ELSE disk
    /\ IF Asked("session") THEN Launches ELSE UNCHANGED streams
    /\ pc' = "cleanup"
    /\ UNCHANGED <<cmd, list, todo, status, meta, empty, history>>

\* DeleteTempFiles: the files that the entries know of, unless they are empty.
DeleteTempFiles ==
    LET known == {Binary("tmpbin", key[1]) : key \in {l \in DOMAIN meta : meta[l].tmp}}
                    \cup PassFiles("tmpisa", {l \in DOMAIN meta : meta[l].isa = "tmpisa"})
    IN /\ pc = "cleanup"
       /\ disk' = Deleted(disk, known \ empty)
       /\ pc' = "done"
       /\ UNCHANGED <<cmd, list, todo, status, meta, empty, streams, history>>

Next ==
    \/ MatchName \/ StartCompile \/ CompileTarget \/ EndCompile
    \/ ParseToCsv \/ ExtractStatistics
    \/ PerformLiveVgprAnalysis \/ PerformLiveSgprAnalysis \/ ExtractCFG \/ ExtractMetadata
    \/ SkipPass
    \/ GenerateSessionMetadata \/ DeleteTempFiles

Spec == Init /\ [][Next]_vars

-----------------------------------------------------------------------------
(* Properties.                                                              *)

\* A name that is neither compiled for nor reported as unknown stands behind
\* one that was matched (InitRequestedAsicListLC).
NoNameLost ==
    pc # "names" =>
        \A i \in DOMAIN cmd.names :
            \/ cmd.names[i] \in targets \cup reported
            \/ \E j \in 1 .. i - 1 : cmd.names[j] \in targets

\* Compile returns true only if each target was compiled and, where its ISA is
\* needed, taken apart; except when no temp file name was found, and when the
\* conversion to CSV has replaced the result.
SuccessIsWhole ==
    (pc \notin {"names", "compile"} /\ status /\ ~Asked("csv")) =>
        targets \subseteq unnamed \cup (IF NeedsIsa THEN good ELSE compiled)

\* With several targets, one that fails takes nothing from the others: every
\* kernel that has its ISA gets each analysis, as far as the tool for it works.
FailureIsLocal ==
    (pc = "done" /\ IsMultiple) =>
        \A t \in good, k \in Kernel, kind \in {"livereg", "sgpr", "cfg"} :
            (Requested(k) /\ Asked(kind) /\ <<IsaKind, <<t, k>>>> \notin broken) =>
                disk[<<kind, <<t, k>>>>] = "new" \/ <<kind, <<t, k>>>> \in broken

\* Of the temp files that the run makes for ISA and binaries, every one that
\* holds something is deleted, whatever failed; except binaries that were not
\* taken apart or of which no kernel's ISA could be written (DeleteTempFiles).
\* It says nothing of the files that took the output of commands: streams may
\* stay TRUE, as nothing but LaunchProcess removes them.
NoStrayTempFile ==
    pc = "done" =>
        /\ \A key \in Key : disk[<<"tmpisa", key>>] = "none" \/ <<"tmpisa", key>> \in empty
        /\ \A t \in good :
              \/ disk[Binary("tmpbin", t)] = "none" \/ Binary("tmpbin", t) \in empty
              \/ \A key \in DOMAIN meta : key[1] # t

\* The files that the session metadata lists are there (if possibly empty, as
\* far as they are binaries or ISA files) and of this run, except
\* that a tool which fails may be taken to have written an older file.
ListedFilesAreThere ==
    \A key \in Fine :
        LET e == meta[key]
            IsNew(kind) == disk[<<kind, key>>] = "new"
            IsThere(kind) == IsNew(kind) \/ (disk[<<kind, key>>] = "old" /\ <<kind, key>> \in broken)
        IN /\ e.isa = "isa" => IsNew("isa")
           /\ e.bin = "bin" => disk[Binary("bin", key[1])] = "new"
           /\ e.csv => IsNew("csv")
           /\ e.stats => IsNew("stats")
           /\ e.livereg # "none" => IsThere("livereg")
           /\ e.sgpr => IsThere("sgpr")
=============================================================================
