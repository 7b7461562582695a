----------------------------- MODULE FilesProofs -----------------------------
(***************************************************************************)
(* What two parts of the program guarantee of the files they write, for    *)
(* any number of crashes and of refused operations.                        *)
(*                                                                         *)
(* The updater, for every set of releases: the payload that is marked is   *)
(* one whole release, it is installed at most once (UpdaterInv), and what  *)
(* the folder of the application goes through is what Installation allows. *)
(* Both follow from one inductive invariant: the payload never holds files *)
(* of two builds, and in the middle of an install the backups together     *)
(* with the files that were not touched yet are the folder as it was.      *)
(*                                                                         *)
(* The node, for any communities, names and calls: the profile is shown    *)
(* everywhere and no saved invitation is forgotten (StoreInv).  Neither    *)
(* holds in the middle of a handler; the invariant follows the writes the  *)
(* handler has left, and says what the files will be once they are done.   *)
(***************************************************************************)
EXTENDS Updater, NodeStore, FiniteSetTheorems, SequenceTheorems, TLAPS

AppType == [build : Builds, state : UpdaterStates, release : Builds \cup {Absent}]
StepType == [file : Files, saved : BOOLEAN, placed : BOOLEAN]
MovesType == [todo : SUBSET Files, steps : Seq(StepType), back : BOOLEAN,
              atStart : BOOLEAN, base : Builds \cup {Absent}]
FaultsType == [crashes : Nat, moves : Nat, removes : Nat]
Folders == [Files -> Builds \cup {Absent}]

UpdaterTyped ==
    /\ installed \in Folders /\ staged \in Folders /\ backup \in Folders
    /\ marker \in Builds \cup {Absent}
    /\ app \in AppType
    /\ moves \in MovesType
    /\ latest \in Builds
    /\ attempts \in Nat
    /\ updateFaults \in FaultsType

\* A marked payload was not tried yet and is of the marker's build alone: all
\* of it, unless files that had to go were refused to go twice.
MarkerSound ==
    /\ attempts <= 1
    /\ marker # Absent =>
        /\ attempts = 0
        /\ backup = NoFiles
        /\ installed[Executable] <= marker
        /\ \A f \in Files : staged[f] \in {Absent, marker}
        /\ updateFaults.removes <= 1 => staged = Unpacked(marker)
    /\ app.state \in {"Checking", "Downloading", "Extracting", "Installing", "Installed"} =>
        marker = Absent
    /\ app.state \in {"Idle", "UpToDate", "ManualInstall", "Failed"} /\ marker # Absent =>
        updateFaults.removes >= 1

\* What is under way to be staged is one build, not older than the installed.
DownloadSound ==
    /\ installed[Executable] <= latest /\ staged[Executable] <= latest
    /\ backup[Executable] <= latest /\ app.release <= latest
    /\ app.state \in {"Checking", "Downloading"} => staged = NoFiles
    /\ app.state \in {"Checking", "Downloading", "Extracting"} => backup = NoFiles
    /\ app.state \in {"Downloading", "Extracting"} =>
        app.release \in Builds /\ installed[Executable] <= app.release
    /\ app.state = "Extracting" =>
        \A f \in Files : staged[f] \in {Absent, Unpacked(app.release)[f]}

\* The folder as it was before the install that is under way.
Touched == {moves.steps[i].file : i \in DOMAIN moves.steps}
Before == [f \in Files |-> IF f \in Touched THEN backup[f] ELSE installed[f]]
Whole(folder) ==
    IF Holds(folder, folder[Executable]) THEN folder[Executable] ELSE MixedBuilds
Failures == updateFaults.moves + updateFaults.removes

\* The list of the steps tells what was done to which file, each file once.
StepsSound ==
    /\ \A i, j \in DOMAIN moves.steps : moves.steps[i].file = moves.steps[j].file => i = j
    /\ \A i \in DOMAIN moves.steps :
        /\ moves.steps[i].file \notin moves.todo
        /\ i # Len(moves.steps) => moves.steps[i].placed
        /\ ~ moves.steps[i].saved => backup[moves.steps[i].file] = Absent
        /\ ~ moves.steps[i].placed => installed[moves.steps[i].file] = Absent
    /\ moves.back => updateFaults.moves >= 1
    /\ ~ moves.back => \A f \in Files \ Touched : backup[f] = Absent

\* Nothing older than what the folder held gets in, and the old build is there
\* in the folder and the backups, unless undoing a failure failed.
FolderSound ==
    /\ ~ moves.back => \A f \in Files : staged[f] # Absent => staged[f] >= moves.base
    /\ installed[Executable] # Absent => installed[Executable] >= moves.base
    /\ backup[Executable] # Absent => backup[Executable] >= moves.base
    /\ Failures <= 1 => Whole(Before) = moves.base

\* File f of build m is in its place, or the moves will bring it there.
Arrives(f, m) ==
    IF \/ f \in moves.todo
       \/ \E i \in DOMAIN moves.steps : moves.steps[i].file = f /\ ~ moves.steps[i].placed
      THEN staged[f] = m
      ELSE installed[f] = m

NewBuildArrives ==
    ~ moves.back /\ updateFaults.removes <= 1 =>
        \E m \in Builds : Executable \in ReleaseFiles[m] /\ \A f \in ReleaseFiles[m] : Arrives(f, m)

InstallSound ==
    app.state = "Installing" => StepsSound /\ FolderSound /\ NewBuildArrives

IInv == UpdaterTyped /\ MarkerSound /\ DownloadSound /\ InstallSound

-----------------------------------------------------------------------------
(* The operators of the model.                                               *)

\* The builds are positive numbers and the executable is one of the files.
LEMMA BuildsAndFiles ==
    /\ Builds \subseteq Nat \ {0} /\ 1 \in Builds
    /\ Executable \in Files
    /\ \A b \in Builds : ReleaseFiles[b] \subseteq Files
BY UpdaterAssumption DEF Builds, Files

\* A build is a number, and so is the absence of a file.
LEMMA BuildsAreNumbers == Builds \cup {Absent} \subseteq Nat /\ Absent \in Nat
BY BuildsAndFiles DEF Absent

\* What is unpacked is a folder, an empty one too.
LEMMA FoldersThere ==
    /\ NoFiles \in Folders
    /\ \A b \in Builds : Unpacked(b) \in Folders
    /\ \A folder \in Folders, gone \in SUBSET Files : Cleared(folder, gone) \in Folders
BY BuildsAndFiles DEF NoFiles, Folders, Unpacked, Cleared, Absent

\* A list of steps grows at its end.
LEMMA StepAdded ==
    ASSUME NEW s \in Seq(StepType), NEW e \in StepType
    PROVE  /\ Append(s, e) \in Seq(StepType)
           /\ Len(Append(s, e)) = Len(s) + 1
           /\ DOMAIN Append(s, e) = DOMAIN s \cup {Len(s) + 1}
           /\ \A i \in DOMAIN s : Append(s, e)[i] = s[i]
           /\ Append(s, e)[Len(s) + 1] = e
           /\ Len(s) + 1 \notin DOMAIN s
OBVIOUS

\* The last step of a list is changed in its place.
LEMMA StepChanged ==
    ASSUME NEW s \in Seq(StepType), s # <<>>, NEW e \in StepType
    PROVE  /\ [s EXCEPT ![Len(s)] = e] \in Seq(StepType)
           /\ Len([s EXCEPT ![Len(s)] = e]) = Len(s)
           /\ DOMAIN [s EXCEPT ![Len(s)] = e] = DOMAIN s
           /\ Len(s) \in DOMAIN s
           /\ s[Len(s)] \in StepType
           /\ [s EXCEPT ![Len(s)] = e][Len(s)] = e
           /\ \A i \in DOMAIN s : i # Len(s) => [s EXCEPT ![Len(s)] = e][i] = s[i]
<1>1. Len(s) \in DOMAIN s
  OBVIOUS
<1>2. QED
  BY <1>1, ExceptSeq

\* The last step of a list is dropped.
LEMMA StepDropped ==
    ASSUME NEW s \in Seq(StepType), s # <<>>
    PROVE  /\ SubSeq(s, 1, Len(s) - 1) \in Seq(StepType)
           /\ Len(SubSeq(s, 1, Len(s) - 1)) = Len(s) - 1
           /\ DOMAIN SubSeq(s, 1, Len(s) - 1) = DOMAIN s \ {Len(s)}
           /\ \A i \in DOMAIN s \ {Len(s)} : SubSeq(s, 1, Len(s) - 1)[i] = s[i]
           /\ Len(s) \in DOMAIN s
           /\ s[Len(s)] \in StepType
<1>1. Len(s) \in Nat \ {0} /\ DOMAIN s = 1 .. Len(s)
  OBVIOUS
<1>2. QED
  BY <1>1, SubSeqProperties

-----------------------------------------------------------------------------
(* Every variable keeps its type.                                            *)

\* The application changes its state and nothing else.
LEMMA ToKeeps ==
    ASSUME NEW state \in UpdaterStates, To(state), app \in AppType
    PROVE  app' \in AppType /\ app'.state = state /\ app'.build = app.build
           /\ app'.release = app.release
BY DEF To, AppType

\* A refusal is counted.
LEMMA RefusalCounted ==
    ASSUME updateFaults \in FaultsType
    PROVE  /\ MoveFails =>
                /\ updateFaults' \in FaultsType
                /\ updateFaults'.moves = updateFaults.moves + 1
                /\ updateFaults'.removes = updateFaults.removes
                /\ updateFaults'.crashes = updateFaults.crashes
           /\ RemoveFails =>
                /\ updateFaults' \in FaultsType
                /\ updateFaults'.removes = updateFaults.removes + 1
                /\ updateFaults'.moves = updateFaults.moves
                /\ updateFaults'.crashes = updateFaults.crashes
BY DEF MoveFails, RemoveFails, FaultsType

\* The build of the folder is one of the builds, or none.
LEMMA WholeIsABuild == WholeBuild \in Builds \cup {Absent}
BY DEF WholeBuild, Holds, MixedBuilds, Absent

\* The application stays in one of its states when an install fails.
LEMMA GivesUpStates ==
    ASSUME NEW atStart \in BOOLEAN, GivesUp(atStart), app \in AppType
    PROVE  app' \in AppType /\ app'.state \in {"Idle", "Failed"}
           /\ app'.build = app.build /\ app'.release = app.release
<1>1. CASE atStart
  <2>1. To("Idle")
    BY <1>1 DEF GivesUp
  <2>2. QED
    BY <2>1, ToKeeps DEF UpdaterStates
<1>2. CASE ~ atStart
  <2>1. To("Failed")
    BY <1>2 DEF GivesUp
  <2>2. QED
    BY <2>1, ToKeeps DEF UpdaterStates
<1>3. QED
  BY <1>1, <1>2

\* What installStaged may do: give up, or unstage the payload and begin.
LEMMA InstallStagedDoes ==
    ASSUME NEW atStart \in BOOLEAN, InstallStaged(atStart), UpdaterTyped
    PROVE  \/ /\ RemoveFails \/ (marker = Absent /\ UNCHANGED updateFaults)
              /\ app' \in AppType /\ app'.state \in {"Idle", "Failed"}
              /\ app'.build = app.build /\ app'.release = app.release
              /\ UNCHANGED <<marker, moves, attempts>>
           \/ /\ marker # Absent /\ marker' = Absent /\ attempts' = attempts + 1
              /\ app' \in AppType /\ app'.build = app.build /\ app'.release = app.release
              /\ UNCHANGED updateFaults
              /\ \/ app'.state \in {"Idle", "Failed"} /\ UNCHANGED moves
                 \/ /\ CanReplace
                    /\ app'.state = "Installing"
                    /\ moves' = [todo |-> Has(staged), steps |-> <<>>, back |-> FALSE,
                                 atStart |-> atStart, base |-> WholeBuild]
                    /\ moves' \in MovesType
<1>0. app \in AppType
  BY DEF UpdaterTyped
<1>1. CASE RemoveFails /\ GivesUp(atStart) /\ UNCHANGED <<marker, moves, attempts>>
  BY <1>0, <1>1, GivesUpStates
<1>2. CASE marker = Absent /\ GivesUp(atStart)
           /\ UNCHANGED <<marker, moves, attempts, updateFaults>>
  BY <1>0, <1>2, GivesUpStates
<1>3. CASE /\ marker # Absent /\ marker' = Absent /\ attempts' = attempts + 1
           /\ UNCHANGED updateFaults
           /\ CanReplace
           /\ moves' = [todo |-> Has(staged), steps |-> <<>>, back |-> FALSE,
                        atStart |-> atStart, base |-> WholeBuild]
           /\ To("Installing")
  <2>1. Has(staged) \in SUBSET Files
    BY DEF Has
  <2>2. moves' \in MovesType
    BY <1>3, <2>1, WholeIsABuild DEF MovesType
  <2>3. app' \in AppType /\ app'.state = "Installing" /\ app'.build = app.build
        /\ app'.release = app.release
    BY <1>0, <1>3, ToKeeps DEF UpdaterStates
  <2>4. QED
    BY <1>3, <2>2, <2>3
<1>4. CASE /\ marker # Absent /\ marker' = Absent /\ attempts' = attempts + 1
           /\ UNCHANGED updateFaults
           /\ GivesUp(atStart) /\ UNCHANGED moves
  BY <1>0, <1>4, GivesUpStates
<1>5. QED
  BY <1>1, <1>2, <1>3, <1>4 DEF InstallStaged

\* The steps of the moves, each as it leaves the lists.
LEMMA MovesKeepTheirType ==
    ASSUME moves \in MovesType
    PROVE  /\ NoMoves \in MovesType
           /\ \A f \in Files, saved \in BOOLEAN :
                [moves EXCEPT !.todo = @ \ {f},
                    !.steps = Append(@, [file |-> f, saved |-> saved, placed |-> FALSE])]
                    \in MovesType
           /\ [moves EXCEPT !.back = TRUE] \in MovesType
           /\ moves.steps # <<>> =>
                /\ Step \in StepType
                /\ [moves EXCEPT !.steps = SubSeq(@, 1, Len(@) - 1)] \in MovesType
                /\ \A step \in StepType :
                    /\ WithStep(step) \in MovesType
                    /\ WithStep(step) =
                        [moves EXCEPT !.steps = [moves.steps EXCEPT ![Len(moves.steps)] = step]]
<1>1. NoMoves \in MovesType
  BY DEF NoMoves, MovesType, Absent
<1>2. ASSUME NEW f \in Files, NEW saved \in BOOLEAN
      PROVE  [moves EXCEPT !.todo = @ \ {f},
                !.steps = Append(@, [file |-> f, saved |-> saved, placed |-> FALSE])]
                \in MovesType
  <2>1. [file |-> f, saved |-> saved, placed |-> FALSE] \in StepType
    BY DEF StepType
  <2>2. Append(moves.steps, [file |-> f, saved |-> saved, placed |-> FALSE]) \in Seq(StepType)
    BY <2>1, StepAdded DEF MovesType
  <2>3. QED
    BY <2>2 DEF MovesType
<1>3. [moves EXCEPT !.back = TRUE] \in MovesType
  BY DEF MovesType
<1>4. ASSUME moves.steps # <<>>
      PROVE  /\ Step \in StepType
             /\ [moves EXCEPT !.steps = SubSeq(@, 1, Len(@) - 1)] \in MovesType
  BY <1>4, StepDropped DEF MovesType, Step
<1>5. ASSUME moves.steps # <<>>, NEW step \in StepType
      PROVE  /\ WithStep(step) \in MovesType
             /\ WithStep(step) =
                    [moves EXCEPT !.steps = [moves.steps EXCEPT ![Len(moves.steps)] = step]]
  <2>1. [moves.steps EXCEPT ![Len(moves.steps)] = step] \in Seq(StepType)
    BY <1>5, StepChanged DEF MovesType
  <2>2. WithStep(step) =
            [moves EXCEPT !.steps = [moves.steps EXCEPT ![Len(moves.steps)] = step]]
    BY DEF WithStep
  <2>3. QED
    BY <2>1, <2>2 DEF MovesType
<1>6. QED
  BY <1>1, <1>2, <1>3, <1>4, <1>5

\* Type correctness is inductive.
LEMMA TypedInit == UpdaterInit => UpdaterTyped
<1>1. SUFFICES ASSUME UpdaterInit PROVE UpdaterTyped
  OBVIOUS
<1>2. app \in AppType
  BY <1>1, BuildsAndFiles DEF UpdaterInit, AppType, UpdaterStates, Absent
<1>3. moves \in MovesType
  BY <1>1 DEF UpdaterInit, NoMoves, MovesType, Absent
<1>4. QED
  BY <1>1, <1>2, <1>3, BuildsAndFiles, FoldersThere DEF UpdaterInit, UpdaterTyped, FaultsType

\* Every step keeps the types.
LEMMA TypedStep == UpdaterTyped /\ [UpdaterNext]_updaterVars => UpdaterTyped'
<1>1. SUFFICES ASSUME UpdaterTyped, [UpdaterNext]_updaterVars PROVE UpdaterTyped'
  OBVIOUS
<1> USE DEF UpdaterTyped
<1>2. CASE Check
  <2>1. CASE staged' = NoFiles /\ backup' = NoFiles /\ marker' = Absent /\ To("Checking")
             /\ UNCHANGED <<updateFaults, installed, moves, latest, attempts>>
    <3>1. app' \in AppType
      BY <1>1, <2>1, ToKeeps DEF UpdaterStates
    <3>2. QED
      BY <1>1, <2>1, <3>1, FoldersThere
  <2>2. CASE /\ RemoveFails
             /\ \E gone \in SUBSET Has(staged) : staged' = Cleared(staged, gone)
             /\ \E gone \in SUBSET Has(backup) : backup' = Cleared(backup, gone)
             /\ marker' \in {marker, Absent}
             /\ To("Failed")
             /\ UNCHANGED <<installed, moves, latest, attempts>>
    <3>1. app' \in AppType
      BY <1>1, <2>2, ToKeeps DEF UpdaterStates
    <3>2. staged' \in Folders /\ backup' \in Folders
      BY <1>1, <2>2, FoldersThere DEF Has
    <3>3. QED
      BY <1>1, <2>2, <3>1, <3>2, RefusalCounted
  <2>3. QED
    BY <1>2, <2>1, <2>2 DEF Check
<1>3. CASE ReceiveRelease
  <2>1. app' \in AppType
    BY <1>1, <1>3 DEF ReceiveRelease, To, AppType, UpdaterStates
  <2>2. QED
    BY <1>1, <1>3, <2>1 DEF ReceiveRelease, diskVars
<1>4. CASE FinishDownload
  <2>1. app' \in AppType
    BY <1>1, <1>4 DEF FinishDownload, To, AppType, UpdaterStates
  <2>2. QED
    BY <1>1, <1>4, <2>1 DEF FinishDownload, diskVars
<1>5. CASE ExtractFile
  <2>1. PICK f \in ReleaseFiles[app.release] : staged' = [staged EXCEPT ![f] = app.release]
    BY <1>5 DEF ExtractFile
  <2>2. app.release \in Builds \cup {Absent}
    BY <1>1 DEF AppType
  <2>3. staged' \in Folders
    BY <1>1, <2>1, <2>2 DEF Folders
  <2>4. QED
    BY <1>1, <1>5, <2>3 DEF ExtractFile
<1>6. CASE FinishExtracting
  <2>1. app' \in AppType
    BY <1>1, <1>6 DEF FinishExtracting, To, AppType, UpdaterStates
  <2>2. marker' \in Builds \cup {Absent} /\ attempts' \in Nat
    BY <1>1, <1>6 DEF FinishExtracting, AppType
  <2>3. QED
    BY <1>1, <1>6, <2>1, <2>2 DEF FinishExtracting
<1>7. ASSUME NEW atStart \in BOOLEAN, InstallStaged(atStart),
             UNCHANGED <<installed, staged, backup, latest>>
      PROVE  UpdaterTyped'
  BY <1>1, <1>7, InstallStagedDoes, RefusalCounted
<1>8. CASE RestartToInstall
  BY <1>7, <1>8 DEF RestartToInstall
<1>9. CASE StartApp
  <2>1. installed[Executable] \in Builds
    BY <1>1, <1>9, BuildsAndFiles DEF StartApp, Folders
  <2>2. app' \in AppType
    BY <1>9, <2>1 DEF StartApp, AppType, UpdaterStates, Absent
  <2>3. QED
    BY <1>1, <1>9, <2>2 DEF StartApp, diskVars
<1>10. CASE StartStagedUpdate
  <2>1. CASE InstallStaged(TRUE)
    BY <1>7, <1>10, <2>1 DEF StartStagedUpdate
  <2>2. CASE /\ \/ marker' = Absent /\ UNCHANGED updateFaults
                \/ marker # Absent /\ RemoveFails /\ UNCHANGED marker
             /\ To("Idle")
             /\ UNCHANGED <<moves, attempts>>
    <3>1. app' \in AppType
      BY <1>1, <2>2, ToKeeps DEF UpdaterStates
    <3>2. QED
      BY <1>1, <1>10, <2>2, <3>1, RefusalCounted DEF StartStagedUpdate
  <2>3. QED
    BY <1>10, <2>1, <2>2 DEF StartStagedUpdate
<1>11. CASE MoveAside
  <2>1. PICK f \in moves.todo :
            /\ backup' = [backup EXCEPT ![f] =
                    IF installed[f] # Absent THEN installed[f] ELSE @]
            /\ installed' = [installed EXCEPT ![f] = Absent]
            /\ moves' = [moves EXCEPT !.todo = @ \ {f},
                            !.steps = Append(@, [file |-> f, saved |-> installed[f] # Absent,
                                                 placed |-> FALSE])]
    BY <1>11 DEF MoveAside
  <2>2. f \in Files
    BY <1>1, <2>1 DEF MovesType
  <2>3. backup' \in Folders /\ installed' \in Folders
    BY <1>1, <2>1, <2>2 DEF Folders
  <2>4. moves' \in MovesType
    BY <1>1, <2>1, <2>2, MovesKeepTheirType
  <2>5. QED
    BY <1>1, <1>11, <2>3, <2>4 DEF MoveAside
<1>12. CASE PlaceFile
  <2>1. moves.steps # <<>>
    BY <1>12 DEF PlaceFile, BetweenFiles
  <2>2. Step \in StepType /\ [Step EXCEPT !.placed = TRUE] \in StepType
    BY <1>1, <2>1, MovesKeepTheirType DEF StepType
  <2>3. moves' \in MovesType
    BY <1>1, <1>12, <2>1, <2>2, MovesKeepTheirType DEF PlaceFile
  <2>4. installed' \in Folders /\ staged' \in Folders
    BY <1>1, <1>12, <2>2 DEF PlaceFile, Folders, StepType
  <2>5. QED
    BY <1>1, <1>12, <2>3, <2>4 DEF PlaceFile
<1>13. CASE MoveIsRefused
  BY <1>1, <1>13, MovesKeepTheirType, RefusalCounted DEF MoveIsRefused, diskVars
<1>14. CASE AllMoved
  <2>1. app' \in AppType
    BY <1>1, <1>14 DEF AllMoved, To, AppType, UpdaterStates
  <2>2. QED
    BY <1>1, <1>14, <2>1, MovesKeepTheirType DEF AllMoved, diskVars
<1>15. CASE RollBack
  <2>1. moves.steps # <<>> /\ UNCHANGED <<marker, app, latest, attempts>>
    BY <1>15 DEF RollBack
  <2>2. Step \in StepType /\ [Step EXCEPT !.placed = FALSE] \in StepType
    BY <1>1, <2>1, MovesKeepTheirType DEF StepType
  <2>3. /\ WithStep([Step EXCEPT !.placed = FALSE]) \in MovesType
        /\ [moves EXCEPT !.steps = SubSeq(@, 1, Len(@) - 1)] \in MovesType
    BY <1>1, <2>1, <2>2, MovesKeepTheirType
  <2>4. moves' \in MovesType
    BY <1>15, <2>3 DEF RollBack
  <2>5. installed' \in Folders /\ staged' \in Folders /\ backup' \in Folders
    BY <1>1, <1>15, <2>2 DEF RollBack, Folders, StepType
  <2>6. updateFaults' \in FaultsType
    BY <1>1, <1>15, RefusalCounted DEF RollBack
  <2>7. QED
    BY <1>1, <2>1, <2>4, <2>5, <2>6
<1>16. CASE RolledBack
  <2>1. app' \in AppType
    BY <1>1, <1>16, GivesUpStates DEF RolledBack, MovesType
  <2>2. QED
    BY <1>1, <1>16, <2>1, MovesKeepTheirType DEF RolledBack, diskVars
<1>17. CASE Publish
  BY <1>1, <1>17 DEF Publish, diskVars
<1>18. CASE Quit
  <2>1. app' \in AppType
    BY <1>1, <1>18, ToKeeps DEF Quit, UpdaterStates
  <2>2. QED
    BY <1>1, <1>18, <2>1 DEF Quit, diskVars
<1>19. CASE CrashApp
  <2>1. app' \in AppType
    BY <1>1, <1>19, ToKeeps DEF CrashApp, UpdaterStates
  <2>2. updateFaults' \in FaultsType
    BY <1>1, <1>19 DEF CrashApp, FaultsType
  <2>3. QED
    BY <1>1, <1>19, <2>1, <2>2, MovesKeepTheirType DEF CrashApp, diskVars
<1>20. CASE UNCHANGED updaterVars
  BY <1>1, <1>20 DEF updaterVars, diskVars
<1>21. QED
  BY <1>1, <1>2, <1>3, <1>4, <1>5, <1>6, <1>8, <1>9, <1>10, <1>11, <1>12, <1>13,
     <1>14, <1>15, <1>16, <1>17, <1>18, <1>19, <1>20 DEF UpdaterNext

-----------------------------------------------------------------------------
(* The marker and what it marks.                                             *)

LEMMA MarkerInit == UpdaterInit => MarkerSound /\ DownloadSound /\ InstallSound
<1>1. SUFFICES ASSUME UpdaterInit PROVE MarkerSound /\ DownloadSound /\ InstallSound
  OBVIOUS
<1>2. /\ installed[Executable] <= latest /\ staged[Executable] <= latest
      /\ backup[Executable] <= latest /\ app.release <= latest
  BY <1>1, BuildsAndFiles DEF UpdaterInit, Unpacked, NoFiles, Absent
<1>3. app.state = "Off"
  BY <1>1 DEF UpdaterInit
<1>4. MarkerSound /\ DownloadSound
  BY <1>1, <1>2, <1>3 DEF UpdaterInit, MarkerSound, DownloadSound
<1>5. InstallSound
  BY <1>3 DEF InstallSound
<1>6. QED
  BY <1>4, <1>5

\* What is cleared leaves no file that was not there.
LEMMA ClearedHas ==
    ASSUME NEW folder \in Folders, NEW gone \in SUBSET Files, NEW f \in Files
    PROVE  Cleared(folder, gone)[f] \in {Absent, folder[f]}
BY DEF Cleared, Folders

\* Every step keeps the marker sound.
LEMMA MarkerStep ==
    UpdaterTyped /\ MarkerSound /\ DownloadSound /\ [UpdaterNext]_updaterVars => MarkerSound'
<1>1. SUFFICES ASSUME UpdaterTyped, MarkerSound, DownloadSound, [UpdaterNext]_updaterVars
               PROVE  MarkerSound'
  OBVIOUS
<1>a. /\ app \in AppType /\ updateFaults \in FaultsType /\ attempts \in Nat
      /\ marker \in Builds \cup {Absent}
      /\ staged \in Folders /\ backup \in Folders /\ installed \in Folders
  BY <1>1 DEF UpdaterTyped
<1>b. updateFaults.removes \in Nat
  BY <1>a DEF FaultsType
<1>2. CASE Check
  <2>1. CASE staged' = NoFiles /\ backup' = NoFiles /\ marker' = Absent /\ To("Checking")
             /\ UNCHANGED <<updateFaults, installed, moves, latest, attempts>>
    <3>1. app'.state = "Checking"
      BY <1>a, <2>1, ToKeeps DEF UpdaterStates
    <3>2. QED
      BY <1>1, <2>1, <3>1 DEF MarkerSound
  <2>2. CASE /\ RemoveFails
             /\ \E gone \in SUBSET Has(staged) : staged' = Cleared(staged, gone)
             /\ \E gone \in SUBSET Has(backup) : backup' = Cleared(backup, gone)
             /\ marker' \in {marker, Absent}
             /\ To("Failed")
             /\ UNCHANGED <<installed, moves, latest, attempts>>
    <3>1. app'.state = "Failed" /\ updateFaults'.removes = updateFaults.removes + 1
      BY <1>a, <2>2, ToKeeps, RefusalCounted DEF UpdaterStates
    <3>2. marker' # Absent => marker' = marker
      BY <2>2
    <3>3. app.state \in {"Idle", "UpToDate", "ManualInstall", "Failed"}
      BY <1>2 DEF Check
    <3>4. marker' # Absent => updateFaults.removes >= 1
      BY <1>1, <3>2, <3>3 DEF MarkerSound
    <3>5. marker' # Absent => ~ (updateFaults'.removes <= 1)
      BY <1>b, <3>1, <3>4
    <3>6. \A f \in Files : staged'[f] \in {Absent, staged[f]}
      BY <1>a, <2>2, ClearedHas DEF Has
    <3>7. marker' # Absent => backup' = NoFiles
      <4>1. SUFFICES ASSUME marker' # Absent PROVE backup' = NoFiles
        OBVIOUS
      <4>2. backup = NoFiles
        BY <1>1, <3>2, <4>1 DEF MarkerSound
      <4>3. QED
        BY <2>2, <4>2 DEF Cleared, NoFiles
    <3>8. attempts' <= 1 /\ (marker' # Absent => attempts' = 0)
      BY <1>1, <2>2, <3>2 DEF MarkerSound
    <3>9. marker' # Absent => installed'[Executable] <= marker'
      BY <1>1, <2>2, <3>2 DEF MarkerSound
    <3>10. marker' # Absent => \A f \in Files : staged'[f] \in {Absent, marker'}
      BY <1>1, <3>2, <3>6 DEF MarkerSound
    <3>11. updateFaults'.removes >= 1
      BY <1>b, <3>1
    <3>12. QED
      BY <3>1, <3>5, <3>7, <3>8, <3>9, <3>10, <3>11 DEF MarkerSound
  <2>3. QED
    BY <1>2, <2>1, <2>2 DEF Check
<1>3. CASE ReceiveRelease
  <2>1. marker = Absent
    BY <1>1, <1>3 DEF MarkerSound, ReceiveRelease
  <2>2. QED
    BY <1>1, <1>3, <2>1 DEF MarkerSound, ReceiveRelease, diskVars
<1>4. CASE FinishDownload
  <2>1. marker = Absent
    BY <1>1, <1>4 DEF MarkerSound, FinishDownload
  <2>2. QED
    BY <1>1, <1>4, <2>1 DEF MarkerSound, FinishDownload, diskVars
<1>5. CASE ExtractFile
  <2>1. marker = Absent
    BY <1>1, <1>5 DEF MarkerSound, ExtractFile
  <2>2. QED
    BY <1>1, <1>5, <2>1 DEF MarkerSound, ExtractFile
<1>6. CASE FinishExtracting
  <2>1. marker = Absent
    BY <1>1, <1>6 DEF MarkerSound, FinishExtracting
  <2>2. CASE To("Failed") /\ UNCHANGED <<marker, attempts>>
    BY <1>1, <1>6, <2>1, <2>2 DEF MarkerSound, FinishExtracting
  <2>3. CASE Holds(staged, app.release) /\ marker' = app.release /\ attempts' = 0 /\ To("Ready")
    <3>1. app'.state = "Ready"
      BY <1>a, <2>3, ToKeeps DEF UpdaterStates
    <3>2. /\ app.release \in Builds /\ installed[Executable] <= app.release
          /\ \A f \in Files : staged[f] \in {Absent, Unpacked(app.release)[f]}
          /\ backup = NoFiles
      BY <1>1, <1>6 DEF DownloadSound, FinishExtracting
    <3>3. \A f \in Files : staged[f] = Unpacked(app.release)[f]
      BY <2>3, <3>2 DEF Holds, Unpacked
    <3>4. staged = Unpacked(app.release)
      BY <1>a, <3>3 DEF Folders, Unpacked
    <3>5. \A f \in Files : staged[f] \in {Absent, app.release}
      BY <3>3 DEF Unpacked
    <3>6. UNCHANGED <<installed, staged, backup>>
      BY <1>6 DEF FinishExtracting
    <3>7. QED
      BY <2>3, <3>1, <3>2, <3>4, <3>5, <3>6 DEF MarkerSound
  <2>4. QED
    BY <1>6, <2>2, <2>3 DEF FinishExtracting
<1>7. ASSUME NEW atStart \in BOOLEAN, InstallStaged(atStart),
             UNCHANGED <<installed, staged, backup, latest>>
      PROVE  MarkerSound'
  <2>1. CASE /\ marker # Absent /\ marker' = Absent /\ attempts' = attempts + 1
    BY <1>1, <1>a, <2>1 DEF MarkerSound
  <2>2. CASE /\ RemoveFails
             /\ app'.state \in {"Idle", "Failed"}
             /\ UNCHANGED <<marker, attempts>>
    <3>1. updateFaults'.removes = updateFaults.removes + 1
      BY <1>a, <2>2, RefusalCounted
    <3>2. /\ updateFaults'.removes >= 1
          /\ updateFaults'.removes <= 1 => updateFaults.removes <= 1
      BY <1>b, <3>1
    <3>3. app'.state \notin {"Checking", "Downloading", "Extracting", "Installing", "Installed"}
      BY <2>2
    <3>4. QED
      BY <1>1, <1>7, <2>2, <3>2, <3>3 DEF MarkerSound
  <2>3. CASE marker = Absent /\ UNCHANGED <<marker, attempts>>
    BY <1>1, <2>3 DEF MarkerSound
  <2>4. QED
    BY <1>1, <1>7, <2>1, <2>2, <2>3, InstallStagedDoes
<1>8. CASE RestartToInstall
  BY <1>7, <1>8 DEF RestartToInstall
<1>9. CASE StartApp
  <2>1. app'.state = "Starting" /\ UNCHANGED <<diskVars, attempts, updateFaults>>
    BY <1>9 DEF StartApp
  <2>2. QED
    BY <1>1, <2>1 DEF MarkerSound, diskVars
<1>10. CASE StartStagedUpdate
  <2>1. CASE InstallStaged(TRUE)
    BY <1>7, <1>10, <2>1 DEF StartStagedUpdate
  <2>2. CASE marker' = Absent /\ UNCHANGED attempts
    BY <1>1, <2>2 DEF MarkerSound
  <2>3. CASE marker # Absent /\ RemoveFails /\ UNCHANGED <<marker, attempts>> /\ To("Idle")
    <3>1. app'.state = "Idle" /\ updateFaults'.removes = updateFaults.removes + 1
      BY <1>a, <2>3, ToKeeps, RefusalCounted DEF UpdaterStates
    <3>2. /\ updateFaults'.removes >= 1
          /\ updateFaults'.removes <= 1 => updateFaults.removes <= 1
      BY <1>b, <3>1
    <3>3. UNCHANGED <<installed, staged, backup>>
      BY <1>10 DEF StartStagedUpdate
    <3>4. QED
      BY <1>1, <2>3, <3>1, <3>2, <3>3 DEF MarkerSound
  <2>4. QED
    BY <1>10, <2>1, <2>2, <2>3 DEF StartStagedUpdate
<1>11. ASSUME app.state = "Installing", UNCHANGED <<marker, attempts>>
       PROVE  MarkerSound'
  BY <1>1, <1>11 DEF MarkerSound
<1>12. CASE MoveAside \/ PlaceFile \/ MoveIsRefused \/ AllMoved \/ RollBack \/ RolledBack
  BY <1>11, <1>12 DEF MoveAside, PlaceFile, MoveIsRefused, AllMoved, RollBack, RolledBack,
        Moving, diskVars
<1>13. CASE Publish
  BY <1>1, <1>13 DEF MarkerSound, Publish, diskVars
<1>14. CASE Quit
  <2>1. app'.state = "Off"
    BY <1>a, <1>14, ToKeeps DEF Quit, UpdaterStates
  <2>2. QED
    BY <1>1, <1>14, <2>1 DEF MarkerSound, Quit, diskVars
<1>15. CASE CrashApp
  <2>1. app'.state = "Off" /\ updateFaults'.removes = updateFaults.removes
    BY <1>a, <1>15, ToKeeps DEF CrashApp, UpdaterStates, FaultsType
  <2>2. QED
    BY <1>1, <1>15, <2>1 DEF MarkerSound, CrashApp, diskVars
<1>16. CASE UNCHANGED updaterVars
  BY <1>1, <1>16 DEF MarkerSound, updaterVars, diskVars
<1>17. QED
  BY <1>1, <1>2, <1>3, <1>4, <1>5, <1>6, <1>8, <1>9, <1>10, <1>12, <1>13, <1>14,
     <1>15, <1>16 DEF UpdaterNext

\* No step brings a build into the folders that was not published.
LEMMA DownloadStep ==
    UpdaterTyped /\ MarkerSound /\ DownloadSound /\ [UpdaterNext]_updaterVars => DownloadSound'
<1>1. SUFFICES ASSUME UpdaterTyped, MarkerSound, DownloadSound, [UpdaterNext]_updaterVars
               PROVE  DownloadSound'
  OBVIOUS
<1>a. /\ app \in AppType /\ moves \in MovesType
      /\ latest \in Nat /\ latest \in Builds
      /\ staged \in Folders /\ backup \in Folders /\ installed \in Folders
  BY <1>1, BuildsAndFiles DEF UpdaterTyped
<1>b. /\ \A f \in Files : installed[f] \in Nat /\ staged[f] \in Nat /\ backup[f] \in Nat
      /\ app.release \in Nat
      /\ Absent \in Nat /\ Absent <= latest
  <2>1. Builds \cup {Absent} \subseteq Nat /\ Absent \in Nat /\ Absent <= latest
    BY <1>a, BuildsAndFiles DEF Absent
  <2>2. app.release \in Builds \cup {Absent}
    BY <1>a DEF AppType
  <2>3. QED
    BY <1>a, <2>1, <2>2 DEF Folders
<1>c. /\ installed[Executable] <= latest /\ staged[Executable] <= latest
      /\ backup[Executable] <= latest /\ app.release <= latest
  BY <1>1 DEF DownloadSound
<1>d. Executable \in Files
  BY BuildsAndFiles
<1>2. CASE Check
  <2>1. CASE staged' = NoFiles /\ backup' = NoFiles /\ To("Checking")
             /\ UNCHANGED <<installed, latest>>
    <3>1. app'.state = "Checking" /\ app'.release = app.release
      BY <1>a, <2>1, ToKeeps DEF UpdaterStates
    <3>2. QED
      BY <1>b, <1>c, <1>d, <2>1, <3>1 DEF DownloadSound, NoFiles
  <2>2. CASE /\ \E gone \in SUBSET Has(staged) : staged' = Cleared(staged, gone)
             /\ \E gone \in SUBSET Has(backup) : backup' = Cleared(backup, gone)
             /\ To("Failed")
             /\ UNCHANGED <<installed, latest>>
    <3>1. app'.state = "Failed" /\ app'.release = app.release
      BY <1>a, <2>2, ToKeeps DEF UpdaterStates
    <3>2. /\ staged'[Executable] \in {Absent, staged[Executable]}
          /\ backup'[Executable] \in {Absent, backup[Executable]}
      BY <1>a, <1>d, <2>2, ClearedHas DEF Has
    <3>3. QED
      BY <1>b, <1>c, <2>2, <3>1, <3>2 DEF DownloadSound
  <2>3. QED
    BY <1>2, <2>1, <2>2 DEF Check
<1>3. CASE ReceiveRelease
  <2>1. backup = NoFiles /\ staged = NoFiles /\ UNCHANGED <<installed, staged, backup, latest>>
    BY <1>1, <1>3 DEF DownloadSound, ReceiveRelease, diskVars
  <2>2. \/ app'.state \in {"Failed", "UpToDate"} /\ app'.release = app.release
        \/ app'.state \in {"Downloading", "ManualInstall", "Failed"} /\ app'.release = latest
    BY <1>a, <1>3 DEF ReceiveRelease, To, AppType
  <2>3. QED
    BY <1>a, <1>b, <1>c, <2>1, <2>2 DEF DownloadSound
<1>4. CASE FinishDownload
  <2>1. app'.state \in {"Extracting", "Failed"} /\ app'.release = app.release
    BY <1>a, <1>4 DEF FinishDownload, To, AppType
  <2>2. /\ staged = NoFiles /\ backup = NoFiles
        /\ app.release \in Builds /\ installed[Executable] <= app.release
        /\ UNCHANGED <<installed, staged, backup, latest>>
    BY <1>1, <1>4 DEF DownloadSound, FinishDownload, diskVars
  <2>3. \A f \in Files : staged[f] = Absent
    BY <2>2 DEF NoFiles
  <2>4. QED
    BY <1>c, <2>1, <2>2, <2>3 DEF DownloadSound
<1>5. CASE ExtractFile
  <2>1. PICK f \in ReleaseFiles[app.release] : staged' = [staged EXCEPT ![f] = app.release]
    BY <1>5 DEF ExtractFile
  <2>2. /\ app.state = "Extracting" /\ app.release \in Builds
        /\ installed[Executable] <= app.release /\ backup = NoFiles
        /\ \A g \in Files : staged[g] \in {Absent, Unpacked(app.release)[g]}
    BY <1>1, <1>5 DEF DownloadSound, ExtractFile
  <2>3. f \in Files
    BY <2>1, <2>2, BuildsAndFiles
  <2>4. Unpacked(app.release)[f] = app.release
    BY <2>1, <2>3 DEF Unpacked
  <2>5. \A g \in Files : staged'[g] = IF g = f THEN app.release ELSE staged[g]
    BY <1>a, <2>1, <2>3 DEF Folders
  <2>6. /\ \A g \in Files : staged'[g] \in {Absent, Unpacked(app.release)[g]}
        /\ staged'[Executable] <= latest
    BY <1>c, <1>d, <2>2, <2>4, <2>5
  <2>7. UNCHANGED <<installed, backup, app, latest>>
    BY <1>5 DEF ExtractFile
  <2>8. QED
    BY <1>c, <2>2, <2>6, <2>7 DEF DownloadSound
<1>6. CASE FinishExtracting
  <2>1. app'.state \in {"Ready", "Failed"} /\ app'.release = app.release
    BY <1>a, <1>6 DEF FinishExtracting, To, AppType
  <2>2. UNCHANGED <<installed, staged, backup, latest>>
    BY <1>6 DEF FinishExtracting
  <2>3. QED
    BY <1>c, <2>1, <2>2 DEF DownloadSound
<1>7. ASSUME UNCHANGED <<installed, staged, backup, latest>>,
             app'.state \notin {"Checking", "Downloading", "Extracting"},
             app'.release \in {Absent, app.release}
      PROVE  DownloadSound'
  BY <1>b, <1>c, <1>7 DEF DownloadSound
<1>8. CASE RestartToInstall
  BY <1>1, <1>7, <1>8, InstallStagedDoes DEF RestartToInstall
<1>9. CASE StartApp
  BY <1>7, <1>9 DEF StartApp, diskVars
<1>10. CASE StartStagedUpdate
  <2>1. UNCHANGED <<installed, staged, backup, latest>>
    BY <1>10 DEF StartStagedUpdate
  <2>2. CASE InstallStaged(TRUE)
    BY <1>1, <1>7, <2>1, <2>2, InstallStagedDoes
  <2>3. CASE To("Idle")
    BY <1>a, <1>7, <2>1, <2>3, ToKeeps DEF UpdaterStates
  <2>4. QED
    BY <1>10, <2>2, <2>3 DEF StartStagedUpdate
<1>11. ASSUME app.state = "Installing", UNCHANGED <<app, latest>>,
              {installed'[Executable], staged'[Executable], backup'[Executable]} \subseteq
                {installed[Executable], staged[Executable], backup[Executable], Absent}
       PROVE  DownloadSound'
  BY <1>b, <1>c, <1>11 DEF DownloadSound
<1>12. CASE MoveAside
  BY <1>a, <1>d, <1>11, <1>12 DEF MoveAside, Moving, Folders
<1>13. CASE PlaceFile
  BY <1>a, <1>d, <1>11, <1>13 DEF PlaceFile, Moving, Folders
<1>14. CASE MoveIsRefused
  BY <1>11, <1>14 DEF MoveIsRefused, Moving, diskVars
<1>15. CASE AllMoved
  <2>1. app'.state \in {"Off", "Idle", "Installed"} /\ app'.release = app.release
    BY <1>a, <1>15 DEF AllMoved, To, AppType
  <2>2. QED
    BY <1>7, <1>15, <2>1 DEF AllMoved, diskVars
<1>16. CASE RollBack
  <2>1. app.state = "Installing" /\ UNCHANGED <<app, latest>>
    BY <1>16 DEF RollBack
  <2>2. {installed'[Executable], staged'[Executable], backup'[Executable]} \subseteq
            {installed[Executable], staged[Executable], backup[Executable], Absent}
    BY <1>a, <1>d, <1>16 DEF RollBack, Folders
  <2>3. QED
    BY <1>11, <2>1, <2>2
<1>17. CASE RolledBack
  <2>1. app'.state \in {"Idle", "Failed"} /\ app'.release = app.release
    BY <1>a, <1>17, GivesUpStates DEF RolledBack, MovesType
  <2>2. QED
    BY <1>7, <1>17, <2>1 DEF RolledBack, diskVars
<1>18. CASE Publish
  <2>1. latest' = latest + 1 /\ UNCHANGED <<diskVars, app>>
    BY <1>18 DEF Publish
  <2>2. QED
    BY <1>1, <1>a, <1>b, <1>c, <1>d, <2>1 DEF DownloadSound, diskVars
<1>19. CASE Quit
  BY <1>a, <1>7, <1>19, ToKeeps DEF Quit, UpdaterStates, diskVars
<1>20. CASE CrashApp
  BY <1>a, <1>7, <1>20, ToKeeps DEF CrashApp, UpdaterStates, diskVars
<1>21. CASE UNCHANGED updaterVars
  BY <1>1, <1>21 DEF DownloadSound, updaterVars, diskVars
<1>22. QED
  BY <1>1, <1>2, <1>3, <1>4, <1>5, <1>6, <1>8, <1>9, <1>10, <1>12, <1>13, <1>14,
     <1>15, <1>16, <1>17, <1>18, <1>19, <1>20, <1>21 DEF UpdaterNext

-----------------------------------------------------------------------------
(* The install.                                                              *)

\* The build of a folder, read as a function, is the one of the folder.
LEMMA WholeOfTheFolder ==
    ASSUME installed \in Folders
    PROVE  /\ Whole(installed) = WholeBuild
           /\ [f \in Files |-> installed[f]] = installed
           /\ WholeBuild \in {MixedBuilds, installed[Executable]}
BY DEF Whole, WholeBuild, Folders

\* An install that begins has touched nothing, and has one build to bring.
LEMMA BeginIsSound ==
    ASSUME UpdaterTyped, MarkerSound, marker # Absent, CanReplace,
           moves'.todo = Has(staged), moves'.steps = <<>>, moves'.back = FALSE,
           moves'.base = WholeBuild,
           UNCHANGED <<installed, staged, backup, updateFaults>>
    PROVE  InstallSound'
<1>1. /\ installed \in Folders /\ staged \in Folders
      /\ marker \in Builds /\ marker \in Nat /\ marker # Absent
  BY BuildsAndFiles DEF UpdaterTyped
<1>2. /\ backup = NoFiles
      /\ installed[Executable] <= marker
      /\ \A f \in Files : staged[f] \in {Absent, marker}
      /\ updateFaults.removes <= 1 => staged = Unpacked(marker)
  BY DEF MarkerSound
<1>3. WholeBuild \in {Absent, installed[Executable]} /\ Executable \in Files
  BY <1>1, WholeOfTheFolder, BuildsAndFiles DEF MixedBuilds, Absent
<1>4. installed[Executable] \in Nat /\ Absent \in Nat /\ Absent = 0
  <2>1. Builds \cup {Absent} \subseteq Nat /\ Absent \in Nat /\ Absent = 0
    BY BuildsAndFiles DEF Absent
  <2>2. installed[Executable] \in Builds \cup {Absent}
    BY <1>1, BuildsAndFiles DEF Folders
  <2>3. QED
    BY <2>1, <2>2
<1>5. WholeBuild \in Nat /\ WholeBuild <= marker /\ WholeBuild <= installed[Executable]
  BY <1>1, <1>2, <1>3, <1>4
<1>6. DOMAIN moves'.steps = {} /\ Touched' = {}
  BY DEF Touched
<1>7. StepsSound'
  BY <1>2, <1>6 DEF StepsSound, NoFiles
<1>8. FolderSound'
  <2>1. Before' = installed
    BY <1>1, <1>6, WholeOfTheFolder DEF Before
  <2>2. Whole(Before)' = WholeBuild
    BY <1>1, <2>1, WholeOfTheFolder DEF Whole
  <2>3. backup'[Executable] = Absent
    BY <1>2, <1>3 DEF NoFiles
  <2>4. \A f \in Files : staged'[f] # Absent => staged'[f] >= moves'.base
    BY <1>2, <1>5
  <2>5. installed'[Executable] # Absent => installed'[Executable] >= moves'.base
    BY <1>5
  <2>6. QED
    BY <2>2, <2>3, <2>4, <2>5 DEF FolderSound
<1>9. NewBuildArrives'
  <2>1. PICK m \in Builds : m = marker
    BY <1>1
  <2>2. SUFFICES ASSUME updateFaults.removes <= 1
                 PROVE  Executable \in ReleaseFiles[m] /\ \A f \in ReleaseFiles[m] : Arrives(f, m)'
    BY DEF NewBuildArrives
  <2>3. staged = Unpacked(m)
    BY <1>2, <2>1, <2>2
  <2>4. \A f \in ReleaseFiles[m] : f \in Has(staged) /\ staged[f] = m
    BY <1>1, <2>1, <2>3, BuildsAndFiles DEF Has, Unpacked
  <2>5. Executable \in ReleaseFiles[m]
    BY <1>3, <2>3 DEF CanReplace, Has, Unpacked
  <2>6. QED
    BY <2>4, <2>5 DEF Arrives
<1>10. QED
  BY <1>7, <1>8, <1>9 DEF InstallSound

\* Moving a file aside puts it where it is remembered.
LEMMA MoveAsideIsSound == UpdaterTyped /\ InstallSound /\ MoveAside => InstallSound'
<1>1. SUFFICES ASSUME UpdaterTyped, InstallSound, MoveAside PROVE InstallSound'
  OBVIOUS
<1>2. PICK f \in moves.todo :
        /\ backup' = [backup EXCEPT ![f] = IF installed[f] # Absent THEN installed[f] ELSE @]
        /\ installed' = [installed EXCEPT ![f] = Absent]
        /\ moves' = [moves EXCEPT !.todo = @ \ {f},
                        !.steps = Append(@, [file |-> f, saved |-> installed[f] # Absent,
                                             placed |-> FALSE])]
  BY <1>1 DEF MoveAside
<1>3. /\ installed \in Folders /\ staged \in Folders /\ backup \in Folders
      /\ moves \in MovesType /\ f \in Files /\ moves.steps \in Seq(StepType)
  BY <1>1, <1>2 DEF UpdaterTyped, MovesType
<1>4. /\ StepsSound /\ FolderSound /\ NewBuildArrives /\ app.state = "Installing"
      /\ ~ moves.back /\ BetweenFiles
      /\ UNCHANGED <<staged, app, updateFaults>>
  BY <1>1 DEF MoveAside, Moving, InstallSound
<1> DEFINE e == [file |-> f, saved |-> installed[f] # Absent, placed |-> FALSE]
<1>5. e \in StepType /\ e.file = f /\ ~ e.placed /\ (~ e.saved => installed[f] = Absent)
  <2>1. (installed[f] # Absent) \in BOOLEAN
    OBVIOUS
  <2>2. QED
    BY <1>3, <2>1 DEF StepType
<1>6. /\ moves'.todo = moves.todo \ {f} /\ moves'.steps = Append(moves.steps, e)
      /\ moves'.back = moves.back /\ moves'.base = moves.base
  BY <1>2, <1>3, <1>5 DEF MovesType
<1> HIDE DEF e
<1>7. /\ Len(moves'.steps) = Len(moves.steps) + 1
      /\ DOMAIN moves'.steps = DOMAIN moves.steps \cup {Len(moves.steps) + 1}
      /\ \A i \in DOMAIN moves.steps : moves'.steps[i] = moves.steps[i]
      /\ moves'.steps[Len(moves.steps) + 1] = e
      /\ Len(moves.steps) + 1 \notin DOMAIN moves.steps
  BY <1>3, <1>6, StepAdded
<1>8. \A g \in Files :
        /\ backup'[g] = IF g = f /\ installed[f] # Absent THEN installed[f] ELSE backup[g]
        /\ installed'[g] = IF g = f THEN Absent ELSE installed[g]
  BY <1>2, <1>3 DEF Folders
<1>9. \A i \in DOMAIN moves.steps :
        moves.steps[i].file # f /\ moves.steps[i].file \in Files /\ moves.steps[i].placed
  <2>1. \A i \in DOMAIN moves.steps : moves.steps[i].file # f
    BY <1>2, <1>4 DEF StepsSound
  <2>2. \A i \in DOMAIN moves.steps : moves.steps[i] \in StepType
    BY <1>3
  <2>3. \A i \in DOMAIN moves.steps : moves.steps[i].placed
    <3>1. moves.steps # <<>> => moves.steps[Len(moves.steps)].placed
      BY <1>4 DEF BetweenFiles, Step
    <3>2. QED
      BY <1>3, <1>4, <3>1 DEF StepsSound
  <2>4. QED
    BY <2>1, <2>2, <2>3 DEF StepType
<1>10. Touched' = Touched \cup {f} /\ f \notin Touched
  BY <1>5, <1>7, <1>9 DEF Touched
<1>11. backup[f] = Absent
  BY <1>3, <1>4, <1>10 DEF StepsSound
<1>12. StepsSound'
  <2>1. \A i, j \in DOMAIN moves'.steps : moves'.steps[i].file = moves'.steps[j].file => i = j
    BY <1>4, <1>5, <1>7, <1>9 DEF StepsSound
  <2>2. ASSUME NEW i \in DOMAIN moves'.steps
        PROVE  /\ moves'.steps[i].file \notin moves'.todo
               /\ i # Len(moves'.steps) => moves'.steps[i].placed
               /\ ~ moves'.steps[i].saved => backup'[moves'.steps[i].file] = Absent
               /\ ~ moves'.steps[i].placed => installed'[moves'.steps[i].file] = Absent
    <3>1. CASE i \in DOMAIN moves.steps
      BY <1>4, <1>6, <1>7, <1>8, <1>9, <3>1 DEF StepsSound
    <3>2. CASE i = Len(moves.steps) + 1
      BY <1>3, <1>5, <1>6, <1>7, <1>8, <1>11, <3>2
    <3>3. QED
      BY <1>7, <3>1, <3>2
  <2>3. \A g \in Files \ Touched' : backup'[g] = Absent
    BY <1>4, <1>8, <1>10 DEF StepsSound
  <2>4. QED
    BY <1>4, <1>6, <2>1, <2>2, <2>3 DEF StepsSound
<1>13. FolderSound'
  <2>1. \A g \in Files : Before'[g] = Before[g]
    BY <1>8, <1>10, <1>11 DEF Before
  <2>2. Before' = Before
    BY <2>1 DEF Before
  <2>3. Whole(Before)' = Whole(Before)
    BY <2>2 DEF Whole, Holds
  <2>4. Failures' = Failures
    BY <1>4 DEF Failures
  <2>5. Executable \in Files
    BY BuildsAndFiles
  <2>6. QED
    BY <1>4, <1>6, <1>8, <2>3, <2>4, <2>5 DEF FolderSound
<1>14. NewBuildArrives'
  <2>1. SUFFICES ASSUME updateFaults.removes <= 1 PROVE NewBuildArrives'
    BY <1>4 DEF NewBuildArrives
  <2>2. PICK m \in Builds :
            Executable \in ReleaseFiles[m] /\ \A g \in ReleaseFiles[m] : Arrives(g, m)
    BY <1>4, <2>1 DEF NewBuildArrives
  <2>3. ASSUME NEW g \in ReleaseFiles[m] PROVE Arrives(g, m)'
    <3>1. g \in Files /\ Arrives(g, m)
      BY <2>2, BuildsAndFiles
    <3>2. CASE g = f
      <4>1. staged[g] = m
        BY <1>2, <3>1, <3>2 DEF Arrives
      <4>2. Len(moves.steps) + 1 \in DOMAIN moves'.steps
        BY <1>7
      <4>3. moves'.steps[Len(moves.steps) + 1].file = g
            /\ ~ moves'.steps[Len(moves.steps) + 1].placed
        BY <1>5, <1>7, <3>2
      <4>4. QED
        BY <1>4, <4>1, <4>2, <4>3 DEF Arrives
    <3>3. CASE g # f
      <4>1. g \in moves'.todo <=> g \in moves.todo
        BY <1>6, <3>3
      <4>2. ~ \E i \in DOMAIN moves.steps : moves.steps[i].file = g /\ ~ moves.steps[i].placed
        BY <1>9
      <4>3. ~ \E i \in DOMAIN moves'.steps : moves'.steps[i].file = g /\ ~ moves'.steps[i].placed
        BY <1>5, <1>7, <3>3, <4>2
      <4>4. installed'[g] = installed[g] /\ staged'[g] = staged[g]
        BY <1>4, <1>8, <3>1, <3>3
      <4>5. QED
        BY <3>1, <4>1, <4>2, <4>3, <4>4 DEF Arrives
    <3>4. QED
      BY <3>2, <3>3
  <2>4. QED
    BY <2>2, <2>3 DEF NewBuildArrives
<1>15. QED
  BY <1>12, <1>13, <1>14 DEF InstallSound

\* Placing a file puts the new one where the old one was taken away.
LEMMA PlaceFileIsSound == UpdaterTyped /\ InstallSound /\ PlaceFile => InstallSound'
<1>1. SUFFICES ASSUME UpdaterTyped, InstallSound, PlaceFile PROVE InstallSound'
  OBVIOUS
<1>2. /\ installed \in Folders /\ staged \in Folders /\ backup \in Folders
      /\ moves \in MovesType /\ moves.steps \in Seq(StepType)
  BY <1>1 DEF UpdaterTyped, MovesType
<1>3. /\ StepsSound /\ FolderSound /\ NewBuildArrives /\ app.state = "Installing"
      /\ ~ moves.back /\ moves.steps # <<>> /\ ~ Step.placed
      /\ UNCHANGED <<backup, app, updateFaults>>
  BY <1>1 DEF PlaceFile, Moving, BetweenFiles, InstallSound
<1> DEFINE n == Len(moves.steps)
           f == Step.file
           e == [Step EXCEPT !.placed = TRUE]
<1>4. /\ Step \in StepType /\ f \in Files /\ e \in StepType
      /\ e.file = f /\ e.saved = Step.saved /\ e.placed /\ Step.file = f
      /\ n \in DOMAIN moves.steps /\ moves.steps[n] = Step
  <2>1. Step \in StepType /\ n \in DOMAIN moves.steps /\ moves.steps[n] = Step
    BY <1>2, <1>3, StepDropped DEF Step
  <2>2. QED
    BY <2>1 DEF StepType
<1>5. /\ moves'.todo = moves.todo /\ moves'.steps = [moves.steps EXCEPT ![n] = e]
      /\ moves'.back = moves.back /\ moves'.base = moves.base
  <2>1. moves' = [moves EXCEPT !.steps = [moves.steps EXCEPT ![n] = e]]
    BY <1>1, <1>2, <1>3, <1>4, MovesKeepTheirType DEF PlaceFile
  <2>2. QED
    BY <1>2, <2>1 DEF MovesType
<1>6. /\ Len(moves'.steps) = n
      /\ DOMAIN moves'.steps = DOMAIN moves.steps
      /\ \A i \in DOMAIN moves.steps : moves'.steps[i] = IF i = n THEN e ELSE moves.steps[i]
  BY <1>2, <1>3, <1>4, <1>5, StepChanged
<1>7. \A g \in Files :
        /\ installed'[g] = IF g = f THEN staged[f] ELSE installed[g]
        /\ staged'[g] = IF g = f THEN Absent ELSE staged[g]
  BY <1>1, <1>2, <1>4 DEF PlaceFile, Folders
<1>8. /\ \A i \in DOMAIN moves.steps :
            moves'.steps[i].file = moves.steps[i].file /\ moves'.steps[i].saved = moves.steps[i].saved
      /\ \A i \in DOMAIN moves.steps : i # n => moves.steps[i].file # f
      /\ \A i \in DOMAIN moves'.steps : moves'.steps[i].placed
  <2>1. \A i \in DOMAIN moves.steps : i # n => moves.steps[i].placed /\ moves.steps[i].file # f
    BY <1>3, <1>4 DEF StepsSound
  <2>2. QED
    BY <1>4, <1>6, <2>1
<1> HIDE DEF n, f, e
<1>9. Touched' = Touched /\ f \in Touched
  BY <1>4, <1>6, <1>8 DEF Touched, f
<1>10. StepsSound'
  <2>1. ASSUME NEW i \in DOMAIN moves'.steps
        PROVE  /\ moves'.steps[i].file \notin moves'.todo
               /\ i # Len(moves'.steps) => moves'.steps[i].placed
               /\ ~ moves'.steps[i].saved => backup'[moves'.steps[i].file] = Absent
               /\ ~ moves'.steps[i].placed => installed'[moves'.steps[i].file] = Absent
    BY <1>3, <1>5, <1>6, <1>8, <2>1 DEF StepsSound
  <2>2. \A i, j \in DOMAIN moves'.steps : moves'.steps[i].file = moves'.steps[j].file => i = j
    BY <1>3, <1>6, <1>8 DEF StepsSound
  <2>3. QED
    BY <1>3, <1>5, <1>9, <2>1, <2>2 DEF StepsSound
<1>11. FolderSound'
  <2>1. \A g \in Files : Before'[g] = Before[g]
    BY <1>3, <1>7, <1>9 DEF Before
  <2>2. Before' = Before
    BY <2>1 DEF Before
  <2>3. Whole(Before)' = Whole(Before)
    BY <2>2 DEF Whole, Holds
  <2>4. Failures' = Failures
    BY <1>3 DEF Failures
  <2>5. Executable \in Files
    BY BuildsAndFiles
  <2>6. \A g \in Files : staged'[g] # Absent => staged'[g] >= moves'.base
    BY <1>3, <1>5, <1>7 DEF FolderSound
  <2>7. installed'[Executable] # Absent => installed'[Executable] >= moves'.base
    BY <1>3, <1>4, <1>5, <1>7, <2>5 DEF FolderSound
  <2>8. QED
    BY <1>3, <1>5, <2>3, <2>4, <2>6, <2>7 DEF FolderSound
<1>12. NewBuildArrives'
  <2>1. SUFFICES ASSUME updateFaults.removes <= 1 PROVE NewBuildArrives'
    BY <1>3 DEF NewBuildArrives
  <2>2. PICK m \in Builds :
            Executable \in ReleaseFiles[m] /\ \A g \in ReleaseFiles[m] : Arrives(g, m)
    BY <1>3, <2>1 DEF NewBuildArrives
  <2>3. ASSUME NEW g \in ReleaseFiles[m] PROVE Arrives(g, m)'
    <3>1. g \in Files /\ Arrives(g, m)
      BY <2>2, BuildsAndFiles
    <3>2. ~ \E i \in DOMAIN moves'.steps : moves'.steps[i].file = g /\ ~ moves'.steps[i].placed
      BY <1>8
    <3>3. CASE g = f
      <4>1. staged[g] = m
        BY <1>3, <1>4, <3>1, <3>3 DEF Arrives
      <4>2. installed'[g] = m
        BY <1>7, <3>1, <3>3, <4>1
      <4>3. g \notin moves'.todo
        BY <1>3, <1>4, <1>5, <3>3 DEF StepsSound
      <4>4. QED
        BY <3>2, <4>2, <4>3 DEF Arrives
    <3>4. CASE g # f
      <4>1. ~ \E i \in DOMAIN moves.steps : moves.steps[i].file = g /\ ~ moves.steps[i].placed
        BY <1>3, <1>4, <3>4 DEF StepsSound
      <4>2. installed'[g] = installed[g] /\ staged'[g] = staged[g]
        BY <1>7, <3>1, <3>4
      <4>3. QED
        BY <1>5, <3>1, <3>2, <4>1, <4>2 DEF Arrives
    <3>5. QED
      BY <3>3, <3>4
  <2>4. QED
    BY <2>2, <2>3 DEF NewBuildArrives
<1>13. QED
  BY <1>10, <1>11, <1>12 DEF InstallSound

\* A refused move changes nothing but what is done next.
LEMMA RefusalIsSound == UpdaterTyped /\ InstallSound /\ MoveIsRefused => InstallSound'
<1>1. SUFFICES ASSUME UpdaterTyped, InstallSound, MoveIsRefused PROVE InstallSound'
  OBVIOUS
<1>2. /\ StepsSound /\ FolderSound
      /\ UNCHANGED <<installed, staged, backup, app>>
      /\ moves' = [moves EXCEPT !.back = TRUE]
      /\ moves \in MovesType /\ updateFaults \in FaultsType
  BY <1>1 DEF MoveIsRefused, Moving, InstallSound, UpdaterTyped, diskVars
<1>3. /\ moves'.todo = moves.todo /\ moves'.steps = moves.steps
      /\ moves'.base = moves.base /\ moves'.back
  BY <1>2 DEF MovesType
<1>4. /\ updateFaults.moves \in Nat /\ updateFaults.removes \in Nat
      /\ updateFaults'.moves = updateFaults.moves + 1
      /\ updateFaults'.removes = updateFaults.removes
  BY <1>1, <1>2, RefusalCounted DEF MoveIsRefused, FaultsType
<1>5. Touched' = Touched /\ Before' = Before
  BY <1>2, <1>3 DEF Touched, Before
<1>6. Whole(Before)' = Whole(Before)
  BY <1>5 DEF Whole, Holds
<1>7. Failures' <= 1 => Failures <= 1
  BY <1>4 DEF Failures
<1>8. StepsSound'
  <2>1. updateFaults'.moves >= 1
    BY <1>4
  <2>2. QED
    BY <1>2, <1>3, <2>1 DEF StepsSound
<1>9. FolderSound'
  BY <1>2, <1>3, <1>6, <1>7 DEF FolderSound
<1>10. NewBuildArrives'
  BY <1>3 DEF NewBuildArrives
<1>11. QED
  BY <1>8, <1>9, <1>10 DEF InstallSound

\* Undoing one move restores what the folder was, or is the second refusal.
LEMMA RollBackIsSound == UpdaterTyped /\ InstallSound /\ RollBack => InstallSound'
<1>1. SUFFICES ASSUME UpdaterTyped, InstallSound, RollBack PROVE InstallSound'
  OBVIOUS
<1>2. /\ installed \in Folders /\ staged \in Folders /\ backup \in Folders
      /\ moves \in MovesType /\ moves.steps \in Seq(StepType)
      /\ updateFaults \in FaultsType
      /\ updateFaults.moves \in Nat /\ updateFaults.removes \in Nat
  BY <1>1 DEF UpdaterTyped, MovesType, FaultsType
<1>3. /\ StepsSound /\ FolderSound /\ app.state = "Installing"
      /\ moves.back /\ moves.steps # <<>>
      /\ UNCHANGED app
  BY <1>1 DEF RollBack, InstallSound
<1> DEFINE n == Len(moves.steps)
           f == Step.file
           e == [Step EXCEPT !.placed = FALSE]
           rest == [moves EXCEPT !.steps = SubSeq(@, 1, Len(@) - 1)]
<1>4. /\ Step \in StepType /\ f \in Files /\ e \in StepType
      /\ e.file = f /\ e.saved = Step.saved /\ ~ e.placed /\ Step.file = f
      /\ n \in DOMAIN moves.steps /\ moves.steps[n] = Step
  <2>1. Step \in StepType /\ n \in DOMAIN moves.steps /\ moves.steps[n] = Step
    BY <1>2, <1>3, StepDropped DEF Step
  <2>2. QED
    BY <2>1 DEF StepType
<1>5. Executable \in Files
  BY BuildsAndFiles
<1>6. updateFaults.moves >= 1
  BY <1>3 DEF StepsSound
<1>7. ASSUME Whole(Before)' = Whole(Before) \/ ~ (Failures' <= 1),
             Failures' <= 1 => Failures <= 1,
             updateFaults'.moves >= 1,
             moves'.base = moves.base, moves'.back,
             installed'[Executable] \in {Absent, installed[Executable], backup[Executable]},
             backup'[Executable] \in {Absent, backup[Executable]},
             StepsSound'
      PROVE  InstallSound'
  <2>1. FolderSound'
    BY <1>3, <1>7 DEF FolderSound
  <2>2. NewBuildArrives'
    BY <1>7 DEF NewBuildArrives
  <2>3. QED
    BY <1>7, <2>1, <2>2 DEF InstallSound
<1>8. CASE /\ Step.placed
           /\ installed' = [installed EXCEPT ![Step.file] = Absent]
           /\ moves' = WithStep(e)
           /\ UNCHANGED <<backup, updateFaults>>
  <2>1. moves' = [moves EXCEPT !.steps = [moves.steps EXCEPT ![n] = e]]
    BY <1>2, <1>3, <1>4, <1>8, MovesKeepTheirType
  <2>2. /\ moves'.todo = moves.todo /\ moves'.steps = [moves.steps EXCEPT ![n] = e]
        /\ moves'.back = moves.back /\ moves'.base = moves.base
    BY <1>2, <2>1 DEF MovesType
  <2>3. /\ Len(moves'.steps) = n
        /\ DOMAIN moves'.steps = DOMAIN moves.steps
        /\ \A i \in DOMAIN moves.steps : moves'.steps[i] = IF i = n THEN e ELSE moves.steps[i]
    BY <1>2, <1>3, <1>4, <2>2, StepChanged
  <2>4. \A g \in Files : installed'[g] = IF g = f THEN Absent ELSE installed[g]
    BY <1>2, <1>4, <1>8 DEF Folders
  <2>5. \A i \in DOMAIN moves.steps :
            moves'.steps[i].file = moves.steps[i].file /\ moves'.steps[i].saved = moves.steps[i].saved
    BY <1>4, <2>3
  <2> HIDE DEF n, f, e
  <2>6. Touched' = Touched /\ f \in Touched
    BY <1>4, <2>3, <2>5 DEF Touched, f
  <2>7. \A i \in DOMAIN moves.steps : moves.steps[i] \in StepType
    BY <1>2
  <2>8. \A i \in DOMAIN moves.steps : moves.steps[i].file \in Files
    BY <2>7 DEF StepType
  <2>9. ASSUME NEW i \in DOMAIN moves'.steps
        PROVE  /\ moves'.steps[i].file \notin moves'.todo
               /\ i # Len(moves'.steps) => moves'.steps[i].placed
               /\ ~ moves'.steps[i].saved => backup'[moves'.steps[i].file] = Absent
               /\ ~ moves'.steps[i].placed => installed'[moves'.steps[i].file] = Absent
    <3>1. CASE i = n
      BY <1>3, <1>4, <1>8, <2>2, <2>3, <2>4, <3>1 DEF StepsSound
    <3>2. CASE i # n
      <4>1. moves'.steps[i] = moves.steps[i] /\ moves.steps[i].placed
        BY <1>3, <2>3, <3>2 DEF StepsSound, n
      <4>2. QED
        BY <1>3, <1>8, <2>2, <2>3, <4>1 DEF StepsSound
    <3>3. QED
      BY <3>1, <3>2
  <2>10. \A i, j \in DOMAIN moves'.steps : moves'.steps[i].file = moves'.steps[j].file => i = j
    BY <1>3, <2>3, <2>5 DEF StepsSound
  <2>11. StepsSound'
    BY <1>3, <1>6, <1>8, <2>2, <2>9, <2>10 DEF StepsSound
  <2>12. \A g \in Files : Before'[g] = Before[g]
    BY <1>8, <2>4, <2>6 DEF Before
  <2>13. Before' = Before
    BY <2>12 DEF Before
  <2>14. Whole(Before)' = Whole(Before)
    BY <2>13 DEF Whole, Holds
  <2>15. Failures' = Failures
    BY <1>8 DEF Failures
  <2>16. QED
    BY <1>3, <1>5, <1>6, <1>7, <1>8, <2>2, <2>4, <2>11, <2>14, <2>15
<1>9. ASSUME moves' = rest
      PROVE  /\ moves'.todo = moves.todo /\ moves'.back /\ moves'.base = moves.base
             /\ Len(moves'.steps) = n - 1
             /\ DOMAIN moves'.steps = DOMAIN moves.steps \ {n}
             /\ \A i \in DOMAIN moves'.steps : moves'.steps[i] = moves.steps[i]
             /\ Touched' = Touched \ {f} /\ f \in Touched
             /\ \A i \in DOMAIN moves'.steps :
                    moves'.steps[i].placed /\ moves'.steps[i].file # f /\ moves'.steps[i].file \in Files
  <2>1. /\ moves'.todo = moves.todo /\ moves'.back /\ moves'.base = moves.base
        /\ moves'.steps = SubSeq(moves.steps, 1, n - 1)
    BY <1>2, <1>3, <1>9 DEF MovesType
  <2>2. /\ Len(moves'.steps) = n - 1
        /\ DOMAIN moves'.steps = DOMAIN moves.steps \ {n}
        /\ \A i \in DOMAIN moves'.steps : moves'.steps[i] = moves.steps[i]
    BY <1>2, <1>3, <2>1, StepDropped
  <2>3. \A i \in DOMAIN moves.steps : moves.steps[i] \in StepType
    BY <1>2
  <2>4. \A i \in DOMAIN moves.steps : moves.steps[i].file \in Files
    BY <2>3 DEF StepType
  <2>5. \A i \in DOMAIN moves.steps : i # n => moves.steps[i].placed /\ moves.steps[i].file # f
    BY <1>3, <1>4 DEF StepsSound
  <2>6. Touched' = Touched \ {f} /\ f \in Touched
    BY <1>4, <2>2, <2>5 DEF Touched
  <2>7. QED
    BY <2>1, <2>2, <2>4, <2>5, <2>6
<1> HIDE DEF n, f, e, rest
<1>10. ASSUME moves' = rest, updateFaults'.moves >= 1,
              \A g \in Files : g # f => backup'[g] = backup[g]
       PROVE  StepsSound'
  <2>1. ASSUME NEW i \in DOMAIN moves'.steps
        PROVE  /\ moves'.steps[i].file \notin moves'.todo
               /\ moves'.steps[i].placed
               /\ ~ moves'.steps[i].saved => backup'[moves'.steps[i].file] = Absent
    BY <1>3, <1>9, <1>10 DEF StepsSound
  <2>2. \A i, j \in DOMAIN moves'.steps : moves'.steps[i].file = moves'.steps[j].file => i = j
    BY <1>3, <1>9, <1>10 DEF StepsSound
  <2>3. QED
    BY <1>9, <1>10, <2>1, <2>2 DEF StepsSound
<1>11. CASE /\ ~ Step.placed
            /\ \/ /\ Step.saved
                  /\ installed' = [installed EXCEPT ![Step.file] = backup[Step.file]]
                  /\ backup' = [backup EXCEPT ![Step.file] = Absent]
               \/ ~ Step.saved /\ UNCHANGED <<installed, backup>>
            /\ moves' = rest
            /\ UNCHANGED updateFaults
  <2>1. installed[f] = Absent /\ (~ Step.saved => backup[f] = Absent)
    BY <1>3, <1>4, <1>11 DEF StepsSound
  <2>2. \A g \in Files :
            /\ installed'[g] = IF g = f THEN backup[f] ELSE installed[g]
            /\ backup'[g] = IF g = f THEN Absent ELSE backup[g]
    BY <1>2, <1>4, <1>11, <2>1 DEF Folders
  <2>3. StepsSound'
    BY <1>6, <1>10, <1>11, <2>2
  <2>4. \A g \in Files : Before'[g] = Before[g]
    BY <1>9, <1>11, <2>2 DEF Before
  <2>5. Before' = Before
    BY <2>4 DEF Before
  <2>6. Whole(Before)' = Whole(Before)
    BY <2>5 DEF Whole, Holds
  <2>7. Failures' = Failures
    BY <1>11 DEF Failures
  <2>8. /\ installed'[Executable] \in {Absent, installed[Executable], backup[Executable]}
        /\ backup'[Executable] \in {Absent, backup[Executable]}
    BY <1>5, <2>2
  <2>9. QED
    BY <1>6, <1>7, <1>9, <1>11, <2>3, <2>6, <2>7, <2>8
<1>12. CASE MoveFails /\ moves' = rest /\ UNCHANGED <<installed, staged, backup>>
  <2>1. /\ updateFaults'.moves = updateFaults.moves + 1
        /\ updateFaults'.removes = updateFaults.removes
    BY <1>2, <1>12, RefusalCounted
  <2>2. updateFaults'.moves >= 1 /\ ~ (Failures' <= 1)
    BY <1>2, <1>6, <2>1 DEF Failures
  <2>3. StepsSound'
    BY <1>10, <1>12, <2>2
  <2>4. QED
    BY <1>7, <1>9, <1>12, <2>2, <2>3
<1>13. QED
  BY <1>1, <1>8, <1>11, <1>12 DEF RollBack, e, rest

\* Every step keeps an install that is under way sound.
LEMMA InstallStep ==
    UpdaterTyped /\ MarkerSound /\ InstallSound /\ [UpdaterNext]_updaterVars => InstallSound'
<1>1. SUFFICES ASSUME UpdaterTyped, MarkerSound, InstallSound, [UpdaterNext]_updaterVars
               PROVE  InstallSound'
  OBVIOUS
<1>2. app \in AppType
  BY <1>1 DEF UpdaterTyped
<1>3. ASSUME app'.state # "Installing" PROVE InstallSound'
  BY <1>3 DEF InstallSound
<1>4. ASSUME NEW atStart \in BOOLEAN, InstallStaged(atStart), UNCHANGED <<installed, staged, backup>>
      PROVE  InstallSound'
  <2>1. CASE app'.state # "Installing"
    BY <1>3, <2>1
  <2>2. CASE app'.state = "Installing"
    <3>1. /\ marker # Absent /\ CanReplace /\ UNCHANGED updateFaults
          /\ moves' = [todo |-> Has(staged), steps |-> <<>>, back |-> FALSE,
                       atStart |-> atStart, base |-> WholeBuild]
      BY <1>1, <1>4, <2>2, InstallStagedDoes
    <3>2. QED
      BY <1>1, <1>4, <3>1, BeginIsSound
  <2>3. QED
    BY <2>1, <2>2
<1>a. ASSUME NEW state, To(state), state # "Installing" PROVE InstallSound'
  BY <1>2, <1>3, <1>a DEF To, AppType
<1>5. CASE Check \/ FinishDownload \/ FinishExtracting \/ AllMoved \/ Quit \/ CrashApp
  BY <1>a, <1>5 DEF Check, FinishDownload, FinishExtracting, AllMoved, Quit, CrashApp
<1>b. CASE ReceiveRelease
  <2>1. app'.state # "Installing"
    BY <1>2, <1>b DEF ReceiveRelease, To, AppType
  <2>2. QED
    BY <1>3, <2>1
<1>c. CASE StartApp
  BY <1>3, <1>c DEF StartApp
<1>6. CASE ExtractFile
  BY <1>3, <1>6 DEF ExtractFile
<1>7. CASE RestartToInstall
  BY <1>4, <1>7 DEF RestartToInstall
<1>8. CASE StartStagedUpdate
  <2>1. CASE To("Idle")
    BY <1>2, <1>3, <2>1 DEF To, AppType
  <2>2. CASE InstallStaged(TRUE)
    BY <1>4, <1>8, <2>2 DEF StartStagedUpdate
  <2>3. QED
    BY <1>8, <2>1, <2>2 DEF StartStagedUpdate
<1>9. CASE RolledBack
  <2>1. app'.state \in {"Idle", "Failed"}
    BY <1>1, <1>2, <1>9, GivesUpStates DEF RolledBack, MovesType, UpdaterTyped
  <2>2. QED
    BY <1>3, <2>1
<1>10. ASSUME UNCHANGED <<installed, staged, backup, app, moves, updateFaults>>
       PROVE  InstallSound'
  <2>1. Touched' = Touched /\ Before' = Before /\ Failures' = Failures
    BY <1>10 DEF Touched, Before, Failures
  <2>2. Whole(Before)' = Whole(Before)
    BY <2>1 DEF Whole, Holds
  <2>3. \A m \in Builds, f \in Files : Arrives(f, m)' <=> Arrives(f, m)
    BY <1>10 DEF Arrives
  <2>4. NewBuildArrives => NewBuildArrives'
    BY <1>10, <2>3, BuildsAndFiles DEF NewBuildArrives
  <2>5. (StepsSound => StepsSound') /\ (FolderSound => FolderSound')
    BY <1>10, <2>1, <2>2 DEF StepsSound, FolderSound
  <2>6. QED
    BY <1>1, <1>10, <2>4, <2>5 DEF InstallSound
<1>11. CASE Publish
  BY <1>10, <1>11 DEF Publish, diskVars
<1>12. CASE UNCHANGED updaterVars
  BY <1>10, <1>12 DEF updaterVars, diskVars
<1>13. CASE MoveAside \/ PlaceFile \/ MoveIsRefused \/ RollBack
  BY <1>1, <1>13, MoveAsideIsSound, PlaceFileIsSound, RefusalIsSound, RollBackIsSound
<1>14. QED
  BY <1>1, <1>5, <1>b, <1>c, <1>6, <1>7, <1>8, <1>9, <1>11, <1>12, <1>13 DEF UpdaterNext

-----------------------------------------------------------------------------
(* The theorems.                                                             *)

\* The invariant holds in every state of every behaviour.
LEMMA UpdaterInvariance == UpdaterSpec => []IInv
<1>1. UpdaterInit => IInv
  BY TypedInit, MarkerInit DEF IInv
<1>2. IInv /\ [UpdaterNext]_updaterVars => IInv'
  BY TypedStep, MarkerStep, DownloadStep, InstallStep DEF IInv
<1>3. QED
  BY <1>1, <1>2, PTL DEF UpdaterSpec

\* What the updater leaves in its folders, wherever a crash or a refused file
\* operation cut it short (update_install.cpp): a payload that is marked is one
\* whole release as long as at most one removal was refused, and no payload is
\* installed, or tried to be, a second time.
THEOREM UpdaterThm == UpdaterSpec => []UpdaterInv
<1>1. IInv => UpdaterInv
  <2>1. SUFFICES ASSUME IInv PROVE UpdaterInv
    OBVIOUS
  <2>2. UpdaterTypeOK
    BY <2>1 DEF IInv, UpdaterTyped, UpdaterTypeOK, Folders, AppType, MovesType
  <2>3. StagedIsWhole
    <3>1. SUFFICES ASSUME marker # Absent, updateFaults.removes <= 1
                   PROVE  Holds(staged, marker) /\ Has(staged) \subseteq ReleaseFiles[marker]
      BY DEF StagedIsWhole
    <3>2. staged = Unpacked(marker) /\ marker \in Builds
      BY <2>1, <3>1 DEF IInv, MarkerSound, UpdaterTyped
    <3>3. QED
      BY <3>2, BuildsAndFiles DEF Holds, Has, Unpacked
  <2>4. TriedOnce
    BY <2>1 DEF IInv, MarkerSound, TriedOnce
  <2>5. QED
    BY <2>2, <2>3, <2>4 DEF UpdaterInv
<1>2. QED
  BY <1>1, UpdaterInvariance, PTL

-----------------------------------------------------------------------------
(* The folder of the application implements Installation.                    *)

Installing == app.state = "Installing"
Content == IF Installing THEN moves.base ELSE WholeBuild

\* A step of the folder, in the words of Installation.
LEMMA FolderSteps ==
    \/ /\ UNCHANGED <<Content, Installing>>
       /\ updateFaults'.crashes = updateFaults.crashes /\ Failures' = Failures
    \/ /\ ~ Installing /\ Installing' /\ Content' = Content
       /\ updateFaults'.crashes = updateFaults.crashes /\ Failures' = Failures
    \/ /\ Installing /\ ~ Installing'
       /\ \/ Content' \in Builds /\ (Content # MixedBuilds => Content' > Content)
          \/ Content' = Content
          \/ Content' = MixedBuilds /\ Failures > 1
       /\ updateFaults'.crashes = updateFaults.crashes /\ Failures' = Failures
    \/ /\ updateFaults'.crashes = updateFaults.crashes + 1
       /\ ~ Installing'
       /\ \/ Content' = Content
          \/ /\ Installing
             /\ \/ Content' \in Builds /\ (Content # MixedBuilds => Content' > Content)
                \/ Content' = MixedBuilds
       /\ Failures' = Failures
    \/ /\ Failures' = Failures + 1 /\ UNCHANGED <<Content, Installing>>
       /\ updateFaults'.crashes = updateFaults.crashes
    => [FolderOfTheApp!Next]_(FolderOfTheApp!installationVars)
BY DEF Content, Installing, Failures, FolderOfTheApp!Next, FolderOfTheApp!Begin,
    FolderOfTheApp!End, FolderOfTheApp!Crash, FolderOfTheApp!Refuse, FolderOfTheApp!Newer,
    FolderOfTheApp!installationVars

\* In the middle of an install the folder holds no build that is older.
LEMMA NothingOlder ==
    ASSUME UpdaterTyped, InstallSound, Installing, WholeBuild # MixedBuilds
    PROVE  WholeBuild \in Builds /\ WholeBuild >= moves.base
<1>1. WholeBuild \in Builds /\ WholeBuild = installed[Executable] /\ WholeBuild # Absent
  BY BuildsAndFiles DEF WholeBuild, Holds, MixedBuilds, Absent
<1>2. QED
  BY <1>1 DEF InstallSound, FolderSound, Installing

\* When everything was moved, the folder holds a whole build.
LEMMA EverythingArrived ==
    ASSUME UpdaterTyped, InstallSound, AllMoved, Failures <= 1
    PROVE  WholeBuild # MixedBuilds
<1>1. /\ StepsSound /\ NewBuildArrives /\ ~ moves.back /\ BetweenFiles /\ moves.todo = {}
      /\ moves.steps \in Seq(StepType)
      /\ updateFaults.moves \in Nat /\ updateFaults.removes \in Nat
  BY DEF AllMoved, Moving, InstallSound, UpdaterTyped, MovesType, FaultsType
<1>2. updateFaults.removes <= 1
  BY <1>1 DEF Failures
<1>3. PICK m \in Builds : Executable \in ReleaseFiles[m] /\ \A f \in ReleaseFiles[m] : Arrives(f, m)
  BY <1>1, <1>2 DEF NewBuildArrives
<1>4. \A i \in DOMAIN moves.steps : moves.steps[i].placed
  <2>1. moves.steps # <<>> => moves.steps[Len(moves.steps)].placed
    BY <1>1 DEF BetweenFiles, Step
  <2>2. QED
    BY <1>1, <2>1 DEF StepsSound
<1>5. \A f \in ReleaseFiles[m] : installed[f] = m
  BY <1>1, <1>3, <1>4 DEF Arrives
<1>6. WholeBuild = m
  BY <1>3, <1>5 DEF WholeBuild, Holds
<1>7. QED
  BY <1>6, BuildsAndFiles DEF MixedBuilds

\* When every move was undone, the folder holds what it held.
LEMMA EverythingRestored ==
    ASSUME UpdaterTyped, InstallSound, Installing, moves.steps = <<>>, Failures <= 1
    PROVE  WholeBuild = moves.base
<1>1. Touched = {}
  BY DEF Touched
<1>2. installed \in Folders /\ Whole(Before) = moves.base
  BY DEF UpdaterTyped, InstallSound, Installing, FolderSound
<1>3. Before = installed
  BY <1>1, <1>2, WholeOfTheFolder DEF Before
<1>4. QED
  BY <1>2, <1>3, WholeOfTheFolder

\* An install ends with the old build, a newer one, or a mixture that two
\* refusals left.
LEMMA InstallEnds ==
    ASSUME UpdaterTyped, InstallSound, AllMoved \/ RolledBack
    PROVE  \/ WholeBuild \in Builds /\ (moves.base # MixedBuilds => WholeBuild > moves.base)
           \/ WholeBuild = moves.base
           \/ WholeBuild = MixedBuilds /\ Failures > 1
<1>1. Installing /\ moves.base \in Nat /\ Builds \subseteq Nat
  <2>1. moves.base \in Builds \cup {Absent}
    BY DEF UpdaterTyped, MovesType
  <2>2. Installing
    BY DEF AllMoved, RolledBack, Moving, Installing
  <2>3. QED
    BY <2>1, <2>2, BuildsAreNumbers
<1>2. Failures \in Nat
  BY DEF Failures, UpdaterTyped, FaultsType
<1>3. CASE WholeBuild # MixedBuilds
  <2>1. WholeBuild \in Builds /\ WholeBuild >= moves.base
    BY <1>1, <1>3, NothingOlder
  <2>2. WholeBuild > moves.base \/ WholeBuild = moves.base
    BY <1>1, <2>1
  <2>3. QED
    BY <2>1, <2>2
<1>4. CASE WholeBuild = MixedBuilds /\ ~ (Failures > 1)
  <2>1. Failures <= 1
    BY <1>2, <1>4
  <2>2. CASE AllMoved
    BY <1>4, <2>1, <2>2, EverythingArrived
  <2>3. CASE RolledBack
    BY <1>1, <2>1, <2>3, EverythingRestored DEF RolledBack
  <2>4. QED
    BY <2>2, <2>3
<1>5. QED
  BY <1>3, <1>4

\* Every step of the updater is a step of Installation or leaves it as it is.
LEMMA StepImplements ==
    ASSUME UpdaterTyped, InstallSound, [UpdaterNext]_updaterVars
    PROVE  [FolderOfTheApp!Next]_(FolderOfTheApp!installationVars)
<1>1. /\ app \in AppType /\ moves \in MovesType /\ updateFaults \in FaultsType
      /\ updateFaults.moves \in Nat /\ updateFaults.removes \in Nat
      /\ updateFaults.crashes \in Nat /\ Failures \in Nat
  BY DEF UpdaterTyped, FaultsType, Failures
<1>2. /\ MoveFails => Failures' = Failures + 1 /\ updateFaults'.crashes = updateFaults.crashes
      /\ RemoveFails => Failures' = Failures + 1 /\ updateFaults'.crashes = updateFaults.crashes
      /\ UNCHANGED updateFaults =>
            Failures' = Failures /\ updateFaults'.crashes = updateFaults.crashes
  BY <1>1, RefusalCounted DEF Failures
<1>3. UNCHANGED installed => WholeBuild' = WholeBuild
  BY DEF WholeBuild, Holds
<1>4. ASSUME ~ Installing, ~ Installing', UNCHANGED installed,
             UNCHANGED updateFaults \/ MoveFails \/ RemoveFails
      PROVE  [FolderOfTheApp!Next]_(FolderOfTheApp!installationVars)
  <2>1. UNCHANGED <<Content, Installing>>
    BY <1>3, <1>4 DEF Content, Installing
  <2>2. QED
    BY <1>2, <1>4, <2>1, FolderSteps
<1>5. ASSUME NEW state, To(state)
      PROVE  app'.state = state
  BY <1>1, <1>5 DEF To, AppType
<1>6. ASSUME NEW atStart \in BOOLEAN, InstallStaged(atStart), ~ Installing, UNCHANGED installed
      PROVE  [FolderOfTheApp!Next]_(FolderOfTheApp!installationVars)
  <2>1. CASE Installing'
    <3>1. moves'.base = WholeBuild /\ UNCHANGED updateFaults
      BY <1>6, <2>1, InstallStagedDoes DEF Installing
    <3>2. Content' = Content
      BY <1>6, <2>1, <3>1 DEF Content
    <3>3. QED
      BY <1>2, <1>6, <2>1, <3>1, <3>2, FolderSteps
  <2>2. CASE ~ Installing'
    BY <1>4, <1>6, <2>2, InstallStagedDoes
  <2>3. QED
    BY <2>1, <2>2
<1>7. ASSUME Installing, Installing', moves'.base = moves.base,
             UNCHANGED updateFaults \/ MoveFails
      PROVE  [FolderOfTheApp!Next]_(FolderOfTheApp!installationVars)
  <2>1. UNCHANGED <<Content, Installing>>
    BY <1>7 DEF Content
  <2>2. QED
    BY <1>2, <1>7, <2>1, FolderSteps
<1>8. CASE Check
  <2>1. app'.state \in {"Checking", "Failed"}
    BY <1>5, <1>8 DEF Check
  <2>2. QED
    BY <1>4, <1>8, <2>1 DEF Check, Installing
<1>9. CASE ReceiveRelease
  <2>1. app'.state # "Installing"
    BY <1>1, <1>9 DEF ReceiveRelease, To, AppType
  <2>2. QED
    BY <1>4, <1>9, <2>1 DEF ReceiveRelease, Installing, diskVars
<1>10. CASE FinishDownload
  <2>1. app'.state \in {"Extracting", "Failed"}
    BY <1>5, <1>10 DEF FinishDownload
  <2>2. QED
    BY <1>4, <1>10, <2>1 DEF FinishDownload, Installing, diskVars
<1>11. CASE ExtractFile
  BY <1>4, <1>11 DEF ExtractFile, Installing
<1>12. CASE FinishExtracting
  <2>1. app'.state \in {"Ready", "Failed"}
    BY <1>5, <1>12 DEF FinishExtracting
  <2>2. QED
    BY <1>4, <1>12, <2>1 DEF FinishExtracting, Installing
<1>13. CASE RestartToInstall
  BY <1>6, <1>13 DEF RestartToInstall, Installing
<1>14. CASE StartApp
  BY <1>4, <1>14 DEF StartApp, Installing, diskVars
<1>15. CASE StartStagedUpdate
  <2>1. ~ Installing /\ UNCHANGED installed
    BY <1>15 DEF StartStagedUpdate, Installing
  <2>2. CASE To("Idle") /\ (UNCHANGED updateFaults \/ RemoveFails)
    BY <1>4, <1>5, <2>1, <2>2 DEF Installing
  <2>3. CASE InstallStaged(TRUE)
    BY <1>6, <2>1, <2>3
  <2>4. QED
    BY <1>15, <2>2, <2>3 DEF StartStagedUpdate
<1>16. CASE MoveAside
  <2>1. moves'.base = moves.base
    BY <1>1, <1>16 DEF MoveAside, MovesType
  <2>2. QED
    BY <1>7, <1>16, <2>1 DEF MoveAside, Moving, Installing
<1>17. CASE PlaceFile
  <2>1. moves.steps # <<>>
    BY <1>17 DEF PlaceFile, BetweenFiles
  <2>2. [Step EXCEPT !.placed = TRUE] \in StepType
    BY <1>1, <2>1, MovesKeepTheirType DEF StepType
  <2>3. moves' = [moves EXCEPT !.steps =
                    [moves.steps EXCEPT ![Len(moves.steps)] = [Step EXCEPT !.placed = TRUE]]]
    BY <1>1, <1>17, <2>1, <2>2, MovesKeepTheirType DEF PlaceFile
  <2>4. moves'.base = moves.base
    BY <1>1, <2>3 DEF MovesType
  <2>5. QED
    BY <1>7, <1>17, <2>4 DEF PlaceFile, Moving, Installing
<1>18. CASE MoveIsRefused
  <2>1. moves'.base = moves.base
    BY <1>1, <1>18 DEF MoveIsRefused, MovesType
  <2>2. QED
    BY <1>7, <1>18, <2>1 DEF MoveIsRefused, Moving, Installing
<1>19. CASE RollBack
  <2>1. moves.steps # <<>> /\ Installing /\ UNCHANGED app
    BY <1>19 DEF RollBack, Installing
  <2>2. [Step EXCEPT !.placed = FALSE] \in StepType
    BY <1>1, <2>1, MovesKeepTheirType DEF StepType
  <2>3. WithStep([Step EXCEPT !.placed = FALSE]) = [moves EXCEPT !.steps =
            [moves.steps EXCEPT ![Len(moves.steps)] = [Step EXCEPT !.placed = FALSE]]]
    BY <1>1, <2>1, <2>2, MovesKeepTheirType
  <2>4. WithStep([Step EXCEPT !.placed = FALSE]).base = moves.base
    BY <1>1, <2>3 DEF MovesType
  <2>5. [moves EXCEPT !.steps = SubSeq(@, 1, Len(@) - 1)].base = moves.base
    BY <1>1 DEF MovesType
  <2>6. moves'.base = moves.base /\ (UNCHANGED updateFaults \/ MoveFails)
    BY <1>19, <2>4, <2>5 DEF RollBack
  <2>7. QED
    BY <1>7, <2>1, <2>6 DEF Installing
<1>20. CASE AllMoved \/ RolledBack
  <2>1. Installing /\ ~ Installing' /\ UNCHANGED <<installed, updateFaults>>
    BY <1>1, <1>5, <1>20, GivesUpStates
       DEF AllMoved, RolledBack, Moving, Installing, diskVars, MovesType
  <2>2. Content' = WholeBuild /\ Content = moves.base
    BY <1>3, <2>1 DEF Content
  <2>3. QED
    BY <1>2, <1>20, <2>1, <2>2, InstallEnds, FolderSteps
<1>21. CASE Publish
  <2>1. UNCHANGED <<installed, app, moves, updateFaults>>
    BY <1>21 DEF Publish, diskVars
  <2>2. UNCHANGED <<Content, Installing>>
    BY <1>3, <2>1 DEF Content, Installing
  <2>3. QED
    BY <1>2, <2>1, <2>2, FolderSteps
<1>22. CASE Quit
  BY <1>4, <1>5, <1>22 DEF Quit, Installing, diskVars
<1>23. CASE CrashApp
  <2>1. ~ Installing' /\ UNCHANGED installed
    BY <1>5, <1>23 DEF CrashApp, Installing, diskVars
  <2>2. updateFaults'.crashes = updateFaults.crashes + 1 /\ Failures' = Failures
    BY <1>1, <1>23 DEF CrashApp, FaultsType, Failures
  <2>3. Content' = WholeBuild
    BY <1>3, <2>1 DEF Content
  <2>4. CASE ~ Installing
    BY <2>1, <2>2, <2>3, <2>4, FolderSteps DEF Content
  <2>5. CASE Installing
    <3>1. moves.base \in Nat /\ Builds \subseteq Nat
      <4>1. moves.base \in Builds \cup {Absent}
        BY <1>1 DEF MovesType
      <4>2. QED
        BY <4>1, BuildsAreNumbers
    <3>2. Content = moves.base
      BY <2>5 DEF Content
    <3>3. \/ WholeBuild \in Builds /\ WholeBuild > moves.base
          \/ WholeBuild = moves.base
          \/ WholeBuild = MixedBuilds
      <4>1. WholeBuild # MixedBuilds => WholeBuild \in Builds /\ WholeBuild >= moves.base
        BY <2>5, NothingOlder
      <4>2. CASE WholeBuild # MixedBuilds
        <5>1. WholeBuild \in Nat /\ moves.base \in Nat /\ WholeBuild >= moves.base
          BY <3>1, <4>1, <4>2
        <5>2. WholeBuild > moves.base \/ WholeBuild = moves.base
          BY <5>1
        <5>3. QED
          BY <4>1, <4>2, <5>2
      <4>3. QED
        BY <4>2
    <3>4. QED
      BY <2>1, <2>2, <2>3, <2>5, <3>2, <3>3, FolderSteps
  <2>6. QED
    BY <2>4, <2>5
<1>24. CASE UNCHANGED updaterVars
  <2>1. UNCHANGED <<installed, app, moves, updateFaults>>
    BY <1>24 DEF updaterVars, diskVars
  <2>2. UNCHANGED <<Content, Installing>>
    BY <1>3, <2>1 DEF Content, Installing
  <2>3. QED
    BY <1>2, <2>1, <2>2, FolderSteps
<1>25. QED
  BY <1>8, <1>9, <1>10, <1>11, <1>12, <1>13, <1>14, <1>15, <1>16, <1>17, <1>18, <1>19,
     <1>20, <1>21, <1>22, <1>23, <1>24 DEF UpdaterNext

\* The first folder is one whole build, and nothing has failed.
LEMMA InitImplements == UpdaterInit => FolderOfTheApp!Init
<1>1. SUFFICES ASSUME UpdaterInit PROVE FolderOfTheApp!Init
  OBVIOUS
<1>2. installed = Unpacked(1) /\ 1 \in Builds /\ Executable \in ReleaseFiles[1]
      /\ \A f \in ReleaseFiles[1] : f \in Files
  BY <1>1, BuildsAndFiles, UpdaterAssumption DEF UpdaterInit
<1>3. \A f \in ReleaseFiles[1] : installed[f] = 1
  BY <1>2 DEF Unpacked
<1>4. WholeBuild = 1
  BY <1>2, <1>3 DEF WholeBuild, Holds
<1>5. QED
  BY <1>1, <1>2, <1>4 DEF UpdaterInit, FolderOfTheApp!Init

\* The folder of the application goes from one whole build to a newer one, or
\* stays what it was (applyReplacements and its rollBack): only a crash in the
\* middle of an install or a second refused file operation leaves a mixture.
\* Every behaviour of the updater is one of Installation.
THEOREM InstallationThm == UpdaterSpec => ImplementsInstallation
<1>1. UpdaterInit => FolderOfTheApp!Init
  BY InitImplements
<1>2. IInv /\ [UpdaterNext]_updaterVars => [FolderOfTheApp!Next]_(FolderOfTheApp!installationVars)
  BY StepImplements DEF IInv
<1>3. QED
  BY <1>1, <1>2, UpdaterInvariance, PTL DEF UpdaterSpec, ImplementsInstallation, FolderOfTheApp!Spec


-----------------------------------------------------------------------------
\* The node's files.

\* The handlers that write, and what a file is written with.
Works == {"none", "start", "profile", "join", "merge", "other"}
Writes == [file: {"profile"}, value: ShownProfile]
          \cup [file: {"model"}, community: Groups, value: ShownProfile \cup {Former}]
          \cup [file: {"pending"}, value: SUBSET Groups]
IsModel(w, c) == w.file = "model" /\ w.community = c

StoreTyped ==
    /\ disk \in [profile: ShownProfile, shown: [Groups -> Displayed],
                 pending: SUBSET Groups, setting: OwnNames]
    /\ node \in [profile: ShownProfile, shown: [Groups -> Displayed],
                 pending: SUBSET Groups, running: BOOLEAN]
    /\ form \in [online: BOOLEAN, field: OwnNames, joining: SUBSET Groups,
                  link: Groups \cup {NoGroup}]
    /\ work \in [by: Works, writes: Seq(Writes)]
    /\ Len(work.writes) <= 2 + Cardinality(Groups)
    /\ promised \subseteq Groups /\ failed \in BOOLEAN
    /\ storeFaults \in [calls: 0 .. MaxStoreCalls, failures: 0 .. MaxFailures,
                    crashes: 0 .. MaxDeaths]

\* A write that is left: the profile comes first, nobody whose invitation waits
\* is made a former member, a join writes what the node remembers, and a list of
\* invitations drops none that is promised, unless its community is held by then.
WriteSound(w, i) ==
    /\ w.file = "profile" => i = 1
    /\ w.file = "model" /\ w.value = Former => w.community \notin promised
    /\ work.by = "join" => i = 1 /\ w = PendingWrite(node.pending)
    /\ w.file = "pending" =>
          /\ work.by \in {"join", "merge"}
          /\ \A c \in promised : \/ c \in w.value \/ MemberOf(node.shown, c)
                                 \/ \E j \in 1 .. (i - 1) : IsModel(work.writes[j], c)
WritesSound ==
    /\ work.by = "none" => work.writes = <<>>
    /\ \A i \in 1 .. Len(work.writes) : WriteSound(work.writes[i], i)

PromisesKept ==
    \A c \in promised :
        /\ node.shown[c] # Former
        /\ c \in disk.pending \/ MemberOf(node.shown, c)
        /\ c \in node.pending \/ MemberOf(node.shown, c)

\* What a community shows once the writes ws are done: profile p, or nothing.
Last(ws, i, c) == IsModel(ws[i], c) /\ \A j \in 1 .. Len(ws) : j > i => ~ IsModel(ws[j], c)
Shows(ws, shown, c, p) ==
    \/ \E i \in 1 .. Len(ws) : Last(ws, i, c) /\ ws[i].value \in {p, Former}
    \/ /\ \A i \in 1 .. Len(ws) : ~ IsModel(ws[i], c)
       /\ shown[c] \in ShownProfile => shown[c] = p

\* The profile that the handler is about to write, or the node's.
ProfileFirst(ws) == ws # <<>> /\ ws[1].file = "profile"
Aim(ws, profile) == IF ProfileFirst(ws) THEN ws[1].value ELSE profile
Follows(ws) ==
    /\ ProfileFirst(ws) \/ disk.profile = node.profile
    /\ \A c \in Groups : Shows(ws, node.shown, c, Aim(ws, node.profile))

ProfileFollows ==
    /\ disk.shown = node.shown
    /\ (form.online /\ ~ failed) \/ work.by = "start" => Follows(work.writes)
    /\ form.online /\ ~ failed => form.joining \subseteq node.pending

StoreIInv == StoreTyped /\ WritesSound /\ PromisesKept /\ ProfileFollows

-----------------------------------------------------------------------------
\* The communities in order: each once.
LEMMA InOrderEnumerates ==
  ASSUME NEW S, IsFiniteSet(S)
  PROVE  /\ Cardinality(S) \in Nat /\ InOrder(S) \in [1 .. Cardinality(S) -> S]
         /\ \A i, j \in 1 .. Cardinality(S) : i # j => InOrder(S)[i] # InOrder(S)[j]
         /\ \A x \in S : \E i \in 1 .. Cardinality(S) : InOrder(S)[i] = x
<1> DEFINE n == Cardinality(S)
<1>1. n \in Nat /\ ExistsBijection(1 .. n, S)
  BY FS_CardinalityType
<1>2. PICK f \in Bijection(1 .. n, S) : TRUE
  BY <1>1 DEF ExistsBijection
<1>3. f \in [1 .. n -> S] /\ \A i, j \in DOMAIN f : i # j => f[i] # f[j]
  BY <1>2 DEF Bijection, Injection, IsInjective
<1>4. /\ InOrder(S) \in [1 .. n -> S]
      /\ \A i, j \in DOMAIN InOrder(S) : i # j => InOrder(S)[i] # InOrder(S)[j]
  BY <1>3 DEF InOrder
<1>5. InOrder(S) \in Injection(1 .. n, S)
  BY <1>4 DEF Injection, IsInjective
<1>6. 1 \in Int /\ n \in Int
  BY <1>1
<1> HIDE DEF n
<1>7. IsFiniteSet(1 .. n) /\ Cardinality(1 .. n) = IF 1 > n THEN 0 ELSE n - 1 + 1
  BY <1>6, FS_Interval
<1>8. Cardinality(1 .. n) = n
  BY <1>1, <1>7
<1>9. InOrder(S) \in Surjection(1 .. n, S)
  BY <1>5, <1>8, FS_Injection DEF n
<1> QED
  BY <1>1, <1>4, <1>9 DEF n, Surjection

\* publishProfile of all communities: what does not show p is written, once.
LEMMA EverywhereWritten ==
  ASSUME StoreTyped, NEW p \in ShownProfile
  PROVE  LET ws == PublishEverywhere(Groups, p)
         IN  /\ ws \in Seq(Writes) /\ Len(ws) <= Cardinality(Groups)
             /\ \A i \in 1 .. Len(ws) : \E c \in Groups : ws[i] = ModelWrite(c, p)
             /\ \A c \in Groups :
                    \/ \E i \in 1 .. Len(ws) : Last(ws, i, c) /\ ws[i].value = p
                    \/ /\ \A i \in 1 .. Len(ws) : ~ IsModel(ws[i], c)
                       /\ node.shown[c] \in ShownProfile => node.shown[c] = p
<1> DEFINE S == {c \in Groups : PublishProfile(c, node.shown[c], p) # <<>>}
           s == InOrder(S)
           n == Cardinality(S)
           ws == [i \in 1 .. n |-> ModelWrite(s[i], p)]
<1>1. IsFiniteSet(Groups)
  BY StoreAssumption
<1>2. IsFiniteSet(S) /\ n <= Cardinality(Groups)
  BY <1>1, FS_Subset
<1>3. \A c \in Groups : c \in S <=> node.shown[c] \in ShownProfile /\ node.shown[c] # p
  BY DEF PublishProfile
<1>3a. \A c \in S : c \in Groups
  OBVIOUS
<1> HIDE DEF S
<1>4. /\ n \in Nat /\ s \in [1 .. n -> S]
      /\ \A i, j \in 1 .. n : i # j => s[i] # s[j]
      /\ \A x \in S : \E i \in 1 .. n : s[i] = x
  BY <1>2, InOrderEnumerates
<1> HIDE DEF s, n
<1>5. PublishEverywhere(Groups, p) = ws
  BY <1>4 DEF PublishEverywhere, s, S
<1>6. \A i \in 1 .. n : s[i] \in Groups /\ ws[i] = ModelWrite(s[i], p) /\ ws[i] \in Writes
  <2> SUFFICES ASSUME NEW i \in 1 .. n
        PROVE  s[i] \in Groups /\ ws[i] = ModelWrite(s[i], p) /\ ws[i] \in Writes
    OBVIOUS
  <2>1. s[i] \in Groups /\ ws[i] = ModelWrite(s[i], p)
    BY <1>3a, <1>4
  <2> QED
    BY <2>1 DEF ModelWrite, Writes
<1>7. ws \in [1 .. n -> Writes]
  BY <1>6
<1> HIDE DEF ws
<1>8. ws \in Seq(Writes) /\ Len(ws) = n
  BY <1>4, <1>7
<1>9. \A c \in Groups :
                    \/ \E i \in 1 .. Len(ws) : Last(ws, i, c) /\ ws[i].value = p
                    \/ /\ \A i \in 1 .. Len(ws) : ~ IsModel(ws[i], c)
                       /\ node.shown[c] \in ShownProfile => node.shown[c] = p
  <2> SUFFICES ASSUME NEW c \in Groups
        PROVE   \/ \E i \in 1 .. n : Last(ws, i, c) /\ ws[i].value = p
                \/ /\ \A i \in 1 .. n : ~ IsModel(ws[i], c)
                   /\ node.shown[c] \in ShownProfile => node.shown[c] = p
    BY <1>8
  <2>1. \A i \in 1 .. n : ws[i].value = p /\ (IsModel(ws[i], c) <=> s[i] = c)
    <3> SUFFICES ASSUME NEW i \in 1 .. n
          PROVE  ws[i].value = p /\ (IsModel(ws[i], c) <=> s[i] = c)
      OBVIOUS
    <3>1. ws[i] = ModelWrite(s[i], p)
      BY <1>6
    <3> QED
      BY <3>1 DEF ModelWrite, IsModel
  <2>2. CASE c \in S
    <3>1. PICK i \in 1 .. n : s[i] = c
      BY <1>4, <2>2
    <3>2. Last(ws, i, c)
      BY <1>4, <1>8, <2>1, <3>1 DEF Last
    <3> QED
      BY <2>1, <3>2
  <2>3. CASE c \notin S
    BY <1>3, <1>4, <2>1, <2>3
  <2> QED
    BY <2>2, <2>3
<1>10. \A i \in 1 .. Len(ws) : \E c \in Groups : ws[i] = ModelWrite(c, p)
  BY <1>6, <1>8
<1> QED
  BY <1>2, <1>5, <1>8, <1>9, <1>10 DEF n

\* What Start and SetProfile have to write: the profile and every community that
\* does not show it.
LEMMA ProfileThenAll ==
  ASSUME StoreTyped, NEW p \in ShownProfile
  PROVE  LET ws == <<ProfileWrite(p)>> \o PublishEverywhere(Groups, p)
         IN  /\ ws \in Seq(Writes) /\ Len(ws) <= 2 + Cardinality(Groups)
             /\ ws # <<>> /\ ws[1] = ProfileWrite(p)
             /\ \A i \in 1 .. Len(ws) : i = 1 \/ \E c \in Groups : ws[i] = ModelWrite(c, p)
             /\ \A c \in Groups : Shows(ws, node.shown, c, p)
<1> DEFINE all == PublishEverywhere(Groups, p)
           ws == <<ProfileWrite(p)>> \o all
<1>1. /\ all \in Seq(Writes) /\ Len(all) <= Cardinality(Groups)
      /\ \A i \in 1 .. Len(all) : \E c \in Groups : all[i] = ModelWrite(c, p)
      /\ \A c \in Groups :
                    \/ \E i \in 1 .. Len(all) : Last(all, i, c) /\ all[i].value = p
                    \/ /\ \A i \in 1 .. Len(all) : ~ IsModel(all[i], c)
                       /\ node.shown[c] \in ShownProfile => node.shown[c] = p
  BY EverywhereWritten
<1> HIDE DEF all
<1>2. <<ProfileWrite(p)>> \in Seq(Writes) /\ Len(<<ProfileWrite(p)>>) = 1
  BY DEF ProfileWrite, Writes
<1>3. Cardinality(Groups) \in Nat /\ Len(all) \in Nat
  BY <1>1, StoreAssumption, FS_CardinalityType, LenProperties
<1>4. /\ ws \in Seq(Writes) /\ Len(ws) = 1 + Len(all)
      /\ \A i \in 1 .. Len(ws) : ws[i] = IF i <= 1 THEN <<ProfileWrite(p)>>[i] ELSE all[i - 1]
  BY <1>1, <1>2, <1>3, ConcatProperties
<1> HIDE DEF ws
<1>5. ws[1] = ProfileWrite(p) /\ ws # <<>>
  BY <1>3, <1>4
<1>6. \A i \in 1 .. Len(all) : i + 1 \in 1 .. Len(ws) /\ ws[i + 1] = all[i]
  BY <1>3, <1>4
<1>7. \A i \in 1 .. Len(ws) : i # 1 => i - 1 \in 1 .. Len(all) /\ ws[i] = all[i - 1]
  BY <1>3, <1>4
<1>8. \A c : ~ IsModel(ws[1], c)
  BY <1>5 DEF ProfileWrite, IsModel
<1>9. \A c \in Groups : Shows(ws, node.shown, c, p)
  <2> SUFFICES ASSUME NEW c \in Groups PROVE Shows(ws, node.shown, c, p)
    OBVIOUS
  <2>1. CASE \E i \in 1 .. Len(all) : Last(all, i, c) /\ all[i].value = p
    <3>1. PICK i \in 1 .. Len(all) : Last(all, i, c) /\ all[i].value = p
      BY <2>1
    <3>2. \A j \in 1 .. Len(ws) : j > i + 1 => ~ IsModel(ws[j], c)
      <4> SUFFICES ASSUME NEW j \in 1 .. Len(ws), j > i + 1 PROVE ~ IsModel(ws[j], c)
        OBVIOUS
      <4>1. j - 1 \in 1 .. Len(all) /\ j - 1 > i /\ ws[j] = all[j - 1]
        BY <1>7
      <4> QED
        BY <3>1, <4>1 DEF Last
    <3>3. i + 1 \in 1 .. Len(ws) /\ ws[i + 1] = all[i]
      BY <1>6
    <3>4. Last(ws, i + 1, c) /\ ws[i + 1].value \in {p, Former}
      BY <3>1, <3>2, <3>3 DEF Last
    <3> QED
      BY <3>3, <3>4 DEF Shows
  <2>2. CASE /\ \A i \in 1 .. Len(all) : ~ IsModel(all[i], c)
             /\ node.shown[c] \in ShownProfile => node.shown[c] = p
    <3>1. \A i \in 1 .. Len(ws) : ~ IsModel(ws[i], c)
      BY <1>7, <1>8, <2>2
    <3> QED
      BY <2>2, <3>1 DEF Shows
  <2> QED
    BY <1>1, <2>1, <2>2
<1>10. \A i \in 1 .. Len(ws) : i = 1 \/ \E c \in Groups : ws[i] = ModelWrite(c, p)
  BY <1>1, <1>7
<1>11. Len(ws) <= 2 + Cardinality(Groups)
  BY <1>1, <1>3, <1>4
<1> QED
  BY <1>4, <1>5, <1>9, <1>10, <1>11 DEF ws, all

\* A profile, a departure and a community nobody holds are told apart.
LEMMA Kinds ==
  /\ Former \notin ShownProfile /\ NotHeld \notin ShownProfile /\ Former # NotHeld
  /\ \A p : ProfileWrite(p).file = "profile" /\ ProfileWrite(p).value = p
  /\ \A v : PendingWrite(v).file = "pending" /\ PendingWrite(v).value = v
  /\ \A c, p : ModelWrite(c, p).file = "model" /\ ModelWrite(c, p).community = c
                /\ ModelWrite(c, p).value = p
  /\ \A p \in ShownProfile : ProfileWrite(p) \in Writes
  /\ \A v \in SUBSET Groups : PendingWrite(v) \in Writes
  /\ \A c \in Groups : ModelWrite(c, Former) \in Writes
                        /\ \A p \in ShownProfile : ModelWrite(c, p) \in Writes
<1>1. \A p \in ShownProfile : DOMAIN p = {"name", "bio"}
  BY DEF ShownProfile
<1>2. DOMAIN Former = {"name"} /\ DOMAIN NotHeld = {"name"}
  BY DEF Former, NotHeld
<1>3. {"name"} # {"name", "bio"}
  OBVIOUS
<1>4. Former \notin ShownProfile /\ NotHeld \notin ShownProfile
  BY <1>1, <1>2, <1>3
<1>5. Former # NotHeld
  BY DEF Former, NotHeld
<1>6. /\ \A p : ProfileWrite(p).file = "profile" /\ ProfileWrite(p).value = p
      /\ \A v : PendingWrite(v).file = "pending" /\ PendingWrite(v).value = v
      /\ \A c, p : ModelWrite(c, p).file = "model" /\ ModelWrite(c, p).community = c
                /\ ModelWrite(c, p).value = p
  BY DEF ProfileWrite, PendingWrite, ModelWrite
<1>7. /\ \A p \in ShownProfile : ProfileWrite(p) \in Writes
      /\ \A v \in SUBSET Groups : PendingWrite(v) \in Writes
  BY DEF ProfileWrite, PendingWrite, Writes
<1>8. \A c \in Groups : ModelWrite(c, Former) \in Writes
                        /\ \A p \in ShownProfile : ModelWrite(c, p) \in Writes
  BY DEF ModelWrite, Writes
<1> QED
  BY <1>4, <1>5, <1>6, <1>7, <1>8

\* At rest, whoever is online shows its profile wherever it is a member.
LEMMA RestingShows ==
  ASSUME StoreIInv, AtRest
  PROVE  /\ work = NoWork /\ work.writes = <<>> /\ work.by = "none"
         /\ form.online /\ ~ failed =>
               /\ disk.profile = node.profile
               /\ \A c \in Groups : node.shown[c] \in ShownProfile => node.shown[c] = node.profile
<1>1. work = NoWork /\ work.writes = <<>> /\ work.by = "none"
  BY DEF AtRest, NoWork
<1>2. ASSUME form.online, ~ failed
      PROVE  /\ disk.profile = node.profile
             /\ \A c \in Groups : node.shown[c] \in ShownProfile => node.shown[c] = node.profile
  <2>1. Follows(<<>>)
    BY <1>1, <1>2 DEF StoreIInv, ProfileFollows
  <2>2. ~ ProfileFirst(<<>>) /\ Aim(<<>>, node.profile) = node.profile
    BY DEF ProfileFirst, Aim
  <2>3. \A i : ~ (i \in 1 .. Len(<<>>))
    OBVIOUS
  <2> QED
    BY <2>1, <2>2, <2>3 DEF Follows, Shows
<1> QED
  BY <1>1, <1>2

\* What the node and the panel hold.
Nodes == [profile: ShownProfile, shown: [Groups -> Displayed],
          pending: SUBSET Groups, running: BOOLEAN]
Forms == [online: BOOLEAN, field: OwnNames, joining: SUBSET Groups, link: Groups \cup {NoGroup}]

\* A handler that begins changes no file; what it has to write is in order, and
\* the node forgets no invitation and no community.
LEMMA Beginning ==
  ASSUME StoreIInv, Begins, NEW b \in Works, NEW ws \in Seq(Writes),
         Len(ws) <= 2 + Cardinality(Groups), b = "none" => ws = <<>>,
         work' = [by |-> b, writes |-> ws],
         node' \in Nodes, form' \in Forms, node'.shown = node.shown,
         node.pending \subseteq node'.pending, promised' \subseteq promised,
         UNCHANGED <<disk, failed>>,
         \A i \in 1 .. Len(ws) : WriteSound(ws[i], i)',
         (form'.online /\ ~ failed) \/ b = "start" => Follows(ws)',
         form'.online /\ ~ failed => form'.joining \subseteq node'.pending
  PROVE  StoreIInv'
<1>1. work'.by = b /\ work'.writes = ws
  OBVIOUS
<1>2. storeFaults' \in [calls: 0 .. MaxStoreCalls, failures: 0 .. MaxFailures, crashes: 0 .. MaxDeaths]
  <2>1. /\ storeFaults \in [calls: 0 .. MaxStoreCalls, failures: 0 .. MaxFailures,
                            crashes: 0 .. MaxDeaths]
        /\ storeFaults.calls < MaxStoreCalls
        /\ storeFaults' = [storeFaults EXCEPT !.calls = storeFaults.calls + 1]
    BY DEF StoreIInv, StoreTyped, Begins
  <2>2. storeFaults.calls + 1 \in 0 .. MaxStoreCalls
    BY <2>1, StoreAssumption
  <2> QED
    BY <2>1, <2>2
<1>3. StoreTyped'
  <2>1. work' \in [by: Works, writes: Seq(Writes)] /\ Len(work'.writes) <= 2 + Cardinality(Groups)
    OBVIOUS
  <2> QED
    BY <1>2, <2>1 DEF StoreIInv, StoreTyped, Nodes, Forms
<1>4. WritesSound'
  BY <1>1 DEF WritesSound
<1>5. PromisesKept'
  BY DEF StoreIInv, PromisesKept, MemberOf
<1>6. ProfileFollows'
  BY <1>1 DEF StoreIInv, ProfileFollows
<1> QED
  BY <1>3, <1>4, <1>5, <1>6 DEF StoreIInv

\* Start and SetProfile write the profile and publish it.
LEMMA ProfileBegins ==
  ASSUME StoreIInv, Begins, NEW p \in ShownProfile, NEW b \in {"start", "profile"},
         work' = [by |-> b, writes |-> <<ProfileWrite(p)>> \o PublishEverywhere(Groups, p)],
         node' \in Nodes, form' \in Forms,
         node'.shown = node.shown, node'.pending = node.pending,
         form'.online = form.online, form'.joining = form.joining,
         UNCHANGED <<disk, promised, failed>>
  PROVE  StoreIInv'
<1>1. PICK ws \in Seq(Writes) :
         /\ ws = <<ProfileWrite(p)>> \o PublishEverywhere(Groups, p)
         /\ Len(ws) <= 2 + Cardinality(Groups)
         /\ ws # <<>> /\ ws[1] = ProfileWrite(p)
         /\ \A i \in 1 .. Len(ws) : i = 1 \/ \E c \in Groups : ws[i] = ModelWrite(c, p)
         /\ \A c \in Groups : Shows(ws, node.shown, c, p)
  BY ProfileThenAll DEF StoreIInv
<1>2. \A i \in 1 .. Len(ws) : WriteSound(ws[i], i)'
  <2> SUFFICES ASSUME NEW i \in 1 .. Len(ws) PROVE WriteSound(ws[i], i)'
    OBVIOUS
  <2>0. work'.by = b
    OBVIOUS
  <2>1. CASE i = 1
    BY <1>1, <2>0, <2>1, Kinds DEF WriteSound
  <2>2. CASE \E c \in Groups : ws[i] = ModelWrite(c, p)
    BY <2>0, <2>2, Kinds DEF WriteSound
  <2> QED
    BY <1>1, <2>1, <2>2
<1>3. Follows(ws)'
  <2>1. ProfileFirst(ws) /\ \A q : Aim(ws, q) = p
    BY <1>1, Kinds DEF ProfileFirst, Aim
  <2>2. \A c \in Groups : Shows(ws, node'.shown, c, Aim(ws, node'.profile))
    BY <1>1, <2>1
  <2> QED
    BY <2>1, <2>2 DEF Follows
<1>4. work' = [by |-> b, writes |-> ws] /\ b \in Works /\ b # "none"
  BY <1>1 DEF Works
<1>5. form'.online /\ ~ failed => form'.joining \subseteq node'.pending
  BY DEF StoreIInv, ProfileFollows
<1> QED
  BY <1>1, <1>2, <1>3, <1>4, <1>5, Beginning

\* Start takes the name of the panel's field.
LEMMA StartKeeps ==
  ASSUME StoreIInv, NEW n \in OwnNames, Start(n)
  PROVE  StoreIInv'
<1> DEFINE p == [node.profile EXCEPT !.name = n]
<1>1. node \in Nodes /\ form \in Forms
  BY DEF StoreIInv, StoreTyped, Nodes, Forms
<1>2. p \in ShownProfile
  BY <1>1 DEF Nodes, ShownProfile
<1> HIDE DEF p
<1>3. /\ node' = [node EXCEPT !.running = TRUE, !.profile = p]
      /\ form' = [form EXCEPT !.field = n]
      /\ work' = [by |-> "start", writes |-> <<ProfileWrite(p)>> \o PublishEverywhere(Groups, p)]
      /\ Begins /\ UNCHANGED <<disk, promised, failed>>
  BY DEF Start, p
<1>4. /\ node' \in Nodes /\ form' \in Forms
      /\ node'.shown = node.shown /\ node'.pending = node.pending
      /\ form'.online = form.online /\ form'.joining = form.joining
  BY <1>1, <1>2, <1>3 DEF Nodes, Forms
<1> QED
  BY <1>2, <1>3, <1>4, ProfileBegins

\* SetProfile changes nothing in memory before it has written.
LEMMA SetProfileKeeps ==
  ASSUME StoreIInv, NEW p \in ShownProfile, SetProfile(p)
  PROVE  StoreIInv'
<1>1. node \in Nodes /\ form \in Forms
  BY DEF StoreIInv, StoreTyped, Nodes, Forms
<1>2. /\ work' = [by |-> "profile", writes |-> <<ProfileWrite(p)>> \o PublishEverywhere(Groups, p)]
      /\ Begins /\ node' = node /\ form' = form /\ UNCHANGED <<disk, promised, failed>>
  BY DEF SetProfile
<1> QED
  BY <1>1, <1>2, ProfileBegins

\* A handler with nothing to write: Stop, a join that is refused.
LEMMA NothingToWrite ==
  ASSUME StoreIInv, Begins, work' = NoWork, node' \in Nodes, form' \in Forms,
         node'.shown = node.shown, node'.profile = node.profile, node'.pending = node.pending,
         form'.online => form.online, form'.joining \subseteq form.joining,
         UNCHANGED <<disk, promised, failed>>
  PROVE  StoreIInv'
<1>1. <<>> \in Seq(Writes) /\ Len(<<>>) = 0 /\ "none" \in Works
  BY EmptySeq DEF Works
<1>2. Cardinality(Groups) \in Nat
  BY StoreAssumption, FS_CardinalityType
<1>3. work' = [by |-> "none", writes |-> <<>>]
  BY DEF NoWork
<1>4. \A i \in 1 .. Len(<<>>) : WriteSound(<<>>[i], i)'
  BY <1>1
<1>5. ASSUME form'.online, ~ failed PROVE Follows(<<>>)'
  <2>1. work.writes = <<>> /\ Follows(<<>>)
    BY <1>5, RestingShows DEF Begins, StoreIInv, ProfileFollows
  <2> QED
    BY <2>1 DEF Follows
<1>6. form'.online /\ ~ failed => form'.joining \subseteq node'.pending
  BY DEF StoreIInv, ProfileFollows
<1>7. Len(<<>>) <= 2 + Cardinality(Groups)
  BY <1>1, <1>2
<1> QED
  BY <1>1, <1>3, <1>4, <1>5, <1>6, <1>7, Beginning

\* disconnect.
LEMMA StopKeeps == ASSUME StoreIInv, Stop PROVE StoreIInv'
<1>1. node \in Nodes /\ form \in Forms
  BY DEF StoreIInv, StoreTyped, Nodes, Forms
<1>2. /\ node' = [node EXCEPT !.running = FALSE]
      /\ form' = [form EXCEPT !.online = FALSE, !.joining = {}]
      /\ Begins /\ work = NoWork /\ UNCHANGED <<disk, work, promised, failed>>
  BY DEF Stop, Begins, AtRest
<1>3. /\ node' \in Nodes /\ form' \in Forms
      /\ node'.shown = node.shown /\ node'.pending = node.pending
      /\ node'.profile = node.profile /\ ~ form'.online /\ form'.joining = {}
  BY <1>1, <1>2 DEF Nodes, Forms
<1> QED
  BY <1>2, <1>3, NothingToWrite

\* What publishProfile adds for one community.
LEMMA PublishedOnce ==
  ASSUME NEW c \in Groups, NEW shown, NEW p \in ShownProfile
  PROVE  \/ /\ PublishProfile(c, shown, p) = <<>>
            /\ shown \in ShownProfile => shown = p
         \/ PublishProfile(c, shown, p) = <<ModelWrite(c, p)>>
BY DEF PublishProfile

\* A handler of the node that has files to write, of communities and invitations.
LEMMA FilesToWrite ==
  ASSUME StoreIInv, Begins, NEW b \in {"merge", "other"}, NEW ws \in Seq(Writes),
         Len(ws) <= 2 + Cardinality(Groups), work' = [by |-> b, writes |-> ws],
         promised' \subseteq promised, UNCHANGED <<disk, node, form, failed>>,
         \A i \in 1 .. Len(ws) : ws[i].file # "profile" /\ WriteSound(ws[i], i)',
         \A c \in Groups : \/ \E i \in 1 .. Len(ws) : /\ Last(ws, i, c)
                                                    /\ ws[i].value \in {node.profile, Former}
                           \/ \A i \in 1 .. Len(ws) : ~ IsModel(ws[i], c)
  PROVE  StoreIInv'
<1>1. node \in Nodes /\ form \in Forms
  BY DEF StoreIInv, StoreTyped, Nodes, Forms
<1>2. ASSUME form.online, ~ failed PROVE Follows(ws)'
  <2>1. /\ disk.profile = node.profile
        /\ \A c \in Groups : node.shown[c] \in ShownProfile => node.shown[c] = node.profile
    BY <1>2, RestingShows DEF Begins
  <2>2. ~ ProfileFirst(ws) /\ Aim(ws, node.profile) = node.profile
    <3>1. ws # <<>> => 1 \in 1 .. Len(ws)
      BY EmptySeq
    <3> QED
      BY <3>1 DEF ProfileFirst, Aim
  <2>3. \A c \in Groups : Shows(ws, node.shown, c, node.profile)
    BY <2>1 DEF Shows
  <2> QED
    BY <2>1, <2>2, <2>3 DEF Follows
<1>3. form'.online /\ ~ failed => form'.joining \subseteq node'.pending
  BY DEF StoreIInv, ProfileFollows
<1>4. b \in Works /\ b # "start" /\ b # "none"
  BY DEF Works
<1> QED
  BY <1>1, <1>2, <1>3, <1>4, Beginning

\* Two writes, or three, of which the second may be of the invitations.
LEMMA GroupIsThere ==
  ASSUME NEW c \in Groups
  PROVE  Cardinality(Groups) \in Nat /\ Cardinality(Groups) >= 1
<1>1. IsFiniteSet(Groups)
  BY StoreAssumption
<1>2. Cardinality(Groups) \in Nat /\ Cardinality(Groups) # 0
  BY <1>1, FS_CardinalityType, FS_EmptySet
<1> QED
  BY <1>2

\* There is room for three writes.
LEMMA RoomForThree ==
  ASSUME NEW c \in Groups, NEW n \in Nat, n <= 3
  PROVE  n <= 2 + Cardinality(Groups)
BY GroupIsThere

\* edit, with a departure.
LEMMA LeaveGroupKeeps == ASSUME StoreIInv, NEW c \in Groups, LeaveGroup(c) PROVE StoreIInv'
<1>1. PICK ws : ws = <<ModelWrite(c, Former)>>
  OBVIOUS
<1>2. ws \in Seq(Writes) /\ Len(ws) = 1 /\ ws[1] = ModelWrite(c, Former)
  BY <1>1, Kinds
<1>3. /\ Begins /\ work' = [by |-> "other", writes |-> ws] /\ promised' = promised \ {c}
      /\ UNCHANGED <<disk, node, form, failed>>
  BY <1>1 DEF LeaveGroup
<1>4. work'.by = "other"
  BY <1>3
<1>5. \A i \in 1 .. Len(ws) : ws[i].file # "profile" /\ WriteSound(ws[i], i)'
  BY <1>2, <1>3, <1>4, Kinds DEF WriteSound
<1>6. \A x \in Groups : \/ \E i \in 1 .. Len(ws) : /\ Last(ws, i, x)
                                                    /\ ws[i].value \in {node.profile, Former}
                        \/ \A i \in 1 .. Len(ws) : ~ IsModel(ws[i], x)
  <2>1. 1 \in 1 .. Len(ws) /\ Last(ws, 1, c) /\ ws[1].value = Former
    BY <1>2, Kinds DEF Last, IsModel
  <2>2. \A x \in Groups : x # c => \A i \in 1 .. Len(ws) : ~ IsModel(ws[i], x)
    BY <1>2, Kinds DEF IsModel
  <2> QED
    BY <2>1, <2>2
<1>7. Len(ws) <= 2 + Cardinality(Groups)
  BY <1>2, GroupIsThere
<1> QED
  BY <1>2, <1>3, <1>5, <1>6, <1>7, FilesToWrite

\* The host's "rejected".
LEMMA RejectedKeeps == ASSUME StoreIInv, NEW c \in Groups, Rejected(c) PROVE StoreIInv'
<1>1. PICK v : v = node.pending \ {c}
  OBVIOUS
<1>1a. PICK ws : ws = <<PendingWrite(v)>>
  OBVIOUS
<1>2. v \in SUBSET Groups
  BY <1>1 DEF StoreIInv, StoreTyped
<1>2a. ws \in Seq(Writes) /\ Len(ws) = 1 /\ ws[1] = PendingWrite(v)
  BY <1>1a, <1>2, Kinds
<1>3. /\ Begins /\ work' = [by |-> "merge", writes |-> ws] /\ promised' = promised \ {c}
      /\ UNCHANGED <<disk, node, form, failed>>
  BY <1>1, <1>1a DEF Rejected
<1>4. work'.by = "merge"
  BY <1>3
<1>5. \A x \in promised' : x \in v \/ MemberOf(node'.shown, x)
  BY <1>1, <1>3 DEF StoreIInv, PromisesKept
<1>6. \A i \in 1 .. Len(ws) : ws[i].file # "profile" /\ WriteSound(ws[i], i)'
  BY <1>2a, <1>4, <1>5, Kinds DEF WriteSound
<1>7. \A x \in Groups : \A i \in 1 .. Len(ws) : ~ IsModel(ws[i], x)
  BY <1>2a, Kinds DEF IsModel
<1>8. Len(ws) <= 2 + Cardinality(Groups)
  BY <1>2a, GroupIsThere
<1> QED
  BY <1>2a, <1>3, <1>6, <1>7, <1>8, FilesToWrite

\* A merge that shows an old profile.
LEMMA MergedKeeps == ASSUME StoreIInv, NEW c \in Groups, Merged(c) PROVE StoreIInv'
<1>0. node.profile \in ShownProfile
  BY DEF StoreIInv, StoreTyped
<1>1. PICK ws : ws = <<ModelWrite(c, node.profile)>>
  OBVIOUS
<1>2. ws \in Seq(Writes) /\ Len(ws) = 1 /\ ws[1] = ModelWrite(c, node.profile)
  BY <1>0, <1>1, Kinds
<1>3. /\ Begins /\ work' = [by |-> "merge", writes |-> ws]
      /\ UNCHANGED <<disk, node, form, promised, failed>>
  BY <1>0, <1>1, PublishedOnce DEF Merged
<1>4. work'.by = "merge"
  BY <1>3
<1>5. \A i \in 1 .. Len(ws) : ws[i].file # "profile" /\ WriteSound(ws[i], i)'
  BY <1>0, <1>2, <1>3, <1>4, Kinds DEF WriteSound
<1>6. \A x \in Groups : \/ \E i \in 1 .. Len(ws) : /\ Last(ws, i, x)
                                                    /\ ws[i].value \in {node.profile, Former}
                        \/ \A i \in 1 .. Len(ws) : ~ IsModel(ws[i], x)
  <2>1. 1 \in 1 .. Len(ws) /\ Last(ws, 1, c) /\ ws[1].value = node.profile
    BY <1>2, Kinds DEF Last, IsModel
  <2>2. \A x \in Groups : x # c => \A i \in 1 .. Len(ws) : ~ IsModel(ws[i], x)
    BY <1>2, Kinds DEF IsModel
  <2> QED
    BY <2>1, <2>2
<1>7. Len(ws) <= 2 + Cardinality(Groups)
  BY <1>2, GroupIsThere
<1> QED
  BY <1>2, <1>3, <1>5, <1>6, <1>7, FilesToWrite

\* Sequences that are written down are joined.
LEMMA Concats ==
  ASSUME NEW a, NEW b, NEW d
  PROVE  <<a>> \o <<b>> = <<a, b>> /\ <<a, b>> \o <<d>> = <<a, b, d>>
<1> DEFINE S == {a, b, d}
<1>1. <<a>> \in Seq(S) /\ <<b>> \in Seq(S) /\ <<d>> \in Seq(S) /\ <<a, b>> \in Seq(S)
      /\ <<a, b, d>> \in Seq(S)
  OBVIOUS
<1>2. <<a>> \o <<b>> = <<a, b>>
  <2>1. /\ <<a>> \o <<b>> \in Seq(S) /\ Len(<<a>> \o <<b>>) = 2
        /\ \A i \in 1 .. 2 : (<<a>> \o <<b>>)[i] = <<a, b>>[i]
    BY <1>1, ConcatProperties
  <2> QED
    BY <1>1, <2>1, SeqEqual
<1>3. <<a, b>> \o <<d>> = <<a, b, d>>
  <2>1. /\ <<a, b>> \o <<d>> \in Seq(S) /\ Len(<<a, b>> \o <<d>>) = 3
        /\ \A i \in 1 .. 3 : (<<a, b>> \o <<d>>)[i] = <<a, b, d>>[i]
    BY <1>1, ConcatProperties
  <2> QED
    BY <1>1, <2>1, SeqEqual
<1> QED
  BY <1>2, <1>3

\* createCommunity shows the name first, then the whole profile.
LEMMA CreateCommunityKeeps ==
  ASSUME StoreIInv, NEW c \in Groups, CreateCommunity(c) PROVE StoreIInv'
<1> DEFINE made == [name |-> node.profile.name, bio |-> NoBio]
           more == PublishProfile(c, made, node.profile)
<1>0. node.profile \in ShownProfile /\ made \in ShownProfile
  <2>1. node.profile \in ShownProfile
    BY DEF StoreIInv, StoreTyped
  <2> QED
    BY <2>1, StoreAssumption DEF ShownProfile
<1>a. \/ more = <<>> /\ made = node.profile
      \/ more = <<ModelWrite(c, node.profile)>>
  BY <1>0, PublishedOnce
<1>b. /\ Begins /\ work' = [by |-> "other", writes |-> <<ModelWrite(c, made)>> \o more]
      /\ UNCHANGED <<disk, node, form, promised, failed>>
  BY DEF CreateCommunity
<1> HIDE DEF made, more
<1>1. PICK ws \in {<<ModelWrite(c, node.profile)>>, <<ModelWrite(c, made), ModelWrite(c, node.profile)>>} :
        work' = [by |-> "other", writes |-> ws]
  <2>1. CASE more = <<>> /\ made = node.profile
    BY <1>b, <2>1
  <2>2. CASE more = <<ModelWrite(c, node.profile)>>
    <3>1. <<ModelWrite(c, made)>> \o <<ModelWrite(c, node.profile)>>
             = <<ModelWrite(c, made), ModelWrite(c, node.profile)>>
      BY Concats
    <3> QED
      BY <1>b, <2>2, <3>1
  <2> QED
    BY <1>a, <2>1, <2>2
<1>2. /\ ws \in Seq(Writes) /\ Len(ws) \in 1 .. 2 /\ ws[Len(ws)] = ModelWrite(c, node.profile)
      /\ \A i \in 1 .. Len(ws) : ws[i] \in {ModelWrite(c, made), ModelWrite(c, node.profile)}
  <2>0. ModelWrite(c, made) \in Writes /\ ModelWrite(c, node.profile) \in Writes
    BY <1>0, Kinds
  <2>1. CASE ws = <<ModelWrite(c, node.profile)>>
    BY <2>0, <2>1
  <2>2. CASE ws = <<ModelWrite(c, made), ModelWrite(c, node.profile)>>
    BY <2>0, <2>2
  <2> QED
    BY <1>1, <2>1, <2>2
<1>4. work'.by = "other"
  BY <1>1
<1>5. \A i \in 1 .. Len(ws) : ws[i].file # "profile" /\ WriteSound(ws[i], i)'
  BY <1>0, <1>2, <1>4, Kinds DEF WriteSound
<1>6. \A x \in Groups : \/ \E i \in 1 .. Len(ws) : /\ Last(ws, i, x)
                                                    /\ ws[i].value \in {node.profile, Former}
                        \/ \A i \in 1 .. Len(ws) : ~ IsModel(ws[i], x)
  <2>1. Len(ws) \in 1 .. Len(ws) /\ Last(ws, Len(ws), c) /\ ws[Len(ws)].value = node.profile
    BY <1>2, Kinds DEF Last, IsModel
  <2>2. \A x \in Groups : x # c => \A i \in 1 .. Len(ws) : ~ IsModel(ws[i], x)
    BY <1>2, Kinds DEF IsModel
  <2> QED
    BY <2>1, <2>2
<1>7. Len(ws) <= 2 + Cardinality(Groups)
  BY <1>2, GroupIsThere
<1> QED
  BY <1>1, <1>2, <1>5, <1>6, <1>7, <1>b, FilesToWrite

\* A snapshot that admits this node: the community, the invitation, the profile.
LEMMA SnapshotAdmitsKeeps ==
  ASSUME StoreIInv, NEW c \in Groups, NEW n \in OwnNames, SnapshotAdmits(c, n) PROVE StoreIInv'
<1> DEFINE made == [name |-> n, bio |-> NoBio]
           more == PublishProfile(c, made, node.profile)
           v == node.pending \ {c}
           two == <<ModelWrite(c, made), PendingWrite(v)>>
<1>0. node.profile \in ShownProfile /\ made \in ShownProfile /\ v \in SUBSET Groups
  <2>1. node.profile \in ShownProfile /\ v \in SUBSET Groups
    BY DEF StoreIInv, StoreTyped
  <2> QED
    BY <2>1, StoreAssumption DEF ShownProfile
<1>a. \/ more = <<>> /\ made = node.profile
      \/ more = <<ModelWrite(c, node.profile)>>
  BY <1>0, PublishedOnce
<1>b. /\ Begins /\ work' = [by |-> "merge", writes |-> two \o more]
      /\ UNCHANGED <<disk, node, form, promised, failed>>
  BY DEF SnapshotAdmits
<1>c. \A x \in promised : x \in v \/ MemberOf(node.shown, x) \/ x = c
  BY DEF StoreIInv, PromisesKept
<1> HIDE DEF made, more, v
<1>1. PICK ws \in {two, <<ModelWrite(c, made), PendingWrite(v), ModelWrite(c, node.profile)>>} :
        /\ work' = [by |-> "merge", writes |-> ws]
        /\ ws = two => made = node.profile
  <2>1. CASE more = <<>> /\ made = node.profile
    <3>1. two \o <<>> = two
      OBVIOUS
    <3> QED
      BY <1>b, <2>1, <3>1
  <2>2. CASE more = <<ModelWrite(c, node.profile)>>
    <3>1. two \o <<ModelWrite(c, node.profile)>>
             = <<ModelWrite(c, made), PendingWrite(v), ModelWrite(c, node.profile)>>
      BY Concats
    <3>2. <<ModelWrite(c, made), PendingWrite(v), ModelWrite(c, node.profile)>> # two
      OBVIOUS
    <3> QED
      BY <1>b, <2>2, <3>1, <3>2
  <2> QED
    BY <1>a, <2>1, <2>2
<1>2. /\ ws \in Seq(Writes) /\ Len(ws) \in 2 .. 3
      /\ ws[1] = ModelWrite(c, made) /\ ws[2] = PendingWrite(v)
      /\ Len(ws) = 3 => ws[3] = ModelWrite(c, node.profile)
      /\ Len(ws) = 2 => made = node.profile
  <2>1. CASE ws = two
    BY <1>0, <1>1, <2>1, Kinds
  <2>2. CASE ws = <<ModelWrite(c, made), PendingWrite(v), ModelWrite(c, node.profile)>>
    BY <1>0, <1>1, <2>2, Kinds
  <2> QED
    BY <1>1, <2>1, <2>2
<1>3. \A i \in 1 .. Len(ws) : i = 1 \/ i = 2 \/ (i = 3 /\ Len(ws) = 3)
  BY <1>2
<1>d. Len(ws) \in Nat /\ Len(ws) <= 3
  <2>1. CASE ws = two
    BY <2>1
  <2>2. CASE ws = <<ModelWrite(c, made), PendingWrite(v), ModelWrite(c, node.profile)>>
    BY <2>2
  <2> QED
    BY <1>1, <2>1, <2>2
<1>4. work'.by = "merge" /\ work'.writes = ws
  BY <1>1
<1>5. \A i \in 1 .. Len(ws) : ws[i].file # "profile" /\ WriteSound(ws[i], i)'
  <2> SUFFICES ASSUME NEW i \in 1 .. Len(ws) PROVE ws[i].file # "profile" /\ WriteSound(ws[i], i)'
    OBVIOUS
  <2>1. CASE i = 1
    BY <1>0, <1>2, <1>4, <2>1, Kinds DEF WriteSound
  <2>2. CASE i = 2
    <3>1. \A x \in promised' : x \in v \/ MemberOf(node'.shown, x) \/ IsModel(work'.writes[1], x)
      BY <1>2, <1>4, <1>b, <1>c, Kinds DEF IsModel
    <3>2. 1 \in 1 .. (i - 1)
      BY <2>2
    <3> QED
      BY <1>2, <1>4, <2>2, <3>1, <3>2, Kinds DEF WriteSound
  <2>3. CASE i = 3 /\ Len(ws) = 3
    BY <1>0, <1>2, <1>4, <2>3, Kinds DEF WriteSound
  <2> QED
    BY <1>3, <2>1, <2>2, <2>3
<1>6. \A x \in Groups : \/ \E i \in 1 .. Len(ws) : /\ Last(ws, i, x)
                                                    /\ ws[i].value \in {node.profile, Former}
                        \/ \A i \in 1 .. Len(ws) : ~ IsModel(ws[i], x)
  <2> SUFFICES ASSUME NEW x \in Groups
        PROVE  \/ \E i \in 1 .. Len(ws) : Last(ws, i, x) /\ ws[i].value \in {node.profile, Former}
               \/ \A i \in 1 .. Len(ws) : ~ IsModel(ws[i], x)
    OBVIOUS
  <2>1. CASE x # c
    BY <1>2, <1>3, <2>1, Kinds DEF IsModel
  <2>2. CASE x = c /\ Len(ws) = 3
    BY <1>2, <2>2, Kinds DEF IsModel, Last
  <2>3. CASE x = c /\ Len(ws) = 2
    <3>1. Last(ws, 1, c) /\ ws[1].value = node.profile
      BY <1>2, <2>3, Kinds DEF IsModel, Last
    <3> QED
      BY <2>3, <3>1
  <2> QED
    BY <1>2, <2>1, <2>2, <2>3
<1>7. Len(ws) <= 2 + Cardinality(Groups)
  BY <1>d, RoomForThree
<1> QED
  BY <1>1, <1>2, <1>5, <1>6, <1>7, <1>b, FilesToWrite

\* A list of invitations with one more is written: joinCommunity, while the
\* panel is online and when it has come online.
LEMMA JoinBegins ==
  ASSUME StoreIInv, NEW c \in Groups,
         node' = [node EXCEPT !.pending = @ \cup {c}],
         work' = [by |-> "join", writes |-> <<PendingWrite(node.pending \cup {c})>>],
         form' \in Forms,
         form'.online /\ ~ failed' => form'.joining \subseteq node.pending \cup {c},
         disk' \in [profile: ShownProfile, shown: [Groups -> Displayed],
                    pending: SUBSET Groups, setting: OwnNames],
         disk'.profile = disk.profile, disk'.shown = disk.shown, disk'.pending = disk.pending,
         failed' \in BOOLEAN, promised' = promised,
         storeFaults' \in [calls: 0 .. MaxStoreCalls, failures: 0 .. MaxFailures,
                           crashes: 0 .. MaxDeaths],
         form'.online /\ ~ failed' => Follows(<<>>)
  PROVE  StoreIInv'
<1>1. PICK v : v = node.pending \cup {c}
  OBVIOUS
<1>2. PICK ws : ws = <<PendingWrite(v)>>
  OBVIOUS
<1>3. v \in SUBSET Groups /\ node \in Nodes
  BY <1>1 DEF StoreIInv, StoreTyped, Nodes
<1>4. ws \in Seq(Writes) /\ Len(ws) = 1 /\ ws[1] = PendingWrite(v)
  BY <1>2, <1>3, Kinds
<1>5. work' = [by |-> "join", writes |-> ws] /\ node' = [node EXCEPT !.pending = v]
  BY <1>1, <1>2
<1>6. work'.by = "join" /\ work'.writes = ws
  BY <1>5
<1>7. /\ node' \in Nodes /\ node'.shown = node.shown /\ node'.profile = node.profile
      /\ node'.pending = v
  BY <1>3, <1>5 DEF Nodes
<1>8. StoreTyped'
  <2>1. Len(ws) <= 2 + Cardinality(Groups)
    BY <1>4, RoomForThree
  <2>2. work' \in [by: Works, writes: Seq(Writes)] /\ Len(work'.writes) <= 2 + Cardinality(Groups)
    BY <1>4, <1>5, <1>6, <2>1 DEF Works
  <2>3. promised' \subseteq Groups
    BY DEF StoreIInv, StoreTyped
  <2> QED
    BY <1>7, <2>2, <2>3 DEF StoreTyped, Nodes, Forms
<1>9. WritesSound'
  <2>1. \A x \in promised' : x \in v \/ MemberOf(node'.shown, x)
    BY <1>1, <1>7 DEF StoreIInv, PromisesKept
  <2>2. \A i \in 1 .. Len(ws) : WriteSound(ws[i], i)'
    BY <1>4, <1>6, <1>7, <2>1, Kinds DEF WriteSound
  <2> QED
    BY <1>6, <2>2 DEF WritesSound
<1>10. PromisesKept'
  BY <1>1, <1>7 DEF StoreIInv, PromisesKept, MemberOf
<1>11. ProfileFollows'
  <2>1. disk'.shown = node'.shown
    BY <1>7 DEF StoreIInv, ProfileFollows
  <2>2. ASSUME form'.online /\ ~ failed' PROVE Follows(ws)'
    <3>1. ~ ProfileFirst(<<>>) /\ ~ ProfileFirst(ws)
      BY <1>4, Kinds DEF ProfileFirst
    <3>2. \A x \in Groups : node.shown[x] \in ShownProfile => node.shown[x] = node.profile
      BY <2>2, <3>1 DEF Follows, Shows, Aim
    <3>3. \A x \in Groups : \A i \in 1 .. Len(ws) : ~ IsModel(ws[i], x)
      BY <1>4, Kinds DEF IsModel
    <3>4. disk'.profile = node'.profile
      BY <1>7, <2>2, <3>1 DEF Follows
    <3>5. \A x \in Groups : Shows(ws, node'.shown, x, node'.profile)
      BY <1>7, <3>2, <3>3 DEF Shows
    <3> QED
      BY <3>1, <3>4, <3>5 DEF Follows, Aim
  <2>3. form'.online /\ ~ failed' => form'.joining \subseteq node'.pending
    BY <1>1, <1>7
  <2> QED
    BY <1>6, <2>1, <2>2, <2>3 DEF ProfileFollows
<1> QED
  BY <1>8, <1>9, <1>10, <1>11 DEF StoreIInv

\* What a handler that begins leaves of the counters.
LEMMA CountedCall ==
  ASSUME StoreIInv, Begins
  PROVE  storeFaults' \in [calls: 0 .. MaxStoreCalls, failures: 0 .. MaxFailures,
                           crashes: 0 .. MaxDeaths]
<1>1. /\ storeFaults \in [calls: 0 .. MaxStoreCalls, failures: 0 .. MaxFailures,
                          crashes: 0 .. MaxDeaths]
      /\ storeFaults.calls < MaxStoreCalls
      /\ storeFaults' = [storeFaults EXCEPT !.calls = storeFaults.calls + 1]
  BY DEF StoreIInv, StoreTyped, Begins
<1>2. storeFaults.calls + 1 \in 0 .. MaxStoreCalls
  BY <1>1, StoreAssumption
<1> QED
  BY <1>1, <1>2

\* acceptInvite: the join begins, is refused, or waits for the panel.
LEMMA AcceptInviteKeeps ==
  ASSUME StoreIInv, NEW c \in Groups, AcceptInvite(c) PROVE StoreIInv'
<1>1. node \in Nodes /\ form \in Forms
  BY DEF StoreIInv, StoreTyped, Nodes, Forms
<1>2. Begins /\ work = NoWork /\ UNCHANGED <<disk, promised, failed>>
  BY DEF AcceptInvite, Begins, AtRest
<1>3. CASE form.online /\ Joining(c, node.shown, node.pending)
  <2>1. /\ node' = [node EXCEPT !.pending = @ \cup {c}]
        /\ form' = [form EXCEPT !.link = NoGroup, !.joining = form.joining \cup {c}]
        /\ work' = [by |-> "join", writes |-> <<PendingWrite(node.pending \cup {c})>>]
    BY <1>3 DEF AcceptInvite, JoinGroup
  <2>2. form' \in Forms /\ form'.online = form.online /\ form'.joining = form.joining \cup {c}
    BY <1>1, <2>1 DEF Forms
  <2>3. ASSUME ~ failed PROVE Follows(<<>>) /\ form.joining \subseteq node.pending
    BY <1>2, <1>3, <2>3, RestingShows DEF Begins, StoreIInv, ProfileFollows, NoWork
  <2>4. disk' \in [profile: ShownProfile, shown: [Groups -> Displayed],
                   pending: SUBSET Groups, setting: OwnNames] /\ failed' \in BOOLEAN
    BY <1>2 DEF StoreIInv, StoreTyped
  <2>5. form'.online /\ ~ failed' => form'.joining \subseteq node.pending \cup {c}
    BY <1>2, <2>2, <2>3
  <2>6. form'.online /\ ~ failed' => Follows(<<>>)
    BY <1>2, <2>3
  <2>7. storeFaults' \in [calls: 0 .. MaxStoreCalls, failures: 0 .. MaxFailures,
                          crashes: 0 .. MaxDeaths]
    BY <1>2, CountedCall
  <2> QED
    BY <1>2, <2>1, <2>2, <2>4, <2>5, <2>6, <2>7, JoinBegins
<1>4. CASE form.online /\ ~ Joining(c, node.shown, node.pending)
  <2>1. /\ node' = node /\ work' = NoWork
        /\ form' = [form EXCEPT !.link = NoGroup, !.joining = form.joining \ {c}]
    BY <1>4 DEF AcceptInvite, JoinGroup
  <2>2. form' \in Forms /\ form'.online = form.online /\ form'.joining \subseteq form.joining
    BY <1>1, <2>1 DEF Forms
  <2> QED
    BY <1>1, <1>2, <2>1, <2>2, NothingToWrite
<1>5. CASE ~ form.online
  <2>1. form' = [form EXCEPT !.link = c] /\ node' = node /\ work' = NoWork
    BY <1>2, <1>5 DEF AcceptInvite
  <2>2. form' \in Forms /\ form'.online = form.online /\ form'.joining \subseteq form.joining
    BY <1>1, <2>1 DEF Forms
  <2> QED
    BY <1>1, <1>2, <2>1, <2>2, NothingToWrite
<1> QED
  BY <1>3, <1>4, <1>5

\* The first write that is left and those after it.
LEMMA TailFacts ==
  ASSUME NEW S, NEW s \in Seq(S), s # <<>>
  PROVE  /\ Tail(s) \in Seq(S) /\ Len(s) \in Nat /\ Len(Tail(s)) = Len(s) - 1 /\ Len(s) >= 1
         /\ Head(s) = s[1] /\ s[1] \in S
         /\ \A i \in 1 .. Len(Tail(s)) : i + 1 \in 1 .. Len(s) /\ Tail(s)[i] = s[i + 1]
         /\ \A i \in 1 .. Len(s) : i # 1 => i - 1 \in 1 .. Len(Tail(s)) /\ s[i] = Tail(s)[i - 1]
<1>1. Len(s) \in Nat /\ Len(s) >= 1
  BY EmptySeq, LenProperties
<1>2. /\ Tail(s) \in Seq(S) /\ Len(Tail(s)) = Len(s) - 1 /\ Head(s) = s[1]
      /\ \A i \in 1 .. Len(Tail(s)) : Tail(s)[i] = s[i + 1]
  BY HeadTailProperties
<1>3. s[1] \in S
  BY <1>1, ElementOfSeq
<1> QED
  BY <1>1, <1>2, <1>3

\* What is left of writes that show a profile still shows it, once the first is done.
LEMMA TailShows ==
  ASSUME NEW ws \in Seq(Writes), ws # <<>>, NEW shown, NEW after, NEW c \in Groups, NEW p,
         Shows(ws, shown, c, p),
         IsModel(ws[1], c) => after[c] = ws[1].value,
         ~ IsModel(ws[1], c) => after[c] = shown[c]
  PROVE  Shows(Tail(ws), after, c, p)
<1> DEFINE t == Tail(ws)
<1>1. /\ t \in Seq(Writes) /\ Len(ws) \in Nat /\ Len(t) = Len(ws) - 1 /\ Len(ws) >= 1
      /\ \A i \in 1 .. Len(t) : i + 1 \in 1 .. Len(ws) /\ t[i] = ws[i + 1]
      /\ \A i \in 1 .. Len(ws) : i # 1 => i - 1 \in 1 .. Len(t) /\ ws[i] = t[i - 1]
  BY TailFacts
<1> HIDE DEF t
<1>2. CASE \E i \in 1 .. Len(ws) : Last(ws, i, c) /\ ws[i].value \in {p, Former}
  <2>1. PICK i \in 1 .. Len(ws) : Last(ws, i, c) /\ ws[i].value \in {p, Former}
    BY <1>2
  <2>2. CASE i = 1
    <3>1. \A j \in 1 .. Len(t) : ~ IsModel(t[j], c)
      <4> SUFFICES ASSUME NEW j \in 1 .. Len(t) PROVE ~ IsModel(t[j], c)
        OBVIOUS
      <4>1. j + 1 \in 1 .. Len(ws) /\ t[j] = ws[j + 1] /\ j + 1 > i
        BY <1>1, <2>2
      <4> QED
        BY <2>1, <4>1 DEF Last
    <3>2. after[c] \in {p, Former}
      BY <2>1, <2>2 DEF Last
    <3> QED
      BY <3>1, <3>2, Kinds DEF Shows, t
  <2>3. CASE i # 1
    <3>1. i - 1 \in 1 .. Len(t) /\ ws[i] = t[i - 1]
      BY <1>1, <2>3
    <3>2. \A j \in 1 .. Len(t) : j > i - 1 => ~ IsModel(t[j], c)
      <4> SUFFICES ASSUME NEW j \in 1 .. Len(t), j > i - 1 PROVE ~ IsModel(t[j], c)
        OBVIOUS
      <4>1. j + 1 \in 1 .. Len(ws) /\ t[j] = ws[j + 1] /\ j + 1 > i
        BY <1>1
      <4> QED
        BY <2>1, <4>1 DEF Last
    <3>3. Last(t, i - 1, c) /\ t[i - 1].value \in {p, Former}
      BY <2>1, <3>1, <3>2 DEF Last
    <3> QED
      BY <3>1, <3>3 DEF Shows, t
  <2> QED
    BY <2>2, <2>3
<1>3. CASE /\ \A i \in 1 .. Len(ws) : ~ IsModel(ws[i], c)
           /\ shown[c] \in ShownProfile => shown[c] = p
  <2>1. ~ IsModel(ws[1], c) /\ \A i \in 1 .. Len(t) : ~ IsModel(t[i], c)
    BY <1>1, <1>3
  <2> QED
    BY <1>3, <2>1 DEF Shows, t
<1> QED
  BY <1>2, <1>3 DEF Shows

\* The writes after the first stay in order when no invitation is promised.
LEMMA TailSound ==
  ASSUME StoreIInv, NEW ws \in Seq(Writes), ws = work.writes, ws # <<>>,
         work' = [by |-> work.by, writes |-> Tail(ws)],
         work.by # "join" => promised' = promised,
         \A x \in promised : IsModel(ws[1], x) => MemberOf(node'.shown, x),
         \A x \in promised : MemberOf(node.shown, x) => MemberOf(node'.shown, x)
  PROVE  WritesSound'
<1> DEFINE t == Tail(ws)
<1>1. /\ t \in Seq(Writes) /\ Len(ws) \in Nat /\ Len(t) = Len(ws) - 1 /\ Len(ws) >= 1
      /\ \A i \in 1 .. Len(t) : i + 1 \in 1 .. Len(ws) /\ t[i] = ws[i + 1]
      /\ \A i \in 1 .. Len(ws) : i # 1 => i - 1 \in 1 .. Len(t) /\ ws[i] = t[i - 1]
  BY TailFacts
<1>2. work'.by = work.by /\ work'.writes = t
  OBVIOUS
<1> HIDE DEF t
<1>3. \A i \in 1 .. Len(ws) : WriteSound(ws[i], i)
  BY DEF StoreIInv, WritesSound
<1>4. work.by # "none"
  BY DEF StoreIInv, WritesSound
<1>5. ASSUME NEW i \in 1 .. Len(t) PROVE WriteSound(t[i], i)'
  <2>1. i + 1 \in 1 .. Len(ws) /\ t[i] = ws[i + 1] /\ i + 1 # 1 /\ WriteSound(ws[i + 1], i + 1)
    BY <1>1, <1>3
  <2>2. work.by # "join" /\ t[i].file # "profile" /\ promised' = promised
    BY <2>1 DEF WriteSound
  <2>3. t[i].file = "model" /\ t[i].value = Former => t[i].community \notin promised
    BY <2>1 DEF WriteSound
  <2>4. ASSUME t[i].file = "pending"
        PROVE  /\ work.by \in {"join", "merge"}
               /\ \A x \in promised : \/ x \in t[i].value \/ MemberOf(node'.shown, x)
                                      \/ \E j \in 1 .. (i - 1) : IsModel(t[j], x)
    <3>1. work.by \in {"join", "merge"}
      BY <2>1, <2>4 DEF WriteSound
    <3> SUFFICES ASSUME NEW x \in promised, x \notin t[i].value, ~ MemberOf(node'.shown, x)
          PROVE  \E j \in 1 .. (i - 1) : IsModel(t[j], x)
      BY <3>1
    <3>2. PICK j \in 1 .. i : IsModel(ws[j], x)
      <4>1. (i + 1) - 1 = i
        OBVIOUS
      <4> QED
        BY <2>1, <2>4, <4>1 DEF WriteSound
    <3>3. j # 1
      BY <3>2
    <3>4. j \in 1 .. Len(ws) /\ j - 1 \in 1 .. (i - 1)
      BY <1>1, <3>3
    <3> QED
      BY <1>1, <3>2, <3>3, <3>4
  <2> QED
    BY <1>2, <2>2, <2>3, <2>4 DEF WriteSound
<1> QED
  BY <1>2, <1>4, <1>5 DEF WritesSound

\* A write of the first file that is left.
LEMMA WriteKeeps == ASSUME StoreIInv, Write PROVE StoreIInv'
<1>1. PICK ws \in Seq(Writes) : ws = work.writes
  BY DEF StoreIInv, StoreTyped
<1>2. PICK w : w = ws[1]
  OBVIOUS
<1>3. ws # <<>>
  BY <1>1 DEF Write
<1>4. /\ Tail(ws) \in Seq(Writes) /\ Len(ws) \in Nat /\ Len(Tail(ws)) = Len(ws) - 1
      /\ Len(ws) >= 1 /\ Head(ws) = w /\ w \in Writes
      /\ \A i \in 1 .. Len(Tail(ws)) : i + 1 \in 1 .. Len(ws) /\ Tail(ws)[i] = ws[i + 1]
  BY <1>2, <1>3, TailFacts
<1>5. /\ node \in Nodes /\ form \in Forms /\ work \in [by: Works, writes: Seq(Writes)]
      /\ disk \in [profile: ShownProfile, shown: [Groups -> Displayed],
                   pending: SUBSET Groups, setting: OwnNames]
  BY DEF StoreIInv, StoreTyped, Nodes, Forms
<1>6. /\ disk' = Stored(w) /\ node' = Remembered(w)
      /\ work' = [by |-> work.by, writes |-> Tail(ws)]
      /\ promised' = IF work.by = "join"
                      THEN promised \cup {c \in w.value : node.shown[c] = NotHeld} ELSE promised
      /\ form' = IF w.file = "pending" /\ work.by = "merge"
                  THEN [form EXCEPT !.joining = form.joining \ (node.pending \ w.value)]
                  ELSE form
      /\ UNCHANGED <<failed, storeFaults>>
  <2>1. [work EXCEPT !.writes = Tail(ws)] = [by |-> work.by, writes |-> Tail(ws)]
    BY <1>4, <1>5
  <2> QED
    BY <1>1, <1>4, <2>1 DEF Write
<1>7. WriteSound(w, 1) /\ work.by # "none"
  BY <1>1, <1>2, <1>3, <1>4 DEF StoreIInv, WritesSound
<1>8. work'.by = work.by /\ work'.writes = Tail(ws)
  BY <1>6
<1>9. work'.writes \in Seq(Writes) /\ Len(work'.writes) <= 2 + Cardinality(Groups)
  <2>1. Cardinality(Groups) \in Nat
    BY StoreAssumption, FS_CardinalityType
  <2>2. Len(ws) <= 2 + Cardinality(Groups)
    BY <1>1 DEF StoreIInv, StoreTyped
  <2>3. Len(Tail(ws)) <= 2 + Cardinality(Groups)
    BY <1>4, <2>1, <2>2
  <2> QED
    BY <1>4, <1>8, <2>3
<1>10. work' \in [by: Works, writes: Seq(Writes)]
  BY <1>4, <1>5, <1>6
<1>11. failed' \in BOOLEAN /\ storeFaults' \in [calls: 0 .. MaxStoreCalls,
                              failures: 0 .. MaxFailures, crashes: 0 .. MaxDeaths]
  BY <1>6 DEF StoreIInv, StoreTyped
<1>12. disk.shown = node.shown
  BY DEF StoreIInv, ProfileFollows
<1>13. (form.online /\ ~ failed) \/ work.by = "start" => Follows(ws)
  BY <1>1 DEF StoreIInv, ProfileFollows
<1>14. ProfileFirst(ws) <=> w.file = "profile"
  BY <1>2, <1>3 DEF ProfileFirst
<1>15. ~ ProfileFirst(Tail(ws))
  <2> SUFFICES ASSUME Tail(ws) # <<>> PROVE Tail(ws)[1].file # "profile"
    BY DEF ProfileFirst
  <2>1. 1 \in 1 .. Len(Tail(ws))
    BY <1>4, EmptySeq
  <2>2. 2 \in 1 .. Len(ws) /\ Tail(ws)[1] = ws[2]
    BY <1>4, <2>1
  <2>3. WriteSound(ws[2], 2)
    BY <1>1, <2>2 DEF StoreIInv, WritesSound
  <2> QED
    BY <2>2, <2>3 DEF WriteSound
<1>16. CASE w.file = "profile"
  <2>1. w.value \in ShownProfile /\ \A c : ~ IsModel(w, c)
    BY <1>4, <1>16 DEF Writes, IsModel
  <2>2. disk' = [disk EXCEPT !.profile = w.value] /\ node' = [node EXCEPT !.profile = w.value]
    BY <1>6, <1>16 DEF Stored, Remembered
  <2>3. work.by # "join"
    BY <1>7, <1>16 DEF WriteSound, PendingWrite
  <2>4. promised' = promised /\ form' = form
    BY <1>6, <1>16, <2>3
  <2>5. /\ disk' \in [profile: ShownProfile, shown: [Groups -> Displayed],
                      pending: SUBSET Groups, setting: OwnNames]
        /\ node' \in Nodes
        /\ disk'.profile = w.value /\ disk'.shown = disk.shown /\ disk'.pending = disk.pending
        /\ node'.profile = w.value /\ node'.shown = node.shown /\ node'.pending = node.pending
    BY <1>5, <2>1, <2>2 DEF Nodes
  <2>6. StoreTyped'
    <3>1. form' \in Forms /\ promised' \subseteq Groups
      BY <1>5, <2>4 DEF StoreIInv, StoreTyped
    <3> QED
      BY <1>9, <1>10, <1>11, <2>5, <3>1 DEF StoreTyped, Nodes, Forms
  <2>7. WritesSound'
    BY <1>1, <1>2, <1>3, <1>6, <2>1, <2>4, <2>5, TailSound DEF MemberOf
  <2>8. PromisesKept'
    BY <2>4, <2>5 DEF StoreIInv, PromisesKept, MemberOf
  <2>9. ASSUME Follows(ws) PROVE Follows(Tail(ws))'
    <3>1. Aim(ws, node.profile) = w.value
      BY <1>2, <1>14, <1>16 DEF Aim
    <3>2. \A c \in Groups : Shows(Tail(ws), node'.shown, c, w.value)
      BY <1>2, <1>3, <2>1, <2>5, <2>9, <3>1, TailShows DEF Follows
    <3> QED
      BY <1>15, <2>5, <3>2 DEF Follows, Aim
  <2>10. ProfileFollows'
    <3>1. (form'.online /\ ~ failed') \/ work'.by = "start" => Follows(Tail(ws))'
      BY <1>6, <1>8, <1>13, <2>4, <2>9
    <3>2. form'.online /\ ~ failed' => form'.joining \subseteq node'.pending
      BY <1>6, <2>4, <2>5 DEF StoreIInv, ProfileFollows
    <3> QED
      BY <1>8, <1>12, <2>5, <3>1, <3>2 DEF ProfileFollows
  <2> QED
    BY <2>6, <2>7, <2>8, <2>10 DEF StoreIInv
<1>17. CASE w.file = "model"
  <2>1. w.community \in Groups /\ w.value \in ShownProfile \cup {Former}
    BY <1>4, <1>17 DEF Writes
  <2>2. /\ disk' = [disk EXCEPT !.shown[w.community] = w.value]
        /\ node' = [node EXCEPT !.shown[w.community] = w.value]
    BY <1>6, <1>17 DEF Stored, Remembered
  <2>3. work.by # "join"
    BY <1>7, <1>17 DEF WriteSound, PendingWrite
  <2>4. promised' = promised /\ form' = form
    BY <1>6, <1>17, <2>3
  <2>a. PICK after : after = [node.shown EXCEPT ![w.community] = w.value]
    OBVIOUS
  <2>b. /\ after \in [Groups -> Displayed] /\ after[w.community] = w.value
        /\ \A c \in Groups : c # w.community => after[c] = node.shown[c]
    BY <1>5, <2>1, <2>a DEF Nodes, Displayed
  <2>5. /\ disk' \in [profile: ShownProfile, shown: [Groups -> Displayed],
                      pending: SUBSET Groups, setting: OwnNames]
        /\ node' \in Nodes
        /\ disk'.profile = disk.profile /\ disk'.shown = after /\ disk'.pending = disk.pending
        /\ node'.profile = node.profile /\ node'.shown = after /\ node'.pending = node.pending
    BY <1>5, <1>12, <2>2, <2>a, <2>b DEF Nodes
  <2>6. StoreTyped'
    <3>1. form' \in Forms /\ promised' \subseteq Groups
      BY <1>5, <2>4 DEF StoreIInv, StoreTyped
    <3> QED
      BY <1>9, <1>10, <1>11, <2>5, <3>1 DEF StoreTyped, Nodes, Forms
  <2>c. \A x \in promised : IsModel(w, x) => MemberOf(after, x)
    BY <1>7, <2>1, <2>b DEF WriteSound, IsModel, MemberOf
  <2>d. \A x \in promised : MemberOf(node.shown, x) => MemberOf(after, x)
    <3>1. promised \subseteq Groups
      BY DEF StoreIInv, StoreTyped
    <3> QED
      BY <1>17, <2>b, <2>c, <3>1 DEF MemberOf, IsModel
  <2>7. WritesSound'
    BY <1>1, <1>2, <1>3, <1>6, <2>4, <2>5, <2>c, <2>d, TailSound
  <2>8. PromisesKept'
    <3>1. \A x \in promised : after[x] # Former
      <4>1. promised \subseteq Groups
        BY DEF StoreIInv, StoreTyped
      <4> QED
        BY <1>7, <1>17, <2>b, <4>1 DEF WriteSound, StoreIInv, PromisesKept
    <3> QED
      BY <2>4, <2>5, <2>d, <3>1 DEF StoreIInv, PromisesKept
  <2>9. ASSUME Follows(ws) PROVE Follows(Tail(ws))'
    <3>1. Aim(ws, node.profile) = node.profile /\ disk.profile = node.profile
      BY <1>14, <1>17, <2>9 DEF Aim, Follows
    <3>2. \A c \in Groups : Shows(Tail(ws), after, c, node.profile)
      <4> SUFFICES ASSUME NEW c \in Groups PROVE Shows(Tail(ws), after, c, node.profile)
        OBVIOUS
      <4>1. Shows(ws, node.shown, c, node.profile)
        BY <2>9, <3>1 DEF Follows
      <4>2. /\ IsModel(ws[1], c) => after[c] = ws[1].value
            /\ ~ IsModel(ws[1], c) => after[c] = node.shown[c]
        BY <1>2, <1>17, <2>b DEF IsModel
      <4> QED
        BY <1>3, <4>1, <4>2, TailShows
    <3> QED
      BY <1>15, <2>5, <3>1, <3>2 DEF Follows, Aim
  <2>10. ProfileFollows'
    <3>1. (form'.online /\ ~ failed') \/ work'.by = "start" => Follows(Tail(ws))'
      BY <1>6, <1>8, <1>13, <2>4, <2>9
    <3>2. form'.online /\ ~ failed' => form'.joining \subseteq node'.pending
      BY <1>6, <2>4, <2>5 DEF StoreIInv, ProfileFollows
    <3> QED
      BY <1>8, <2>5, <3>1, <3>2 DEF ProfileFollows
  <2> QED
    BY <2>6, <2>7, <2>8, <2>10 DEF StoreIInv
<1>18. CASE w.file = "pending"
  <2>1. w.value \in SUBSET Groups /\ \A c : ~ IsModel(w, c)
    BY <1>4, <1>18 DEF Writes, IsModel
  <2>2. disk' = [disk EXCEPT !.pending = w.value] /\ node' = [node EXCEPT !.pending = w.value]
    BY <1>6, <1>18 DEF Stored, Remembered
  <2>3. work.by = "join" => w.value = node.pending
    BY <1>7, Kinds DEF WriteSound
  <2>4. promised \subseteq promised' /\ promised' \subseteq Groups
        /\ \A x \in promised' : x \notin promised => x \in w.value /\ node.shown[x] = NotHeld
    <3>1. promised \subseteq Groups
      BY DEF StoreIInv, StoreTyped
    <3> QED
      BY <1>6, <2>1, <3>1
  <2>5. /\ disk' \in [profile: ShownProfile, shown: [Groups -> Displayed],
                      pending: SUBSET Groups, setting: OwnNames]
        /\ node' \in Nodes
        /\ disk'.profile = disk.profile /\ disk'.shown = disk.shown /\ disk'.pending = w.value
        /\ node'.profile = node.profile /\ node'.shown = node.shown /\ node'.pending = w.value
    BY <1>5, <2>1, <2>2 DEF Nodes
  <2>6. /\ form' \in Forms /\ form'.online = form.online
        /\ form.joining \subseteq node.pending => form'.joining \subseteq w.value
    <3>1. CASE work.by = "merge"
      BY <1>5, <1>6, <1>18, <3>1 DEF Forms
    <3>2. CASE work.by # "merge"
      <4>1. work.by = "join"
        BY <1>7, <1>18, <3>2 DEF WriteSound
      <4> QED
        BY <1>5, <1>6, <2>3, <3>2, <4>1
    <3> QED
      BY <3>1, <3>2
  <2>7. StoreTyped'
    BY <1>9, <1>10, <1>11, <2>4, <2>5, <2>6 DEF StoreTyped, Nodes, Forms
  <2>8. WritesSound'
    <3>1. work.by # "join" => promised' = promised
      BY <1>6
    <3> QED
      BY <1>1, <1>2, <1>3, <1>6, <2>1, <2>5, <3>1, TailSound DEF MemberOf
  <2>9. PromisesKept'
    <3>1. \A x \in promised : x \in w.value \/ MemberOf(node.shown, x)
      <4>1. ~ \E j \in 1 .. (1 - 1) : TRUE
        OBVIOUS
      <4> QED
        BY <1>7, <1>18, <4>1 DEF WriteSound
    <3>2. \A x \in promised' : node.shown[x] # Former
      BY <2>4, Kinds DEF StoreIInv, PromisesKept
    <3>3. \A x \in promised' : x \in w.value \/ MemberOf(node.shown, x)
      BY <2>4, <3>1
    <3> QED
      BY <2>5, <3>2, <3>3 DEF PromisesKept, MemberOf
  <2>10. ASSUME Follows(ws) PROVE Follows(Tail(ws))'
    <3>1. Aim(ws, node.profile) = node.profile /\ disk.profile = node.profile
      BY <1>14, <1>18, <2>10 DEF Aim, Follows
    <3>2. \A c \in Groups : Shows(Tail(ws), node'.shown, c, node.profile)
      BY <1>2, <1>3, <2>1, <2>5, <2>10, <3>1, TailShows DEF Follows
    <3> QED
      BY <1>15, <2>5, <3>1, <3>2 DEF Follows, Aim
  <2>11. ProfileFollows'
    <3>1. (form'.online /\ ~ failed') \/ work'.by = "start" => Follows(Tail(ws))'
      BY <1>6, <1>8, <1>13, <2>6, <2>10
    <3>2. form'.online /\ ~ failed' => form'.joining \subseteq node'.pending
      BY <1>6, <2>5, <2>6 DEF StoreIInv, ProfileFollows
    <3> QED
      BY <1>8, <1>12, <2>5, <3>1, <3>2 DEF ProfileFollows
  <2> QED
    BY <2>7, <2>8, <2>9, <2>11 DEF StoreIInv
<1> QED
  <2>1. w.file \in {"profile", "model", "pending"}
    BY <1>4 DEF Writes
  <2> QED
    BY <1>16, <1>17, <1>18, <2>1

\* A write that fails ends the handler: the file keeps what it had, a list of
\* invitations is forgotten in memory alone.
LEMMA WriteFailsKeeps == ASSUME StoreIInv, WriteFails PROVE StoreIInv'
<1>1. PICK ws \in Seq(Writes) : ws = work.writes
  BY DEF StoreIInv, StoreTyped
<1>2. PICK w : w = ws[1]
  OBVIOUS
<1>3. ws # <<>>
  BY <1>1 DEF WriteFails
<1>4. Head(ws) = w /\ w \in Writes /\ Len(ws) >= 1 /\ Len(ws) \in Nat
  BY <1>2, <1>3, TailFacts
<1>5. node \in Nodes /\ form \in Forms
  BY DEF StoreIInv, StoreTyped, Nodes, Forms
<1>6. WriteSound(w, 1)
  BY <1>1, <1>2, <1>4 DEF StoreIInv, WritesSound
<1>7. /\ work' = NoWork /\ failed' = TRUE /\ UNCHANGED <<disk, promised>>
      /\ node' = CASE work.by = "start" -> [node EXCEPT !.running = FALSE]
                   [] w.file = "pending" -> Remembered(w)
                   [] OTHER -> node
      /\ form' = IF work.by = "join"
                  THEN [form EXCEPT !.joining = form.joining \ (w.value \ disk.pending)] ELSE form
      /\ storeFaults.failures < MaxFailures
      /\ storeFaults' = [storeFaults EXCEPT !.failures = storeFaults.failures + 1]
  BY <1>1, <1>4 DEF WriteFails
<1>8. /\ node' \in Nodes /\ node'.shown = node.shown
      /\ \A x \in promised : x \in node'.pending \/ MemberOf(node.shown, x)
  <2>1. CASE w.file = "pending"
    <3>1. w.value \in SUBSET Groups
      BY <1>4, <2>1 DEF Writes
    <3>2. node' = [node EXCEPT !.pending = w.value]
      BY <1>6, <1>7, <2>1 DEF WriteSound, Remembered
    <3>3. \A x \in promised : x \in w.value \/ MemberOf(node.shown, x)
      <4>1. ~ \E j \in 1 .. (1 - 1) : TRUE
        OBVIOUS
      <4> QED
        BY <1>6, <2>1, <4>1 DEF WriteSound
    <3> QED
      BY <1>5, <3>1, <3>2, <3>3 DEF Nodes
  <2>2. CASE w.file # "pending"
    <3>1. node' = [node EXCEPT !.running = FALSE] \/ node' = node
      BY <1>7, <2>2
    <3>2. node' \in Nodes /\ node'.shown = node.shown /\ node'.pending = node.pending
      BY <1>5, <3>1 DEF Nodes
    <3> QED
      BY <3>2 DEF StoreIInv, PromisesKept
  <2> QED
    BY <2>1, <2>2
<1>9. form' \in Forms
  BY <1>5, <1>7 DEF Forms
<1>10. storeFaults' \in [calls: 0 .. MaxStoreCalls, failures: 0 .. MaxFailures,
                         crashes: 0 .. MaxDeaths]
  <2>1. storeFaults \in [calls: 0 .. MaxStoreCalls, failures: 0 .. MaxFailures,
                         crashes: 0 .. MaxDeaths]
    BY DEF StoreIInv, StoreTyped
  <2>2. storeFaults.failures + 1 \in 0 .. MaxFailures
    BY <1>7, <2>1, StoreAssumption
  <2> QED
    BY <1>7, <2>1, <2>2
<1>11. work'.by = "none" /\ work'.writes = <<>>
  BY <1>7 DEF NoWork
<1>12. StoreTyped'
  <2>1. Len(<<>>) <= 2 + Cardinality(Groups)
    <3>1. Cardinality(Groups) \in Nat
      BY StoreAssumption, FS_CardinalityType
    <3> QED
      BY <3>1
  <2>2. work' \in [by: Works, writes: Seq(Writes)] /\ Len(work'.writes) <= 2 + Cardinality(Groups)
    BY <1>7, <1>11, <2>1 DEF NoWork, Works
  <2>3. /\ disk' \in [profile: ShownProfile, shown: [Groups -> Displayed],
                      pending: SUBSET Groups, setting: OwnNames]
        /\ promised' \subseteq Groups /\ failed' \in BOOLEAN
    BY <1>7 DEF StoreIInv, StoreTyped
  <2> QED
    BY <1>8, <1>9, <1>10, <2>2, <2>3 DEF StoreTyped, Nodes, Forms
<1>13. WritesSound'
  BY <1>11 DEF WritesSound
<1>14. PromisesKept'
  BY <1>7, <1>8 DEF StoreIInv, PromisesKept, MemberOf
<1>15. ProfileFollows'
  BY <1>7, <1>8, <1>11 DEF StoreIInv, ProfileFollows
<1> QED
  BY <1>12, <1>13, <1>14, <1>15 DEF StoreIInv

\* No work is no write.
LEMMA NoWorkTyped ==
  NoWork \in [by: Works, writes: Seq(Writes)] /\ Len(NoWork.writes) <= 2 + Cardinality(Groups)
<1>1. Cardinality(Groups) \in Nat
  BY StoreAssumption, FS_CardinalityType
<1>2. NoWork.writes = <<>> /\ NoWork \in [by: Works, writes: Seq(Writes)]
  BY DEF NoWork, Works
<1>3. Len(<<>>) <= 2 + Cardinality(Groups)
  BY <1>1
<1> QED
  BY <1>2, <1>3

\* A handler returns; a start opens the panel and takes up the link that waits.
LEMMA DoneKeeps == ASSUME StoreIInv, Done PROVE StoreIInv'
<1>1. /\ node \in Nodes /\ form \in Forms
      /\ disk \in [profile: ShownProfile, shown: [Groups -> Displayed],
                   pending: SUBSET Groups, setting: OwnNames]
      /\ promised \subseteq Groups /\ failed \in BOOLEAN
      /\ storeFaults \in [calls: 0 .. MaxStoreCalls, failures: 0 .. MaxFailures,
                          crashes: 0 .. MaxDeaths]
  BY DEF StoreIInv, StoreTyped, Nodes, Forms
<1>2. work.writes = <<>> /\ UNCHANGED <<promised, storeFaults>>
  BY DEF Done
<1>3. (form.online /\ ~ failed) \/ work.by = "start" => Follows(<<>>)
  BY <1>2 DEF StoreIInv, ProfileFollows
<1>4. ~ ProfileFirst(<<>>)
  BY DEF ProfileFirst
\* Whatever leaves no work and keeps the profiles and the invitations.
<1>5. ASSUME work' = NoWork, node' = node, form' \in Forms,
             disk' \in [profile: ShownProfile, shown: [Groups -> Displayed],
                        pending: SUBSET Groups, setting: OwnNames],
             disk'.profile = disk.profile, disk'.shown = disk.shown,
             disk'.pending = disk.pending, failed' \in BOOLEAN,
             form'.online /\ ~ failed' => Follows(<<>>),
             form'.online /\ ~ failed' => form'.joining \subseteq node.pending
      PROVE  StoreIInv'
  <2>1. work'.by = "none" /\ work'.writes = <<>>
    BY <1>5 DEF NoWork
  <2>2. StoreTyped'
    <3>1. work' \in [by: Works, writes: Seq(Writes)] /\ Len(work'.writes) <= 2 + Cardinality(Groups)
      BY <1>5, NoWorkTyped
    <3> QED
      BY <1>1, <1>2, <1>5, <3>1 DEF StoreTyped, Nodes, Forms
  <2>3. WritesSound'
    BY <2>1 DEF WritesSound
  <2>4. PromisesKept'
    BY <1>2, <1>5 DEF StoreIInv, PromisesKept, MemberOf
  <2>5. ProfileFollows'
    BY <1>5, <2>1 DEF StoreIInv, ProfileFollows, Follows
  <2> QED
    BY <2>2, <2>3, <2>4, <2>5 DEF StoreIInv
<1>6. CASE work.by = "start"
  <2> DEFINE opened == [form EXCEPT !.online = TRUE, !.joining = node.pending]
             c == form.link
  <2>1. /\ disk' = [disk EXCEPT !.setting = form.field] /\ failed' = FALSE
        /\ Joining(c, node.shown, node.pending) =>
              /\ node' = [node EXCEPT !.pending = @ \cup {c}]
              /\ form' = [opened EXCEPT !.link = NoGroup,
                                        !.joining = opened.joining \cup {c}]
              /\ work' = [by |-> "join", writes |-> <<PendingWrite(node.pending \cup {c})>>]
        /\ ~ Joining(c, node.shown, node.pending) =>
              /\ form' = [opened EXCEPT !.link = NoGroup] /\ work' = NoWork /\ node' = node
    BY <1>6 DEF Done
  <2>2. opened \in Forms /\ opened.joining = node.pending
    BY <1>1 DEF Forms, Nodes
  <2> HIDE DEF opened
  <2>3. /\ disk' \in [profile: ShownProfile, shown: [Groups -> Displayed],
                      pending: SUBSET Groups, setting: OwnNames]
        /\ disk'.profile = disk.profile /\ disk'.shown = disk.shown
        /\ disk'.pending = disk.pending
    BY <1>1, <2>1 DEF Forms
  <2>4. Follows(<<>>)
    BY <1>3, <1>6
  <2>5. CASE Joining(c, node.shown, node.pending)
    <3>1. c \in Groups
      BY <2>5 DEF Joining
    <3>2. form' \in Forms /\ form'.joining = node.pending \cup {c}
      <4>1. node.pending \cup {c} \in SUBSET Groups
        BY <1>1, <3>1 DEF Nodes
      <4> QED
        BY <2>1, <2>2, <2>5, <4>1 DEF Forms
    <3>3. /\ node' = [node EXCEPT !.pending = @ \cup {c}]
          /\ work' = [by |-> "join", writes |-> <<PendingWrite(node.pending \cup {c})>>]
      BY <2>1, <2>5
    <3>4. failed' \in BOOLEAN /\ promised' = promised
          /\ storeFaults' \in [calls: 0 .. MaxStoreCalls, failures: 0 .. MaxFailures,
                               crashes: 0 .. MaxDeaths]
      BY <1>1, <1>2, <2>1
    <3> HIDE DEF c
    <3>5. form'.online /\ ~ failed' => form'.joining \subseteq node.pending \cup {c}
      BY <3>2
    <3> QED
      BY <2>3, <2>4, <3>1, <3>2, <3>3, <3>4, <3>5, JoinBegins
  <2>6. CASE ~ Joining(c, node.shown, node.pending)
    <3>1. form' \in Forms /\ form'.joining = node.pending
      BY <2>1, <2>2, <2>6 DEF Forms
    <3> QED
      BY <1>5, <2>1, <2>3, <2>4, <2>6, <3>1
  <2> QED
    BY <2>5, <2>6
<1>7. CASE work.by = "profile"
  <2>1. /\ disk' = [disk EXCEPT !.setting = node.profile.name]
        /\ form' = [form EXCEPT !.field = node.profile.name]
        /\ work' = NoWork /\ UNCHANGED <<node, failed>>
    BY <1>7 DEF Done
  <2>2. node.profile.name \in OwnNames
    BY <1>1 DEF Nodes, ShownProfile
  <2>3. /\ disk' \in [profile: ShownProfile, shown: [Groups -> Displayed],
                      pending: SUBSET Groups, setting: OwnNames]
        /\ disk'.profile = disk.profile /\ disk'.shown = disk.shown
        /\ disk'.pending = disk.pending
    BY <1>1, <2>1, <2>2
  <2>4. form' \in Forms /\ form'.online = form.online /\ form'.joining = form.joining
    BY <1>1, <2>1, <2>2 DEF Forms
  <2>5. failed' = failed /\ (form.online /\ ~ failed => form.joining \subseteq node.pending)
    BY <2>1 DEF StoreIInv, ProfileFollows
  <2> QED
    BY <1>1, <1>3, <1>5, <2>1, <2>3, <2>4, <2>5
<1>8. CASE work.by \notin {"start", "profile"}
  <2>1. work' = NoWork /\ UNCHANGED <<disk, node, form, failed>>
    BY <1>8 DEF Done
  <2>2. form.online /\ ~ failed => form.joining \subseteq node.pending
    BY DEF StoreIInv, ProfileFollows
  <2> QED
    BY <1>1, <1>3, <1>5, <2>1, <2>2
<1> QED
  BY <1>6, <1>7, <1>8

\* The program dies and starts again with what is on disk.
LEMMA NodeDiesKeeps == ASSUME StoreIInv, NodeDies PROVE StoreIInv'
<1>1. /\ disk \in [profile: ShownProfile, shown: [Groups -> Displayed],
                   pending: SUBSET Groups, setting: OwnNames]
      /\ promised \subseteq Groups /\ failed \in BOOLEAN
      /\ storeFaults \in [calls: 0 .. MaxStoreCalls, failures: 0 .. MaxFailures,
                          crashes: 0 .. MaxDeaths]
      /\ disk.shown = node.shown
  BY DEF StoreIInv, StoreTyped, ProfileFollows
<1>2. /\ storeFaults.crashes < MaxDeaths
      /\ storeFaults' = [storeFaults EXCEPT !.crashes = storeFaults.crashes + 1]
      /\ node' = Loaded(disk) /\ form' = PanelOpens(disk, NoGroup) /\ work' = NoWork
      /\ UNCHANGED <<disk, promised, failed>>
  BY DEF NodeDies
<1>3. storeFaults' \in [calls: 0 .. MaxStoreCalls, failures: 0 .. MaxFailures,
                        crashes: 0 .. MaxDeaths]
  <2>1. storeFaults.crashes + 1 \in 0 .. MaxDeaths
    BY <1>1, <1>2, StoreAssumption
  <2> QED
    BY <1>1, <1>2, <2>1
<1>4. /\ node' \in Nodes /\ node'.shown = disk.shown
      /\ node'.pending = {c \in disk.pending : disk.shown[c] = NotHeld}
  BY <1>1, <1>2 DEF Loaded, Nodes
<1>5. form' \in Forms /\ ~ form'.online
  BY <1>1, <1>2 DEF PanelOpens, Forms
<1>6. work'.by = "none" /\ work'.writes = <<>>
  BY <1>2 DEF NoWork
<1>7. StoreTyped'
  <2>1. work' \in [by: Works, writes: Seq(Writes)] /\ Len(work'.writes) <= 2 + Cardinality(Groups)
    BY <1>2, NoWorkTyped
  <2> QED
    BY <1>1, <1>2, <1>3, <1>4, <1>5, <2>1 DEF StoreTyped, Nodes, Forms
<1>8. WritesSound'
  BY <1>6 DEF WritesSound
<1>9. PromisesKept'
  <2> SUFFICES ASSUME NEW c \in promised
        PROVE  /\ node'.shown[c] # Former
               /\ c \in disk.pending \/ MemberOf(disk.shown, c)
               /\ c \in node'.pending \/ MemberOf(disk.shown, c)
    BY <1>2, <1>4 DEF PromisesKept
  <2>1. disk.shown[c] \in Displayed
    BY <1>1
  <2>2. disk.shown[c] # Former /\ (c \in disk.pending \/ MemberOf(disk.shown, c))
    BY <1>1 DEF StoreIInv, PromisesKept
  <2> QED
    BY <1>4, <2>1, <2>2 DEF Displayed, MemberOf
<1>10. ProfileFollows'
  BY <1>2, <1>4, <1>5, <1>6 DEF ProfileFollows
<1> QED
  BY <1>7, <1>8, <1>9, <1>10 DEF StoreIInv

\* A user who is a member of some communities and has no invitation.
LEMMA StoreStarts == ASSUME StoreInit PROVE StoreIInv
<1>1. PICK n \in OwnNames, b \in Bios, joined \in SUBSET Groups, link \in Groups \cup {NoGroup} :
        /\ disk = [profile |-> [name |-> n, bio |-> b], pending |-> {}, setting |-> n,
                   shown |-> [c \in Groups |->
                                IF c \in joined THEN [name |-> n, bio |-> b] ELSE NotHeld]]
        /\ node = Loaded(disk) /\ form = PanelOpens(disk, link)
  BY DEF StoreInit
<1>2. /\ work = NoWork /\ promised = {} /\ failed = FALSE
      /\ storeFaults = [calls |-> 0, failures |-> 0, crashes |-> 0]
  BY DEF StoreInit
<1>3. [name |-> n, bio |-> b] \in ShownProfile
  BY DEF ShownProfile
<1>4. disk \in [profile: ShownProfile, shown: [Groups -> Displayed],
                pending: SUBSET Groups, setting: OwnNames]
  BY <1>1, <1>3 DEF Displayed
<1>5. node \in Nodes /\ node.shown = disk.shown
  BY <1>1, <1>4 DEF Loaded, Nodes
<1>6. form \in Forms /\ ~ form.online
  BY <1>1, <1>4 DEF PanelOpens, Forms
<1>7. work.by = "none" /\ work.writes = <<>>
  BY <1>2 DEF NoWork
<1>8. storeFaults \in [calls: 0 .. MaxStoreCalls, failures: 0 .. MaxFailures,
                       crashes: 0 .. MaxDeaths]
  <2>1. 0 \in 0 .. MaxStoreCalls /\ 0 \in 0 .. MaxFailures /\ 0 \in 0 .. MaxDeaths
    BY StoreAssumption
  <2> QED
    BY <1>2, <2>1
<1>9. StoreTyped
  <2>1. work \in [by: Works, writes: Seq(Writes)] /\ Len(work.writes) <= 2 + Cardinality(Groups)
    BY <1>2, NoWorkTyped
  <2> QED
    BY <1>2, <1>4, <1>5, <1>6, <1>8, <2>1 DEF StoreTyped, Nodes, Forms
<1>10. WritesSound /\ PromisesKept
  BY <1>2, <1>7 DEF WritesSound, PromisesKept
<1>11. ProfileFollows
  BY <1>5, <1>6, <1>7 DEF ProfileFollows
<1> QED
  BY <1>9, <1>10, <1>11 DEF StoreIInv

\* Every step of a node and its panel keeps the files in order.
LEMMA StoreKeeps == ASSUME StoreIInv, [StoreNext]_storeVars PROVE StoreIInv'
<1>1. CASE UNCHANGED storeVars
  <2>1. /\ StoreTyped' /\ PromisesKept' /\ WritesSound' /\ ProfileFollows'
    BY <1>1 DEF StoreIInv, StoreTyped, PromisesKept, WritesSound, WriteSound, ProfileFollows,
                Follows, storeVars
  <2> QED
    BY <2>1 DEF StoreIInv
<1>2. CASE StoreNext
  <2>1. ASSUME NEW n \in OwnNames, Start(n) PROVE StoreIInv'
    BY <2>1, StartKeeps
  <2>2. ASSUME NEW p \in ShownProfile, SetProfile(p) PROVE StoreIInv'
    BY <2>2, SetProfileKeeps
  <2>3. ASSUME NEW c \in Groups, AcceptInvite(c) PROVE StoreIInv'
    BY <2>3, AcceptInviteKeeps
  <2>4. ASSUME NEW c \in Groups, CreateCommunity(c) PROVE StoreIInv'
    BY <2>4, CreateCommunityKeeps
  <2>5. ASSUME NEW c \in Groups, LeaveGroup(c) PROVE StoreIInv'
    BY <2>5, LeaveGroupKeeps
  <2>6. ASSUME NEW c \in Groups, NEW n \in OwnNames, SnapshotAdmits(c, n) PROVE StoreIInv'
    BY <2>6, SnapshotAdmitsKeeps
  <2>7. ASSUME NEW c \in Groups, Merged(c) PROVE StoreIInv'
    BY <2>7, MergedKeeps
  <2>8. ASSUME NEW c \in Groups, Rejected(c) PROVE StoreIInv'
    BY <2>8, RejectedKeeps
  <2> QED
    BY <1>2, <2>1, <2>2, <2>3, <2>4, <2>5, <2>6, <2>7, <2>8, StopKeeps, WriteKeeps,
       WriteFailsKeeps, DoneKeeps, NodeDiesKeeps DEF StoreNext
<1> QED
  BY <1>1, <1>2

\* The invariant says what the user is promised.
LEMMA StoreImplied == ASSUME StoreIInv PROVE StoreInv
<1>1. StoreTypeOK
  <2>1. work.by \in {"none", "start", "profile", "join", "merge", "other"}
    BY DEF StoreIInv, StoreTyped, Works
  <2> QED
    BY <2>1 DEF StoreIInv, StoreTyped, StoreTypeOK
<1>2. ProfileIsEverywhere
  <2> SUFFICES ASSUME AtRest, form.online, ~ failed
        PROVE  /\ disk.profile = node.profile
               /\ \A c \in Groups : MemberOf(disk.shown, c) =>
                     disk.shown[c] = node.profile /\ node.shown[c] = node.profile
    BY DEF ProfileIsEverywhere
  <2>1. disk.shown = node.shown
    BY DEF StoreIInv, ProfileFollows
  <2> QED
    BY <2>1, RestingShows DEF MemberOf
<1>3. JoinIsNotForgotten
  BY DEF StoreIInv, PromisesKept, ProfileFollows, JoinIsNotForgotten, MemberOf
<1> QED
  BY <1>1, <1>2, <1>3 DEF StoreInv

\* Through failed writes and deaths: once a start has succeeded every community
\* of the user's shows the user's profile, on disk as in memory, and an
\* invitation that was saved is still pursued or its community held (store.cpp,
\* node.cpp, community_panel.cpp).
THEOREM StoreThm == StoreSpec => []StoreInv
<1>1. StoreInit => StoreIInv
  BY StoreStarts
<1>2. StoreIInv /\ [StoreNext]_storeVars => StoreIInv'
  BY StoreKeeps
<1>3. StoreIInv => StoreInv
  BY StoreImplied
<1> QED
  BY <1>1, <1>2, <1>3, PTL DEF StoreSpec
=============================================================================
