------------------------------- MODULE Updater -------------------------------
(***************************************************************************)
(* The updater: desktop/updater.cpp (check, download, extract, restart),   *)
(* desktop/update_install.cpp (the staged payload, its marker, the moves   *)
(* that install it) and the start of main.cpp.  The folder, the payload    *)
(* and the backups outlive the application, which may die between any two  *)
(* file operations; every file operation may be refused.                   *)
(***************************************************************************)
EXTENDS Naturals, Sequences

CONSTANTS
    ReleaseFiles,   \* [build -> the files of its release]
    Executable, \* the file that starts the application
    MaxCrashes, MaxMoveFailures, MaxRemoveFailures  \* bounds on the faults

ASSUME UpdaterAssumption ==
    /\ DOMAIN ReleaseFiles \subseteq Nat \ {0}
    /\ 1 \in DOMAIN ReleaseFiles
    /\ Executable \in ReleaseFiles[1]

VARIABLES
    installed,  \* [file -> its build in the application's folder, or Absent]
    staged,     \* the payload: [file -> build]
    backup,     \* the files moved aside by the last install: [file -> build]
    marker,     \* the build that stagedMarker names, or Absent
    app,        \* the running application: its build and the updater's state
    moves,      \* the install under way
    latest,     \* the latest release
    attempts,   \* how often the staged build was installed, or tried to be
    updateFaults

diskVars == <<installed, staged, backup, marker>>
updaterVars == <<diskVars, app, moves, latest, attempts, updateFaults>>

Builds == DOMAIN ReleaseFiles
Files == UNION {ReleaseFiles[b] : b \in Builds}
Absent == 0
NoFiles == [f \in Files |-> Absent]
Has(folder) == {f \in Files : folder[f] # Absent}

\* The files of a folder in which build b is unpacked.
Unpacked(b) == [f \in Files |-> IF f \in ReleaseFiles[b] THEN b ELSE Absent]

Holds(folder, b) == b \in Builds /\ \A f \in ReleaseFiles[b] : folder[f] = b

\* The order of the moves, each with whether it saved a file and placed one.
NoMoves == [todo |-> {}, steps |-> <<>>, back |-> FALSE, atStart |-> FALSE, base |-> Absent]

MixedBuilds == 0
WholeBuild ==
    IF Holds(installed, installed[Executable]) THEN installed[Executable] ELSE MixedBuilds

UpdaterInit ==
    /\ installed = Unpacked(1)
    /\ staged = NoFiles /\ backup = NoFiles /\ marker = Absent
    /\ app = [build |-> 1, state |-> "Off", release |-> Absent]
    /\ moves = NoMoves
    /\ latest = 1
    /\ attempts = 0
    /\ updateFaults = [crashes |-> 0, moves |-> 0, removes |-> 0]

To(state) == app' = [app EXCEPT !.state = state]
MoveFails ==
    /\ updateFaults.moves < MaxMoveFailures
    /\ updateFaults' = [updateFaults EXCEPT !.moves = @ + 1]
RemoveFails ==
    /\ updateFaults.removes < MaxRemoveFailures
    /\ updateFaults' = [updateFaults EXCEPT !.removes = @ + 1]

-----------------------------------------------------------------------------
(* Looking for a release, downloading and unpacking it.                      *)

\* Mutant: what an earlier download left in the folder stays there.
CheckKeepingFiles ==
    /\ app.state \in {"Idle", "UpToDate", "ManualInstall", "Failed"}
    /\ marker' = Absent
    /\ To("Checking")
    /\ UNCHANGED <<installed, staged, backup, moves, latest, attempts, updateFaults>>

Cleared(folder, gone) == [f \in Files |-> IF f \in gone THEN Absent ELSE folder[f]]

\* Updater::check: a finished update is not thrown away for another one.  Qt
\* removes what it can of the updater's folder before it says that it could not.
Check ==
    /\ app.state \in {"Idle", "UpToDate", "ManualInstall", "Failed"}
    /\ \/ /\ staged' = NoFiles /\ backup' = NoFiles /\ marker' = Absent
          /\ To("Checking")
          /\ UNCHANGED updateFaults
       \/ /\ RemoveFails
          /\ \E gone \in SUBSET Has(staged) : staged' = Cleared(staged, gone)
          /\ \E gone \in SUBSET Has(backup) : backup' = Cleared(backup, gone)
          /\ marker' \in {marker, Absent}
          /\ To("Failed")
    /\ UNCHANGED <<installed, moves, latest, attempts>>

\* Updater::receiveRelease and download; the folder may not be writable.
ReceiveRelease ==
    /\ app.state = "Checking"
    /\ \/ To("Failed")
       \/ latest <= app.build /\ To("UpToDate")
       \/ /\ latest > app.build
          /\ \E state \in {"Downloading", "ManualInstall", "Failed"} :
                app' = [app EXCEPT !.state = state, !.release = latest]
    /\ UNCHANGED <<diskVars, moves, latest, attempts, updateFaults>>

\* Updater::receiveChunk, finishDownload: an archive of another size than the
\* release names is refused.
FinishDownload ==
    /\ app.state = "Downloading"
    /\ To("Extracting") \/ To("Failed")
    /\ UNCHANGED <<diskVars, moves, latest, attempts, updateFaults>>

\* The tool that unpacks the archive writes file after file.
ExtractFile ==
    /\ app.state = "Extracting"
    /\ \E f \in ReleaseFiles[app.release] :
        /\ staged[f] # app.release
        /\ staged' = [staged EXCEPT ![f] = app.release]
    /\ UNCHANGED <<installed, backup, marker, app, moves, latest, attempts, updateFaults>>

CanReplace == Executable \in Has(staged)

\* Updater::finishExtracting, planReplacements, markStaged.
FinishExtracting ==
    /\ app.state = "Extracting"
    /\ \/ To("Failed") /\ UNCHANGED <<marker, attempts>>
       \/ /\ Holds(staged, app.release)
          /\ CanReplace
          /\ marker' = app.release
          /\ attempts' = 0
          /\ To("Ready")
    /\ UNCHANGED <<installed, staged, backup, moves, latest, updateFaults>>

-----------------------------------------------------------------------------
(* Installing the staged build.                                              *)

\* What happens when installStaged fails: the application stays, at its start
\* or in restart().
GivesUp(atStart) == To(IF atStart THEN "Idle" ELSE "Failed")

\* installStaged: the marker goes first.
InstallStaged(atStart) ==
    \/ /\ RemoveFails
       /\ GivesUp(atStart)
       /\ UNCHANGED <<marker, moves, attempts>>
    \/ /\ marker = Absent
       /\ GivesUp(atStart)
       /\ UNCHANGED <<marker, moves, attempts, updateFaults>>
    \/ /\ marker # Absent
       /\ marker' = Absent
       /\ attempts' = attempts + 1
       /\ IF CanReplace
            THEN /\ moves' = [todo |-> Has(staged), steps |-> <<>>, back |-> FALSE,
                              atStart |-> atStart, base |-> WholeBuild]
                 /\ To("Installing")
            ELSE GivesUp(atStart) /\ UNCHANGED moves
       /\ UNCHANGED updateFaults

\* Updater::restart.
RestartToInstall ==
    /\ app.state = "Ready"
    /\ InstallStaged(FALSE)
    /\ UNCHANGED <<installed, staged, backup, latest>>

\* main: the application starts, if its executable is there.
StartApp ==
    /\ app.state = "Off"
    /\ installed[Executable] # Absent
    /\ app' = [build |-> installed[Executable], state |-> "Starting", release |-> Absent]
    /\ UNCHANGED <<diskVars, moves, latest, attempts, updateFaults>>

\* startStagedUpdate: a build that is not newer is forgotten, if its marker can
\* be removed.
StartStagedUpdate ==
    /\ app.state = "Starting"
    /\ \/ /\ marker <= app.build
          /\ \/ marker' = Absent /\ UNCHANGED updateFaults
             \/ marker # Absent /\ RemoveFails /\ UNCHANGED marker
          /\ To("Idle")
          /\ UNCHANGED <<moves, attempts>>
       \/ marker > app.build /\ InstallStaged(TRUE)
    /\ UNCHANGED <<installed, staged, backup, latest>>

\* applyReplacements takes the files one by one: the installed file is moved
\* aside, the staged one is moved to its place.  No older backup is in the way:
\* a build is staged only after check has emptied the folder.
Step == moves.steps[Len(moves.steps)]
Moving == app.state = "Installing" /\ ~ moves.back
BetweenFiles == moves.steps # <<>> => Step.placed
WithStep(step) == [moves EXCEPT !.steps[Len(moves.steps)] = step]

MoveAside ==
    /\ Moving /\ BetweenFiles
    /\ \E f \in moves.todo :
        LET saved == installed[f] # Absent IN
        /\ backup' = [backup EXCEPT ![f] = IF saved THEN installed[f] ELSE @]
        /\ installed' = [installed EXCEPT ![f] = Absent]
        /\ moves' = [moves EXCEPT !.todo = @ \ {f},
                        !.steps = Append(@, [file |-> f, saved |-> saved, placed |-> FALSE])]
    /\ UNCHANGED <<staged, marker, app, latest, attempts, updateFaults>>

PlaceFile ==
    /\ Moving /\ ~ BetweenFiles
    /\ installed' = [installed EXCEPT ![Step.file] = staged[Step.file]]
    /\ staged' = [staged EXCEPT ![Step.file] = Absent]
    /\ moves' = WithStep([Step EXCEPT !.placed = TRUE])
    /\ UNCHANGED <<backup, marker, app, latest, attempts, updateFaults>>

\* Mutant: the files that were moved are not moved back.
RefusedForGood ==
    /\ Moving
    /\ moves.todo # {} \/ ~ BetweenFiles
    /\ MoveFails
    /\ GivesUp(moves.atStart)
    /\ moves' = NoMoves
    /\ UNCHANGED <<diskVars, latest, attempts>>

MoveIsRefused ==
    /\ Moving
    /\ moves.todo # {} \/ ~ BetweenFiles
    /\ MoveFails
    /\ moves' = [moves EXCEPT !.back = TRUE]
    /\ UNCHANGED <<diskVars, app, latest, attempts>>

\* All is moved: the new build is started and this application ends, unless
\* the new one cannot be started.
AllMoved ==
    /\ Moving /\ BetweenFiles /\ moves.todo = {}
    /\ To("Off") \/ To(IF moves.atStart THEN "Idle" ELSE "Installed")
    /\ moves' = NoMoves
    /\ UNCHANGED <<diskVars, latest, attempts, updateFaults>>

\* rollBack undoes the moves, the last one first, and skips what it cannot undo.
RollBack ==
    /\ app.state = "Installing" /\ moves.back /\ moves.steps # <<>>
    /\ LET rest == [moves EXCEPT !.steps = SubSeq(@, 1, Len(@) - 1)] IN
       \/ /\ Step.placed
          /\ installed' = [installed EXCEPT ![Step.file] = Absent]
          /\ staged' = [staged EXCEPT ![Step.file] = installed[Step.file]]
          /\ moves' = WithStep([Step EXCEPT !.placed = FALSE])
          /\ UNCHANGED <<backup, updateFaults>>
       \/ /\ ~ Step.placed /\ Step.saved
          /\ installed' = [installed EXCEPT ![Step.file] = backup[Step.file]]
          /\ backup' = [backup EXCEPT ![Step.file] = Absent]
          /\ moves' = rest
          /\ UNCHANGED <<staged, updateFaults>>
       \/ /\ ~ Step.placed /\ ~ Step.saved
          /\ moves' = rest
          /\ UNCHANGED <<installed, staged, backup, updateFaults>>
       \/ /\ Step.placed \/ Step.saved
          /\ MoveFails
          /\ moves' = rest
          /\ UNCHANGED <<installed, staged, backup>>
    /\ UNCHANGED <<marker, app, latest, attempts>>

RolledBack ==
    /\ app.state = "Installing" /\ moves.back /\ moves.steps = <<>>
    /\ GivesUp(moves.atStart)
    /\ moves' = NoMoves
    /\ UNCHANGED <<diskVars, latest, attempts, updateFaults>>

-----------------------------------------------------------------------------
(* The world around it.                                                      *)

Publish ==
    /\ latest + 1 \in Builds
    /\ latest' = latest + 1
    /\ UNCHANGED <<diskVars, app, moves, attempts, updateFaults>>

\* The user closes the application; an install is not interrupted by that.
Quit ==
    /\ app.state \notin {"Off", "Starting", "Installing"}
    /\ To("Off")
    /\ UNCHANGED <<diskVars, moves, latest, attempts, updateFaults>>

CrashApp ==
    /\ app.state # "Off"
    /\ updateFaults.crashes < MaxCrashes
    /\ updateFaults' = [updateFaults EXCEPT !.crashes = @ + 1]
    /\ To("Off")
    /\ moves' = NoMoves
    /\ UNCHANGED <<diskVars, latest, attempts>>

UpdaterNext ==
    \/ Check \/ ReceiveRelease \/ FinishDownload \/ ExtractFile \/ FinishExtracting
    \/ RestartToInstall \/ StartApp \/ StartStagedUpdate
    \/ MoveAside \/ PlaceFile \/ MoveIsRefused \/ AllMoved \/ RollBack \/ RolledBack
    \/ Publish \/ Quit \/ CrashApp

UpdaterSpec == UpdaterInit /\ [][UpdaterNext]_updaterVars

-----------------------------------------------------------------------------
UpdaterStates == {"Off", "Starting", "Idle", "Checking", "Downloading", "Extracting",
    "UpToDate", "Ready", "Installing", "Installed", "ManualInstall", "Failed"}

UpdaterTypeOK ==
    /\ {installed, staged, backup} \subseteq [Files -> Builds \cup {Absent}]
    /\ marker \in Builds \cup {Absent}
    /\ app.build \in Builds /\ app.state \in UpdaterStates
    /\ moves.todo \subseteq Files

\* A payload that is marked as staged is one whole release, whatever earlier
\* downloads left in the folder and wherever the application died: the next
\* start installs it without looking at it again.  It takes two refusals to
\* break that: the marker stays when restart() cannot remove it, and the next
\* check empties the payload, but for what it cannot remove.
StagedIsWhole ==
    marker # Absent /\ updateFaults.removes <= 1 =>
        Holds(staged, marker) /\ Has(staged) \subseteq ReleaseFiles[marker]

\* "Unstages the payload even on failure, so a bad update isn't retried every
\* start" (update_install.h:43): also when the application dies in the install.
TriedOnce == attempts <= 1

\* The folder changes from one whole build to a newer whole build at once; only
\* a crash in the middle of the moves or a failure in the rollback of another
\* failure leaves a mixture ("Rolls back everything already moved if one move
\* fails", update_install.h:37).
FolderOfTheApp == INSTANCE Installation WITH
    Mixture <- MixedBuilds,
    content <- IF app.state = "Installing" THEN moves.base ELSE WholeBuild,
    installing <- app.state = "Installing",
    crashes <- updateFaults.crashes,
    failures <- updateFaults.moves + updateFaults.removes

ImplementsInstallation == FolderOfTheApp!Spec

\* What the updater leaves in its folders, wherever it was cut short.
UpdaterInv == UpdaterTypeOK /\ StagedIsWhole /\ TriedOnce
=============================================================================
