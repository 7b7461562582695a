----------------------------- MODULE Installation -----------------------------
(***************************************************************************)
(* What the updater promises about the folder the application is in: it    *)
(* holds one whole build, and goes from one to a newer one in one step.    *)
(* Only a crash in the middle of an install, or a second failure while the *)
(* first is being undone, leaves a mixture; a newer build repairs that.    *)
(***************************************************************************)
EXTENDS Naturals

CONSTANTS Builds, Mixture

VARIABLES
    content,    \* the build the folder holds (held, while another is installed)
    installing,
    crashes,    \* how often the application died
    failures    \* how often the file system refused to move or remove a file

installationVars == <<content, installing, crashes, failures>>

Init == content \in Builds /\ ~ installing /\ crashes = 0 /\ failures = 0

Newer == {b \in Builds : content # Mixture => b > content}

Begin ==
    /\ ~ installing /\ installing'
    /\ UNCHANGED <<content, crashes, failures>>

\* The install ends with the new build or, undone, with the old one.
End ==
    /\ installing /\ ~ installing'
    /\ \/ content' \in Newer \cup {content}
       \/ content' = Mixture /\ failures > 1
    /\ UNCHANGED <<crashes, failures>>

Crash ==
    /\ crashes' = crashes + 1
    /\ ~ installing'
    /\ content' \in IF installing THEN Newer \cup {content, Mixture} ELSE {content}
    /\ UNCHANGED failures

Refuse ==
    /\ failures' = failures + 1
    /\ UNCHANGED <<content, installing, crashes>>

Next == Begin \/ End \/ Crash \/ Refuse

Spec == Init /\ [][Next]_installationVars
=============================================================================
