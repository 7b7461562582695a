-------------------------------- MODULE MCLive --------------------------------
(***************************************************************************)
(* What must eventually happen, for the parts whose promises end in an     *)
(* "eventually": the registry that finds the link of two devices, a join   *)
(* that is sent on to a host the owner prefers, a share on its way to a    *)
(* viewer, and its sound.  They share no variable, so a behaviour lets one *)
(* of them run, the "machine", and the others stay as they began.          *)
(***************************************************************************)
EXTENDS MCCommunityNode, PeerRegistry, ScreenStream, ShareSound

VARIABLE machine

\* A device starts with any settings; the other choices are made in the run.
LiveInit ==
    /\ machine \in {"registry", "join", "stream", "sound"}
    /\ RegistryInit /\ StreamInit /\ Together(HostedByB)
    /\ ShareSoundInit
    /\ listener.output = CHOOSE o \in Outputs : TRUE
    /\ listener.volume = CHOOSE level \in Volumes : TRUE

RegistryRuns == machine = "registry" /\ RegistryNext
    /\ UNCHANGED <<vars, streamVars, shareSoundVars, machine>>
JoinRuns == machine = "join" /\ Next
    /\ UNCHANGED <<registryVars, streamVars, shareSoundVars, machine>>
StreamRuns == machine = "stream" /\ StreamNext
    /\ UNCHANGED <<vars, registryVars, shareSoundVars, machine>>
SoundRuns == machine = "sound" /\ ShareSoundNext
    /\ UNCHANGED <<vars, registryVars, streamVars, machine>>

LiveVars == <<vars, registryVars, streamVars, shareSoundVars, machine>>

\* The machine that runs is scheduled fairly; it runs for ever.
Active(m) == []<>(machine = m)
LiveFairness ==
    \/ Active("registry") /\ RegistryFairness
    \/ Active("join") /\ Fairness
    \/ Active("stream") /\ StreamFairness
    \/ Active("sound") /\ ShareSoundFairness

LiveSpec ==
    LiveInit /\ [][RegistryRuns \/ JoinRuns \/ StreamRuns \/ SoundRuns]_LiveVars
             /\ LiveFairness

-----------------------------------------------------------------------------
\* The pair agrees on one link at a time and in the end keeps one, whatever the
\* order in which Node::encrypted sees the handshakes of both devices' dialling.
OneLinkLasts ==
    []RegistryTypeOK /\ ImplementsOneLink /\ (Active("registry") => NothingLeftOver)
=============================================================================
